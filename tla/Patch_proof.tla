----------------------------- MODULE Patch_proof -----------------------------
(***************************************************************************)
(* Proofs about Patch for every set of files, contents and workers, every  *)
(* sequence of published versions and every number of retries.             *)
(***************************************************************************)
EXTENDS Patch, SequenceTheorems, TLAPS

OnDisk == Content \cup {Torn, Hole}

\* What is local to the chunked pipeline is gone when it has returned.
LocalInv ==
    /\ phase \notin {"download", "verify"} => diff = {}
    /\ phase # "download" =>
          /\ work = {} /\ writing = {} /\ ended = {}
          /\ job = [w \in Worker |-> NoPlace]
    /\ \A w \in ended : job[w] = NoPlace

\* Between Scan and the end of the chunked pipeline a wanted chunk is in its
\* place or in the diff, and no file has grown beyond its length.
ChunkInv ==
    phase \in {"download", "verify"} =>
        /\ moved \/ \A c \in Places(want) \ diff : Holds(disk, c[1], c[2], want[c[1]][c[2]])
        /\ shrinks \/ \A f \in File : Len(disk[f]) <= Len(want[f])

\* Of the files' pipeline: who is not to be downloaded is as wanted.
FilesInv ==
    phase \in {"next", "request", "promote"} =>
        \A f \in File : f \in todo \/ (f = cur /\ phase # "next") \/ disk[f] = want[f]

IInv == TypeOK /\ LocalInv /\ ChunkInv /\ FilesInv /\ OkMeansPatchedInPlace

-----------------------------------------------------------------------------
(* Sequences.                                                              *)

LEMMA FunctionIsSeq ==
  ASSUME NEW S, NEW n \in Nat, NEW q \in [1..n -> S]
  PROVE  q \in Seq(S) /\ Len(q) = n
  OBVIOUS

LEMMA Versioned ==
  ASSUME TypeOK
  PROVE  Versions[published] \in [File -> Seq(Content)]
  BY PatchAssumption DEF TypeOK

\* What Written leaves of a file, and that it is a file.
LEMMA WrittenFile ==
  ASSUME disk \in Files, NEW f \in File, NEW i \in Nat \ {0}, NEW x \in OnDisk
  PROVE  /\ Written(f, i, x) \in Files
         /\ \A g \in File \ {f} : Written(f, i, x)[g] = disk[g]
         /\ Len(Written(f, i, x)[f]) = IF Len(disk[f]) < i THEN i ELSE Len(disk[f])
         /\ Written(f, i, x)[f][i] = x
         /\ \A j \in 1..Len(disk[f]) : j # i => Written(f, i, x)[f][j] = disk[f][j]
  <1> DEFINE n == IF Len(disk[f]) < i THEN i ELSE Len(disk[f])
             q == [j \in 1..n |-> IF j = i THEN x
                                  ELSE IF j <= Len(disk[f]) THEN disk[f][j] ELSE Hole]
  <1>1. disk[f] \in Seq(OnDisk) /\ Len(disk[f]) \in Nat
    BY DEF Files, OnDisk
  <1>2. n \in Nat /\ i \in 1..n /\ \A j \in 1..Len(disk[f]) : j \in 1..n /\ j <= Len(disk[f])
    BY <1>1
  <1>3. \A j \in 1..n : q[j] \in OnDisk
    <2>1. ASSUME NEW j \in 1..n PROVE q[j] \in OnDisk
      <3>1. CASE j = i
        BY <3>1
      <3>2. CASE j # i /\ j <= Len(disk[f])
        <4>1. j \in 1..Len(disk[f])
          BY <1>1, <1>2, <3>2
        <4>2. disk[f][j] \in OnDisk
          BY <1>1, <4>1, ElementOfSeq
        <4>3. QED
          BY <3>2, <4>2
      <3>3. CASE j # i /\ ~(j <= Len(disk[f]))
        BY <3>3 DEF OnDisk
      <3>4. QED
        BY <3>1, <3>2, <3>3
    <2>2. QED
      BY <2>1
  <1> HIDE DEF n
  <1>4. q \in [1..n -> OnDisk]
    BY <1>3
  <1> HIDE DEF q
  <1>5. q \in Seq(OnDisk) /\ Len(q) = n
    BY <1>2, <1>4, FunctionIsSeq
  <1>6. Written(f, i, x) = [disk EXCEPT ![f] = q]
    BY DEF Written, q, n
  <1>7. DOMAIN disk = File
    BY DEF Files
  <1>8. Written(f, i, x)[f] = q /\ \A g \in File \ {f} : Written(f, i, x)[g] = disk[g]
    BY <1>6, <1>7
  <1>9. Written(f, i, x) \in Files
    BY <1>5, <1>6 DEF Files, OnDisk
  <1>10. q[i] = x /\ \A j \in 1..Len(disk[f]) : j # i => q[j] = disk[f][j]
    BY <1>2 DEF q
  <1>11. QED
    BY <1>5, <1>8, <1>9, <1>10 DEF n

\* A file that has the wanted length at most and every wanted chunk in its
\* place is the wanted file.
LEMMA AllInPlace ==
  ASSUME TypeOK,
         \A c \in Places(want) : Holds(disk, c[1], c[2], want[c[1]][c[2]]),
         \A f \in File : Len(disk[f]) <= Len(want[f])
  PROVE  disk = want
  <1>1. ASSUME NEW f \in File PROVE disk[f] = want[f]
    <2>1. disk[f] \in Seq(OnDisk) /\ want[f] \in Seq(OnDisk)
      BY DEF TypeOK, Files, OnDisk
    <2>2. \A i \in 1..Len(want[f]) : i <= Len(disk[f]) /\ disk[f][i] = want[f][i]
      <3>1. ASSUME NEW i \in 1..Len(want[f]) PROVE i <= Len(disk[f]) /\ disk[f][i] = want[f][i]
        <4>1. <<f, i>> \in Places(want)
          BY DEF Places
        <4>2. Holds(disk, f, i, want[f][i])
          BY <4>1
        <4>3. QED
          BY <4>2 DEF Holds
      <3>2. QED
        BY <3>1
    <2>3. Len(disk[f]) \in Nat /\ Len(want[f]) \in Nat
      BY <2>1
    <2>4. Len(disk[f]) = Len(want[f])
      BY <2>2, <2>3
    <2>5. QED
      BY <2>1, <2>2, <2>4, SeqEqual
  <1>2. disk \in [File -> Seq(OnDisk)] /\ want \in [File -> Seq(OnDisk)]
    BY DEF TypeOK, Files, OnDisk
  <1>3. QED
    BY <1>1, <1>2

-----------------------------------------------------------------------------
LEMMA InitIInv == Init => IInv
  <1> SUFFICES ASSUME Init PROVE IInv
    OBVIOUS
  <1> USE PatchAssumption DEF Init
  <1>1. 1 \in 1..Len(Versions) /\ Versions[1] \in [File -> Seq(Content)]
    OBVIOUS
  <1>2. disk \in Files
    <2>1. Seq(Content) \subseteq Seq(Content \cup {Torn, Hole})
      BY SeqMonotonic
    <2>2. QED
      BY <2>1 DEF Files
  <1>3. tmp \in [File -> Seq(Content)]
    OBVIOUS
  <1>4. attempt \in [Worker -> 0..MaxRetry] /\ tries \in 0..MaxRetry /\ runs \in 0..MaxRuns
    OBVIOUS
  <1>5. TypeOK
    BY <1>1, <1>2, <1>3, <1>4 DEF TypeOK, Phase
  <1>6. LocalInv /\ ChunkInv /\ FilesInv /\ OkMeansPatchedInPlace
    BY DEF LocalInv, ChunkInv, FilesInv, OkMeansPatchedInPlace
  <1>7. QED
    BY <1>5, <1>6 DEF IInv

\* What Receive and Promote make of the .tmp file.
LEMMA TmpType ==
  ASSUME TypeOK, NEW offset \in {0, Len(tmp[cur])}, NEW file \in Seq(Content),
         NEW n \in offset..Len(file)
  PROVE  SubSeq(tmp[cur], 1, offset) \o SubSeq(file, offset + 1, n) \in Seq(Content)
  <1>1. tmp[cur] \in Seq(Content) /\ Len(tmp[cur]) \in Nat /\ Len(file) \in Nat
    BY DEF TypeOK
  <1>2. offset \in Int /\ offset + 1 \in Int /\ n \in Int /\ 1 \in Int
    BY <1>1
  <1>3. \A i \in 1..offset : i \in 1..Len(tmp[cur])
    BY <1>1
  <1>4. \A i \in (offset + 1)..n : i \in 1..Len(file)
    BY <1>1
  <1>5. \A i \in 1..offset : tmp[cur][i] \in Content
    BY <1>1, <1>3, ElementOfSeq
  <1>6. \A i \in (offset + 1)..n : file[i] \in Content
    BY <1>4, ElementOfSeq
  <1>7. SubSeq(tmp[cur], 1, offset) \in Seq(Content)
    BY <1>2, <1>5, SubSeqProperties
  <1>8. SubSeq(file, offset + 1, n) \in Seq(Content)
    BY <1>2, <1>6, SubSeqProperties
  <1>9. QED
    BY <1>7, <1>8, ConcatProperties

\* A worker's job is a chunk of a file.
LEMMA JobPlace ==
  ASSUME TypeOK, NEW w \in Worker, job[w] # NoPlace
  PROVE  \E f \in File : \E i \in Nat \ {0} :
            i \in 1..Len(want[f]) /\ job[w] = <<f, i>> /\ want[f][i] \in Content
  <1>1. job[w] \in Places(want)
    BY DEF TypeOK
  <1>2. PICK f \in File : job[w] \in {<<f, i>> : i \in 1..Len(want[f])}
    BY <1>1 DEF Places
  <1>3. want[f] \in Seq(Content) /\ Len(want[f]) \in Nat
    BY DEF TypeOK
  <1>4. PICK i \in 1..Len(want[f]) : job[w] = <<f, i>>
    BY <1>2
  <1>5. i \in Nat \ {0} /\ want[f][i] \in Content
    BY <1>3, ElementOfSeq
  <1>6. QED
    BY <1>4, <1>5

LEMMA TypeStep == TypeOK /\ LocalInv /\ [Next]_vars => TypeOK'
  <1> SUFFICES ASSUME TypeOK, LocalInv, [Next]_vars PROVE TypeOK'
    OBVIOUS
  <1>v. Versions[published] \in [File -> Seq(Content)]
    BY Versioned
  <1>1. CASE Start
    <2>1. runs' \in 0..MaxRuns
      BY <1>1, PatchAssumption DEF Start, TypeOK
    <2>2. QED
      BY <1>1, <2>1 DEF Start, TypeOK, Phase, workers, legacy
  <1>2. CASE FetchChunkManifest
    <2>1. diff = {} /\ work = {}
      BY <1>2 DEF FetchChunkManifest, LocalInv
    <2>2. QED
      BY <1>2, <1>v, <2>1 DEF FetchChunkManifest, TypeOK, Phase, workers, legacy, history
  <1>3. CASE NotChunked \/ Check
    BY <1>3 DEF NotChunked, Check, TypeOK, Phase, workers, legacy, history
  <1>4. CASE Scan
    <2>1. job' \in [Worker -> diff' \cup {NoPlace}]
      BY <1>4 DEF Scan, LocalInv
    <2>2. diff' \subseteq Places(want) /\ work' \subseteq diff'
      BY <1>4 DEF Scan, DiffManifests
    <2>3. writing' = {} /\ ended' = {}
      BY <1>4 DEF Scan, LocalInv
    <2>4. failed' \in BOOLEAN /\ moved' \in BOOLEAN /\ shrinks' \in BOOLEAN
      BY <1>4 DEF Scan
    <2>5. phase' \in Phase
      BY <1>4 DEF Scan, Phase
    <2>6. QED
      BY <1>4, <2>1, <2>2, <2>3, <2>4, <2>5 DEF Scan, TypeOK, legacy
  <1>5. ASSUME NEW w \in Worker, Take(w) PROVE TypeOK'
    <2>1. PICK c \in work :
             /\ work' = work \ {c}
             /\ job' = [job EXCEPT ![w] = IF cancelled THEN NoPlace ELSE c]
      BY <1>5 DEF Take
    <2>2. job' \in [Worker -> diff \cup {NoPlace}]
      BY <2>1 DEF TypeOK
    <2>3. attempt' \in [Worker -> 0..MaxRetry]
      BY <1>5, PatchAssumption DEF Take, TypeOK
    <2>4. \A v \in writing : job'[v] = job[v]
      BY <1>5, <2>1 DEF Take, Idle, TypeOK
    <2>5. writing \subseteq {v \in Worker : job'[v] # NoPlace}
      BY <2>4 DEF TypeOK
    <2>6. ended' \subseteq Worker /\ failed' \in BOOLEAN
      BY <1>5 DEF Take, TypeOK
    <2>7. QED
      BY <1>5, <2>1, <2>2, <2>3, <2>5, <2>6 DEF Take, TypeOK, legacy, history
  <1>6. ASSUME NEW w \in Worker, BeginWrite(w) PROVE TypeOK'
    <2>1. PICK f \in File, i \in Nat \ {0} : job[w] = <<f, i>>
      BY <1>6, JobPlace DEF BeginWrite
    <2>2. disk' = Written(f, i, Torn)
      BY <1>6, <2>1 DEF BeginWrite
    <2>3. disk' \in Files
      BY <2>2, WrittenFile DEF TypeOK, OnDisk
    <2>4. writing' \subseteq {v \in Worker : job[v] # NoPlace}
      BY <1>6 DEF BeginWrite, TypeOK
    <2>5. QED
      BY <1>6, <2>3, <2>4 DEF BeginWrite, TypeOK, legacy, history
  <1>7. ASSUME NEW w \in Worker, EndWrite(w) PROVE TypeOK'
    <2>0. job[w] # NoPlace
      BY <1>7 DEF EndWrite, TypeOK
    <2>1. PICK f \in File, i \in Nat \ {0} : job[w] = <<f, i>> /\ want[f][i] \in Content
      BY <2>0, JobPlace
    <2>2. disk' = Written(f, i, want[f][i])
      BY <1>7, <2>1 DEF EndWrite
    <2>3. disk' \in Files
      BY <2>1, <2>2, WrittenFile DEF TypeOK, OnDisk
    <2>4. job' \in [Worker -> diff \cup {NoPlace}]
      BY <1>7 DEF EndWrite, TypeOK
    <2>5. writing' \subseteq {v \in Worker : job'[v] # NoPlace}
      BY <1>7 DEF EndWrite, TypeOK
    <2>6. QED
      BY <1>7, <2>3, <2>4, <2>5 DEF EndWrite, TypeOK, legacy, history
  <1>8. ASSUME NEW w \in Worker, DownloadFails(w) PROVE TypeOK'
    <2>1. attempt' \in [Worker -> 0..MaxRetry]
      <3>1. CASE attempt[w] < MaxRetry
        <4>1. attempt[w] + 1 \in 0..MaxRetry
          BY <3>1, PatchAssumption DEF TypeOK
        <4>2. attempt' = [attempt EXCEPT ![w] = attempt[w] + 1]
          BY <1>8, <3>1 DEF DownloadFails
        <4>3. QED
          BY <4>1, <4>2 DEF TypeOK
      <3>2. CASE ~(attempt[w] < MaxRetry)
        BY <1>8, <3>2 DEF DownloadFails, TypeOK
      <3>3. QED
        BY <3>1, <3>2
    <2>2. job' \in [Worker -> diff \cup {NoPlace}]
      BY <1>8 DEF DownloadFails, TypeOK
    <2>3. writing' \subseteq {v \in Worker : job'[v] # NoPlace}
      <3>1. \A v \in Worker \ {w} : job'[v] = job[v]
        BY <1>8 DEF DownloadFails, TypeOK
      <3>2. writing' = writing \ {w}
        BY <1>8 DEF DownloadFails
      <3>3. QED
        BY <3>1, <3>2 DEF TypeOK
    <2>4. ended' \subseteq Worker /\ failed' \in BOOLEAN
      BY <1>8 DEF DownloadFails, TypeOK
    <2>5. QED
      BY <1>8, <2>1, <2>2, <2>3, <2>4 DEF DownloadFails, TypeOK, legacy
  <1>9. CASE Join
    <2>1. \A w \in Worker : job[w] = NoPlace
      BY <1>9 DEF Join, LocalInv
    <2>2. job \in [Worker -> diff' \cup {NoPlace}] /\ writing = {}
      BY <2>1 DEF TypeOK
    <2>3. attempt' \in [Worker -> 0..MaxRetry]
      BY <1>9, PatchAssumption DEF Join
    <2>4. diff' \subseteq Places(want)
      BY <1>9 DEF Join, TypeOK
    <2>5. QED
      BY <1>9, <2>2, <2>3, <2>4 DEF Join, TypeOK, Phase, legacy, history
  <1>10. CASE VerifyWrittenChunks
    <2>1. work = {} /\ job = [w \in Worker |-> NoPlace]
      BY <1>10 DEF VerifyWrittenChunks, LocalInv
    <2>2. phase' \in Phase
      BY <1>10 DEF VerifyWrittenChunks, Phase
    <2>3. QED
      BY <1>10, <2>1, <2>2 DEF VerifyWrittenChunks, TypeOK, legacy, history
  <1>11. CASE FetchManifest \/ FetchManifestFails
    <2>1. diff = {} /\ work = {}
      BY <1>11 DEF FetchManifest, FetchManifestFails, LocalInv
    <2>2. QED
      BY <1>11, <1>v, <2>1 DEF FetchManifest, FetchManifestFails, TypeOK, Phase, workers, legacy
  <1>12. CASE NextFile
    <2>1. tries' \in 0..MaxRetry /\ phase' \in Phase /\ cur' \in File /\ todo' \subseteq File
      <3>1. CASE todo = {} \/ cancelled
        <4>1. phase' \in {"ok", "error"} /\ UNCHANGED <<todo, cur, tries>>
          BY <1>12, <3>1 DEF NextFile, legacy
        <4>2. QED
          BY <4>1 DEF TypeOK, Phase
      <3>2. CASE ~(todo = {} \/ cancelled)
        <4>1. cur' \in todo /\ todo' = todo \ {cur'} /\ tries' = 0 /\ phase' = "request"
          BY <1>12, <3>2 DEF NextFile
        <4>2. 0 \in 0..MaxRetry
          BY PatchAssumption
        <4>3. QED
          BY <4>1, <4>2 DEF TypeOK, Phase
      <3>3. QED
        BY <3>1, <3>2
    <2>2. QED
      BY <1>12, <2>1 DEF NextFile, TypeOK, workers, history
  <1>13. ASSUME Retry PROVE tries' \in 0..MaxRetry /\ phase' \in Phase
    BY <1>13, PatchAssumption DEF Retry, TypeOK, Phase
  <1>14. CASE Receive
    <2> DEFINE file == Versions[published][cur]
    <2>1. file \in Seq(Content)
      BY <1>v DEF TypeOK
    <2>2a. PICK offset \in {0, Len(tmp[cur])} :
              \E n \in offset..Len(file) :
                /\ tmp' = [tmp EXCEPT ![cur] = SubSeq(@, 1, offset) \o SubSeq(file, offset + 1, n)]
                /\ IF n = Len(file)
                   THEN phase' = "promote" /\ UNCHANGED <<tries, clean>>
                   ELSE Retry /\ clean' = FALSE
      BY <1>14, Zenon DEF Receive
    <2>2. PICK n \in offset..Len(file) :
             /\ tmp' = [tmp EXCEPT ![cur] = SubSeq(@, 1, offset) \o SubSeq(file, offset + 1, n)]
             /\ IF n = Len(file)
                THEN phase' = "promote" /\ UNCHANGED <<tries, clean>>
                ELSE Retry /\ clean' = FALSE
      BY <2>2a
    <2>3. SubSeq(tmp[cur], 1, offset) \o SubSeq(file, offset + 1, n) \in Seq(Content)
      BY <2>1, <2>2, TmpType
    <2>4. tmp' \in [File -> Seq(Content)]
      BY <2>2, <2>3 DEF TypeOK
    <2>5. tries' \in 0..MaxRetry /\ phase' \in Phase /\ clean' \in BOOLEAN
      BY <1>13, <2>2 DEF TypeOK, Phase
    <2> HIDE DEF file
    <2>6. QED
      BY <1>14, <2>4, <2>5 DEF Receive, TypeOK, workers
  <1>15. CASE RequestFails
    <2>1. tries' \in 0..MaxRetry /\ phase' \in Phase
      BY <1>13, <1>15 DEF RequestFails
    <2>2. clean' \in BOOLEAN
      BY <1>15 DEF RequestFails, TypeOK
    <2>3. QED
      BY <1>15, <2>1, <2>2 DEF RequestFails, TypeOK, workers
  <1>16. CASE Promote
    <2>1. tries' \in 0..MaxRetry /\ phase' \in Phase
      BY <1>13, <1>16 DEF Promote, TypeOK, Phase
    <2>2. tmp' \in [File -> Seq(Content)]
      BY <1>16 DEF Promote, TypeOK
    <2>3. disk' \in Files
      <3>1. tmp[cur] \in Seq(Content \cup {Torn, Hole})
        BY SeqMonotonic DEF TypeOK
      <3>2. QED
        BY <1>16, <3>1 DEF Promote, TypeOK, Files
    <2>4. QED
      BY <1>16, <2>1, <2>2, <2>3 DEF Promote, TypeOK, workers, history
  <1>17. CASE Cancel
    BY <1>17 DEF Cancel, TypeOK, workers, legacy
  <1>18. CASE Crash
    <2>1. attempt' \in [Worker -> 0..MaxRetry] /\ job' \in [Worker -> {NoPlace}]
      BY <1>18, PatchAssumption DEF Crash
    <2>2. QED
      BY <1>18, <2>1 DEF Crash, TypeOK, Phase, legacy, history
  <1>19. CASE Publish
    <2>1. published' \in 1..Len(Versions)
      BY <1>19, PatchAssumption DEF Publish, TypeOK
    <2>2. QED
      BY <1>19, <2>1 DEF Publish, TypeOK, workers, legacy
  <1>20. CASE Done \/ UNCHANGED vars
    BY <1>20 DEF Done, vars, TypeOK, workers, legacy, history
  <1>21. QED
    BY <1>1, <1>2, <1>3, <1>4, <1>5, <1>6, <1>7, <1>8, <1>9, <1>10, <1>11, <1>12, <1>14, <1>15,
       <1>16, <1>17, <1>18, <1>19, <1>20 DEF Next, Step, WorkerStep

-----------------------------------------------------------------------------
LEMMA LocalStep == TypeOK /\ LocalInv /\ [Next]_vars => LocalInv'
  <1> SUFFICES ASSUME TypeOK, LocalInv, [Next]_vars PROVE LocalInv'
    OBVIOUS
  <1>1. CASE Start \/ FetchChunkManifest \/ NotChunked
    BY <1>1 DEF Start, FetchChunkManifest, NotChunked, Running, LocalInv, workers
  <1>2. CASE Scan
    <2>1. diff' = DiffManifests /\ work' = DiffManifests
      BY <1>2 DEF Scan
    <2>2. phase' = IF DiffManifests = {} THEN "ok" ELSE "download"
      BY <1>2 DEF Scan
    <2>3. UNCHANGED <<writing, ended, job>> /\ writing = {} /\ ended = {}
          /\ job = [w \in Worker |-> NoPlace]
      BY <1>2 DEF Scan, LocalInv
    <2>4. QED
      BY <2>1, <2>2, <2>3 DEF LocalInv
  <1>3. ASSUME NEW w \in Worker, WorkerStep(w) PROVE LocalInv'
    <2>1. phase = "download" /\ phase' = "download"
      BY <1>3 DEF WorkerStep, Take, BeginWrite, EndWrite, DownloadFails
    <2>2. \A v \in ended' : job'[v] = NoPlace
      <3>1. CASE Take(w)
        <4>1. PICK c \in work : job' = [job EXCEPT ![w] = IF cancelled THEN NoPlace ELSE c]
          BY <3>1 DEF Take
        <4>2. w \notin ended /\ ended' = IF cancelled THEN ended \cup {w} ELSE ended
          BY <3>1 DEF Take, Idle
        <4>3. QED
          BY <4>1, <4>2 DEF TypeOK, LocalInv
      <3>2. CASE BeginWrite(w)
        BY <3>2 DEF BeginWrite, LocalInv
      <3>3. CASE EndWrite(w)
        BY <3>3 DEF EndWrite, LocalInv, TypeOK
      <3>4. CASE DownloadFails(w)
        <4>1. CASE attempt[w] < MaxRetry
          BY <3>4, <4>1 DEF DownloadFails, LocalInv
        <4>2. CASE ~(attempt[w] < MaxRetry)
          BY <3>4, <4>2 DEF DownloadFails, LocalInv, TypeOK
        <4>3. QED
          BY <4>1, <4>2
      <3>5. QED
        BY <1>3, <3>1, <3>2, <3>3, <3>4 DEF WorkerStep
    <2>3. QED
      BY <2>1, <2>2 DEF LocalInv
  <1>4. CASE Join
    <2>1. \A w \in Worker : job[w] = NoPlace
      BY <1>4 DEF Join, LocalInv
    <2>2. job = [w \in Worker |-> NoPlace] /\ writing = {}
      BY <2>1 DEF TypeOK
    <2>3. QED
      BY <1>4, <2>2 DEF Join, LocalInv
  <1>5. CASE VerifyWrittenChunks
    BY <1>5 DEF VerifyWrittenChunks, LocalInv
  <1>6. CASE FetchManifest \/ FetchManifestFails \/ Check
    BY <1>6 DEF FetchManifest, FetchManifestFails, Check, LocalInv, workers
  <1>7. CASE NextFile
    <2>1. phase' \in {"ok", "error", "request"}
      BY <1>7 DEF NextFile
    <2>2. QED
      BY <1>7, <2>1 DEF NextFile, LocalInv, workers
  <1>8. CASE Receive \/ RequestFails \/ Promote
    <2>1. phase \in {"request", "promote"} /\ UNCHANGED workers
      BY <1>8 DEF Receive, RequestFails, Promote
    <2>2. phase' \in {"promote", "request", "error", "next"}
      BY <1>8 DEF Receive, RequestFails, Promote, Retry
    <2>3. QED
      BY <2>1, <2>2 DEF LocalInv, workers
  <1>9. CASE Cancel \/ Publish \/ Done \/ UNCHANGED vars
    BY <1>9 DEF Cancel, Publish, Done, vars, LocalInv, workers
  <1>10. CASE Crash
    BY <1>10 DEF Crash, LocalInv
  <1>11. QED
    BY <1>1, <1>2, <1>3, <1>4, <1>5, <1>6, <1>7, <1>8, <1>9, <1>10 DEF Next, Step

\* What ChunkInv says of the files.
Kept(files) ==
    /\ moved \/ \A c \in Places(want) \ diff : Holds(files, c[1], c[2], want[c[1]][c[2]])
    /\ shrinks \/ \A f \in File : Len(files[f]) <= Len(want[f])

\* A worker that writes a chunk of the diff leaves the others in their places
\* and no file longer than wanted.
LEMMA WriteKeeps ==
  ASSUME TypeOK, Kept(disk), NEW f \in File, NEW i \in Nat \ {0}, NEW x \in OnDisk,
         <<f, i>> \in diff, i \in 1..Len(want[f])
  PROVE  Kept(Written(f, i, x))
  <1> DEFINE after == Written(f, i, x)
  <1>1. /\ \A g \in File \ {f} : after[g] = disk[g]
        /\ Len(after[f]) = IF Len(disk[f]) < i THEN i ELSE Len(disk[f])
        /\ \A j \in 1..Len(disk[f]) : j # i => after[f][j] = disk[f][j]
    BY WrittenFile DEF TypeOK
  <1> HIDE DEF after
  <1>2. \A g \in File : disk[g] \in Seq(OnDisk) /\ Len(disk[g]) \in Nat /\ want[g] \in Seq(Content)
                        /\ Len(want[g]) \in Nat
    BY DEF TypeOK, Files, OnDisk
  <1>3. ASSUME NEW c \in Places(want) \ diff, Holds(disk, c[1], c[2], want[c[1]][c[2]])
        PROVE  Holds(after, c[1], c[2], want[c[1]][c[2]])
    <2>1. PICK g \in File : c \in {<<g, j>> : j \in 1..Len(want[g])}
      BY DEF Places
    <2>2. PICK j \in 1..Len(want[g]) : c = <<g, j>>
      BY <2>1
    <2>3. j \in Nat \ {0} /\ j <= Len(disk[g]) /\ disk[g][j] = want[g][j]
      BY <1>2, <1>3, <2>2 DEF Holds
    <2>4. CASE g = f
      <3>1. j # i
        BY <2>2, <2>4
      <3>2. j \in 1..Len(disk[f]) /\ j <= Len(after[f])
        BY <1>1, <1>2, <2>3, <2>4
      <3>3. after[f][j] = want[f][j]
        BY <1>1, <2>3, <2>4, <3>1, <3>2
      <3>4. QED
        BY <2>2, <2>4, <3>2, <3>3 DEF Holds
    <2>5. CASE g # f
      BY <1>1, <2>2, <2>3, <2>5 DEF Holds
    <2>6. QED
      BY <2>4, <2>5
  <1>4. ASSUME NEW g \in File, Len(disk[g]) <= Len(want[g]) PROVE Len(after[g]) <= Len(want[g])
    <2>1. CASE g = f
      BY <1>1, <1>2, <1>4, <2>1
    <2>2. CASE g # f
      BY <1>1, <1>4, <2>2
    <2>3. QED
      BY <2>1, <2>2
  <1>5. QED
    BY <1>3, <1>4 DEF Kept, after

LEMMA ChunkStep == TypeOK /\ ChunkInv /\ [Next]_vars => ChunkInv'
  <1> SUFFICES ASSUME TypeOK, ChunkInv, [Next]_vars, phase' \in {"download", "verify"}
               PROVE  /\ moved' \/ \A c \in Places(want') \ diff' :
                                      Holds(disk', c[1], c[2], want'[c[1]][c[2]])
                      /\ shrinks' \/ \A f \in File : Len(disk'[f]) <= Len(want'[f])
    BY DEF ChunkInv, Places, Holds
  <1>1. CASE Scan
    <2>1. UNCHANGED <<disk, want>> /\ diff' = DiffManifests
      BY <1>1 DEF Scan
    <2>2. moved' \/ \A c \in Places(want) : want[c[1]][c[2]] \in Existing
                                            => Holds(disk, c[1], c[2], want[c[1]][c[2]])
      BY <1>1 DEF Scan
    <2>3. shrinks' \/ \A f \in File : Len(disk[f]) <= Len(want[f])
      <3>1. shrinks' \/ \A f \in File : ~(Len(disk[f]) > Len(want[f]))
        BY <1>1 DEF Scan
      <3>2. \A f \in File : Len(disk[f]) \in Nat /\ Len(want[f]) \in Nat
        BY DEF TypeOK, Files
      <3>3. QED
        BY <3>1, <3>2
    <2>4. QED
      BY <2>1, <2>2, <2>3 DEF DiffManifests
  <1>2. ASSUME NEW w \in Worker, BeginWrite(w) \/ EndWrite(w)
        PROVE  Kept(disk') /\ UNCHANGED <<moved, shrinks, want, diff>>
    <2>1. Kept(disk)
      BY <1>2 DEF BeginWrite, EndWrite, ChunkInv, Kept
    <2>2. job[w] # NoPlace
      BY <1>2 DEF BeginWrite, EndWrite, TypeOK
    <2>3. PICK f \in File, i \in Nat \ {0} :
             i \in 1..Len(want[f]) /\ job[w] = <<f, i>> /\ want[f][i] \in Content
      BY <2>2, JobPlace
    <2>4. <<f, i>> \in diff
      BY <2>2, <2>3 DEF TypeOK
    <2>5. disk' = Written(f, i, Torn) \/ disk' = Written(f, i, want[f][i])
      BY <1>2, <2>3 DEF BeginWrite, EndWrite
    <2>6. Torn \in OnDisk /\ want[f][i] \in OnDisk
      BY <2>3 DEF OnDisk
    <2>7. Kept(disk')
      BY <2>1, <2>3, <2>4, <2>5, <2>6, WriteKeeps
    <2>8. QED
      BY <1>2, <2>7 DEF BeginWrite, EndWrite, history
  <1>3. CASE \E w \in Worker : WorkerStep(w)
    <2>1. PICK w \in Worker : WorkerStep(w)
      BY <1>3
    <2>2. CASE BeginWrite(w) \/ EndWrite(w)
      BY <1>2, <2>2 DEF Kept
    <2>3. CASE Take(w) \/ DownloadFails(w)
      <3>1. phase = "download" /\ UNCHANGED <<disk, want, diff, moved, shrinks>>
        BY <2>3 DEF Take, DownloadFails, history
      <3>2. QED
        BY <3>1 DEF ChunkInv
    <2>4. QED
      BY <2>1, <2>2, <2>3 DEF WorkerStep
  <1>4. CASE Join
    <2>1. phase = "download" /\ phase' = IF failed THEN "legacy" ELSE "verify"
      BY <1>4 DEF Join
    <2>2. UNCHANGED <<disk, want, diff, moved, shrinks>>
      BY <1>4, <2>1 DEF Join, history
    <2>3. QED
      BY <2>1, <2>2 DEF ChunkInv
  <1>5. CASE Cancel \/ Publish \/ Done \/ UNCHANGED vars
    <2>1. UNCHANGED <<phase, disk, want, diff, moved, shrinks>>
      BY <1>5 DEF Cancel, Publish, Done, vars, workers, history
    <2>2. QED
      BY <2>1 DEF ChunkInv
  <1>6. CASE Start \/ FetchChunkManifest \/ NotChunked \/ VerifyWrittenChunks \/ FetchManifest
             \/ FetchManifestFails \/ Check \/ NextFile \/ Receive \/ RequestFails \/ Promote \/ Crash
    <2>1. phase' \notin {"download", "verify"}
      BY <1>6 DEF Start, FetchChunkManifest, NotChunked, VerifyWrittenChunks, FetchManifest,
                  FetchManifestFails, Check, NextFile, Receive, RequestFails, Promote, Retry, Crash
    <2>2. QED
      BY <2>1
  <1>7. QED
    BY <1>1, <1>3, <1>4, <1>5, <1>6 DEF Next, Step

-----------------------------------------------------------------------------
LEMMA FilesStep == TypeOK /\ FilesInv /\ [Next]_vars => FilesInv'
  <1> SUFFICES ASSUME TypeOK, FilesInv, [Next]_vars, phase' \in {"next", "request", "promote"},
                      NEW f \in File
               PROVE  f \in todo' \/ (f = cur' /\ phase' # "next") \/ disk'[f] = want'[f]
    BY DEF FilesInv
  <1>1. CASE Check
    BY <1>1 DEF Check
  <1>2. CASE NextFile
    <2>1. phase = "next" /\ UNCHANGED <<disk, want>>
      BY <1>2 DEF NextFile
    <2>2. f \in todo \/ disk[f] = want[f]
      BY <2>1 DEF FilesInv
    <2>3. cur' \in todo /\ todo' = todo \ {cur'} /\ phase' = "request"
      BY <1>2 DEF NextFile
    <2>4. QED
      BY <2>1, <2>2, <2>3
  <1>3. CASE Receive \/ RequestFails
    <2>1. phase = "request" /\ UNCHANGED <<disk, want, todo, cur>>
      BY <1>3 DEF Receive, RequestFails
    <2>2. phase' # "next"
      BY <1>3 DEF Receive, RequestFails, Retry
    <2>3. QED
      BY <2>1, <2>2 DEF FilesInv
  <1>4. CASE Promote
    <2>1. phase = "promote" /\ UNCHANGED <<want, todo, cur>>
      BY <1>4 DEF Promote
    <2>2. f \in todo \/ f = cur \/ disk[f] = want[f]
      BY <2>1 DEF FilesInv
    <2>3. CASE tmp[cur] = want[cur]
      BY <1>4, <2>1, <2>2, <2>3 DEF Promote, TypeOK, Files
    <2>4. CASE tmp[cur] # want[cur]
      <3>1. phase' # "next" /\ UNCHANGED disk
        BY <1>4, <2>4 DEF Promote, Retry
      <3>2. QED
        BY <2>1, <2>2, <3>1
    <2>5. QED
      BY <2>3, <2>4
  <1>5. CASE Cancel \/ Publish \/ Done \/ UNCHANGED vars
    <2>1. UNCHANGED <<phase, disk, want, todo, cur>>
      BY <1>5 DEF Cancel, Publish, Done, vars, legacy
    <2>2. QED
      BY <2>1 DEF FilesInv
  <1>6. CASE \E w \in Worker : WorkerStep(w)
    BY <1>6 DEF WorkerStep, Take, BeginWrite, EndWrite, DownloadFails
  <1>7. CASE Start \/ FetchChunkManifest \/ NotChunked \/ Scan \/ Join \/ VerifyWrittenChunks
             \/ FetchManifest \/ FetchManifestFails \/ Crash
    BY <1>7 DEF Start, FetchChunkManifest, NotChunked, Scan, Join, VerifyWrittenChunks,
                FetchManifest, FetchManifestFails, Crash
  <1>8. QED
    BY <1>1, <1>2, <1>3, <1>4, <1>5, <1>6, <1>7 DEF Next, Step

LEMMA OkStep == IInv /\ [Next]_vars => OkMeansPatchedInPlace'
  <1> SUFFICES ASSUME IInv, [Next]_vars, phase' = "ok", ~moved', ~shrinks' PROVE disk' = want'
    BY DEF OkMeansPatchedInPlace
  <1> USE DEF IInv
  <1>1. CASE Scan
    <2>1. UNCHANGED <<disk, want>> /\ DiffManifests = {}
      BY <1>1 DEF Scan
    <2>2. \A c \in Places(want) : Holds(disk, c[1], c[2], want[c[1]][c[2]])
      <3>1. \A c \in Places(want) : want[c[1]][c[2]] \in Existing
                                    => Holds(disk, c[1], c[2], want[c[1]][c[2]])
        BY <1>1 DEF Scan
      <3>2. QED
        BY <2>1, <3>1 DEF DiffManifests
    <2>3. \A f \in File : Len(disk[f]) <= Len(want[f])
      <3>1. \A f \in File : ~(Len(disk[f]) > Len(want[f]))
        BY <1>1 DEF Scan
      <3>2. \A f \in File : Len(disk[f]) \in Nat /\ Len(want[f]) \in Nat
        BY DEF TypeOK, Files
      <3>3. QED
        BY <3>1, <3>2
    <2>4. QED
      BY <2>1, <2>2, <2>3, AllInPlace
  <1>2. CASE VerifyWrittenChunks
    <2>1. phase = "verify" /\ UNCHANGED <<disk, want, moved, shrinks>>
      BY <1>2 DEF VerifyWrittenChunks, history
    <2>2. \A c \in diff : Holds(disk, c[1], c[2], want[c[1]][c[2]])
      BY <1>2 DEF VerifyWrittenChunks
    <2>3. /\ \A c \in Places(want) \ diff : Holds(disk, c[1], c[2], want[c[1]][c[2]])
          /\ \A f \in File : Len(disk[f]) <= Len(want[f])
      BY <2>1 DEF ChunkInv
    <2>4. QED
      BY <2>1, <2>2, <2>3, AllInPlace
  <1>3. CASE NextFile
    <2>1. phase = "next" /\ todo = {} /\ UNCHANGED <<disk, want>>
      BY <1>3 DEF NextFile
    <2>2. \A f \in File : disk[f] = want[f]
      BY <2>1 DEF FilesInv
    <2>3. disk \in [File -> Seq(OnDisk)] /\ want \in [File -> Seq(Content)]
      BY DEF TypeOK, Files, OnDisk
    <2>4. QED
      BY <2>1, <2>2, <2>3
  <1>4. CASE Publish \/ Done \/ UNCHANGED vars
    <2>1. UNCHANGED <<phase, disk, want, moved, shrinks>>
      BY <1>4 DEF Publish, Done, vars, history
    <2>2. QED
      BY <2>1 DEF OkMeansPatchedInPlace
  <1>5. CASE Cancel
    BY <1>5 DEF Cancel, Running
  <1>6. CASE \E w \in Worker : WorkerStep(w)
    BY <1>6 DEF WorkerStep, Take, BeginWrite, EndWrite, DownloadFails
  <1>7. CASE Start \/ FetchChunkManifest \/ NotChunked \/ Join \/ FetchManifest
             \/ FetchManifestFails \/ Check \/ Receive \/ RequestFails \/ Promote \/ Crash
    BY <1>7 DEF Start, FetchChunkManifest, NotChunked, Join, FetchManifest, FetchManifestFails,
                Check, Receive, RequestFails, Promote, Retry, Crash
  <1>8. QED
    BY <1>1, <1>2, <1>3, <1>4, <1>5, <1>6, <1>7 DEF Next, Step

LEMMA AlwaysIInv == Spec => []IInv
  <1>1. IInv /\ [Next]_vars => IInv'
    BY TypeStep, LocalStep, ChunkStep, FilesStep, OkStep DEF IInv
  <1>2. QED
    BY InitIInv, <1>1, PTL DEF Spec

\* Every variable keeps its type: workers, retries and torn files included.
THEOREM PatchTypeOK == Spec => []TypeOK
  <1>1. IInv => TypeOK
    BY DEF IInv
  <1>2. QED
    BY AlwaysIInv, <1>1, PTL

\* A patch run that reports success leaves the client as the manifest says,
\* unless content moved within the client or a file got shorter.
THEOREM OkMeansPatchedInPlaceHolds == Spec => []OkMeansPatchedInPlace
  <1>1. IInv => OkMeansPatchedInPlace
    BY DEF IInv
  <1>2. QED
    BY AlwaysIInv, <1>1, PTL

\* Outside the chunked pipeline a file changes only as a whole and to the
\* wanted content.
THEOREM FilesChangeWholeHolds == Spec => FilesChangeWhole
  <1> DEFINE Whole == \A f \in File : phase # "download" /\ disk'[f] # disk[f] => disk'[f] = want[f]
  <1>1. TypeOK /\ [Next]_vars => [Whole]_vars
    <2> SUFFICES ASSUME TypeOK, [Next]_vars PROVE Whole
      OBVIOUS
    <2>1. CASE Promote
      <3>1. CASE tmp[cur] = want[cur]
        BY <2>1, <3>1 DEF Promote, TypeOK, Files
      <3>2. CASE tmp[cur] # want[cur]
        BY <2>1, <3>2 DEF Promote
      <3>3. QED
        BY <3>1, <3>2
    <2>2. CASE \E w \in Worker : WorkerStep(w)
      BY <2>2 DEF WorkerStep, Take, BeginWrite, EndWrite, DownloadFails
    <2>3. CASE Start \/ FetchChunkManifest \/ NotChunked \/ Scan \/ Join \/ VerifyWrittenChunks
               \/ FetchManifest \/ FetchManifestFails \/ Check \/ NextFile \/ Receive \/ RequestFails
               \/ Cancel \/ Crash \/ Publish \/ Done \/ UNCHANGED vars
      BY <2>3 DEF Start, FetchChunkManifest, NotChunked, Scan, Join, VerifyWrittenChunks,
                  FetchManifest, FetchManifestFails, Check, NextFile, Receive, RequestFails,
                  Cancel, Crash, Publish, Done, vars
    <2>4. QED
      BY <2>1, <2>2, <2>3 DEF Next, Step
  <1>2. QED
    BY PatchTypeOK, <1>1, PTL DEF Spec, FilesChangeWhole

-----------------------------------------------------------------------------
(* Runs in which every download works.                                     *)

\* No .tmp file is as long as its file, but for the one just received.
TmpShort ==
    \A f \in File :
        \/ tmp[f] = <<>>
        \/ Len(tmp[f]) < Len(Versions[published][f])
        \/ phase = "promote" /\ f = cur

\* A clean run is at its first attempt at a file, or at the second because what
\* an older run had left in the .tmp file was wrong; it is gone then.
CleanInv ==
    ~clean \/ stuck \/
        /\ Running => ~cancelled /\ TmpShort
        /\ phase \in {"check", "next", "request", "promote"} => want = Versions[published]
        /\ phase = "request" => tries = 0 \/ (tries = 1 /\ tmp[cur] = <<>>)
        /\ phase = "promote" => tries = 0 \/ tmp[cur] = want[cur]
        /\ phase # "error"

LEMMA InitCleanInv == Init => CleanInv
  BY DEF Init, CleanInv, Running

LEMMA CleanStep == TypeOK /\ CleanInv /\ [Next]_vars => CleanInv'
  <1> SUFFICES ASSUME TypeOK, CleanInv, [Next]_vars, clean', ~stuck'
               PROVE  CleanInv'
    BY DEF CleanInv
  <1>1. CASE Start
    <2>1. phase' = "fetch" /\ ~cancelled' /\ UNCHANGED <<tmp, published>>
      BY <1>1 DEF Start
    <2>2. \A f \in File : tmp[f] = <<>> \/ ~(Len(tmp[f]) >= Len(Versions[published][f]))
      BY <1>1 DEF Start
    <2>3. \A f \in File : Len(tmp[f]) \in Nat /\ Len(Versions[published][f]) \in Nat
      BY Versioned DEF TypeOK
    <2>4. TmpShort'
      BY <2>1, <2>2, <2>3 DEF TmpShort
    <2>5. QED
      BY <2>1, <2>4 DEF CleanInv
  <1>2. CASE \/ FetchChunkManifest \/ NotChunked \/ Scan \/ Join \/ VerifyWrittenChunks
             \/ \E w \in Worker : WorkerStep(w)
    <2>1. /\ phase \in {"fetch", "scan", "download", "verify"}
          /\ phase' \in {"scan", "download", "verify", "legacy", "ok"}
          /\ clean' = clean /\ stuck' = stuck
          /\ UNCHANGED <<tmp, published, cancelled>>
      <3>1. CASE FetchChunkManifest \/ NotChunked
        BY <3>1 DEF FetchChunkManifest, NotChunked, history
      <3>2. CASE Scan
        BY <3>2 DEF Scan
      <3>3. CASE Join \/ VerifyWrittenChunks
        <4>1. phase' \in {"legacy", "verify", "ok"}
          BY <3>3 DEF Join, VerifyWrittenChunks
        <4>2. QED
          BY <3>3, <4>1 DEF Join, VerifyWrittenChunks, history
      <3>4. ASSUME NEW w \in Worker, WorkerStep(w)
            PROVE  /\ phase = "download" /\ phase' = "download"
                   /\ clean' = clean /\ stuck' = stuck
                   /\ UNCHANGED <<tmp, published, cancelled>>
        <4>1. CASE Take(w)
          BY <4>1 DEF Take, history
        <4>2. CASE BeginWrite(w)
          BY <4>2 DEF BeginWrite, history
        <4>3. CASE EndWrite(w)
          BY <4>3 DEF EndWrite, history
        <4>4. CASE DownloadFails(w)
          BY <4>4 DEF DownloadFails
        <4>5. QED
          BY <3>4, <4>1, <4>2, <4>3, <4>4 DEF WorkerStep
      <3>5. QED
        BY <1>2, <3>1, <3>2, <3>3, <3>4
    <2>2. clean /\ ~stuck
      BY <2>1, Zenon
    <2>3. ~cancelled /\ TmpShort
      BY <2>1, <2>2 DEF CleanInv, Running
    <2>4. TmpShort'
      BY <2>1, <2>3 DEF TmpShort
    <2>5. QED
      BY <2>1, <2>3, <2>4 DEF CleanInv
  <1>3. CASE FetchManifest \/ Check
    <2>0. clean' = clean /\ stuck' = stuck
      BY <1>3 DEF FetchManifest, Check, history
    <2>1. clean /\ ~stuck
      BY <2>0, Zenon
    <2>2. ~cancelled /\ TmpShort /\ (phase = "check" => want = Versions[published])
      BY <1>3, <2>1 DEF FetchManifest, Check, CleanInv, Running
    <2>3. phase' \in {"check", "next"} /\ UNCHANGED <<tmp, published, cancelled>>
      BY <1>3, <2>2 DEF FetchManifest, Check
    <2>4. want' = Versions[published] /\ phase # "promote"
      BY <1>3, <2>2 DEF FetchManifest, Check
    <2>5. TmpShort'
      BY <2>2, <2>3, <2>4 DEF TmpShort
    <2>6. QED
      BY <2>2, <2>3, <2>4, <2>5 DEF CleanInv
  <1>4. CASE NextFile
    <2>1. phase = "next" /\ UNCHANGED <<tmp, published, want, cancelled, clean, stuck>>
      BY <1>4 DEF NextFile, history
    <2>2. ~cancelled /\ TmpShort /\ want = Versions[published]
      BY <2>1 DEF CleanInv, Running
    <2>3. phase' = "ok" \/ (phase' = "request" /\ tries' = 0)
      BY <1>4, <2>2 DEF NextFile
    <2>4. TmpShort'
      BY <2>1, <2>2 DEF TmpShort
    <2>5. QED
      BY <2>1, <2>2, <2>3, <2>4 DEF CleanInv
  <1>5. CASE Receive
    <2> DEFINE file == Versions[published][cur]
    <2>1. phase = "request" /\ UNCHANGED <<published, want, cur, cancelled, stuck>>
      BY <1>5 DEF Receive
    <2>2. PICK offset \in {0, Len(tmp[cur])} : \E n \in offset..Len(file) :
             /\ tmp' = [tmp EXCEPT ![cur] = SubSeq(@, 1, offset) \o SubSeq(file, offset + 1, n)]
             /\ IF n = Len(file)
                THEN phase' = "promote" /\ UNCHANGED <<tries, clean>>
                ELSE Retry /\ clean' = FALSE
      BY <1>5, Zenon DEF Receive
    <2>3. /\ tmp' = [tmp EXCEPT ![cur] = SubSeq(tmp[cur], 1, offset)
                                         \o SubSeq(file, offset + 1, Len(file))]
          /\ phase' = "promote" /\ UNCHANGED <<tries, clean>>
      BY <2>2
    <2>4. ~cancelled /\ TmpShort /\ want = Versions[published]
          /\ (tries = 0 \/ (tries = 1 /\ tmp[cur] = <<>>))
      BY <2>1, <2>3 DEF CleanInv, Running
    <2>5. TmpShort'
      <3>1. \A f \in File \ {cur} : tmp'[f] = tmp[f]
        BY <2>3 DEF TypeOK
      <3>2. \A f \in File \ {cur} : tmp[f] = <<>> \/ Len(tmp[f]) < Len(Versions[published][f])
        BY <2>1, <2>4 DEF TmpShort
      <3>3. QED
        BY <2>1, <2>3, <3>1, <3>2 DEF TmpShort
    <2>6. ASSUME tmp[cur] = <<>> PROVE tmp'[cur] = file
      <3>1. file \in Seq(Content) /\ Len(file) \in Nat
        BY Versioned DEF TypeOK
      <3>2. offset = 0
        BY <2>6
      <3> HIDE DEF file
      <3>3. SubSeq(tmp[cur], 1, offset) = <<>>
        BY <2>6, <3>2
      <3>4. SubSeq(file, offset + 1, Len(file)) = file
        BY <3>1, <3>2
      <3>5. <<>> \o file = file
        BY <3>1
      <3>6. tmp'[cur] = SubSeq(tmp[cur], 1, offset) \o SubSeq(file, offset + 1, Len(file))
        BY <2>3 DEF TypeOK
      <3>7. QED
        BY <3>3, <3>4, <3>5, <3>6
    <2>7. tries' = 0 \/ tmp'[cur'] = want'[cur']
      BY <2>1, <2>3, <2>4, <2>6
    <2>8. QED
      BY <2>1, <2>3, <2>4, <2>5, <2>7 DEF CleanInv
  <1>6. CASE RequestFails
    <2>1. phase = "request" /\ clean /\ ~stuck /\ tmp[cur] # <<>>
          /\ Len(tmp[cur]) >= Len(Versions[published][cur])
      BY <1>6 DEF RequestFails
    <2>2. TmpShort
      BY <2>1 DEF CleanInv, Running
    <2>3. Len(tmp[cur]) \in Nat /\ Len(Versions[published][cur]) \in Nat /\ cur \in File
      BY Versioned DEF TypeOK
    <2>4. QED
      BY <2>1, <2>2, <2>3 DEF TmpShort
  <1>7. CASE Promote
    <2>1. phase = "promote" /\ UNCHANGED <<published, want, cur, cancelled, clean, stuck>>
      BY <1>7 DEF Promote, history
    <2>2. ~cancelled /\ TmpShort /\ want = Versions[published]
          /\ (tries = 0 \/ tmp[cur] = want[cur])
      BY <2>1 DEF CleanInv, Running
    <2>3. tmp'[cur] = <<>> /\ \A f \in File \ {cur} : tmp'[f] = tmp[f]
      BY <1>7 DEF Promote, TypeOK
    <2>4. TmpShort'
      BY <2>1, <2>2, <2>3 DEF TmpShort
    <2>5. phase' = "next" \/ (phase' = "request" /\ tries' = 1)
      <3>1. CASE tmp[cur] = want[cur]
        BY <1>7, <3>1 DEF Promote
      <3>2. CASE tmp[cur] # want[cur]
        <4>1. tries = 0 /\ 0 < MaxRetry
          BY <2>2, <3>2, PatchAssumption
        <4>2. Retry
          BY <1>7, <3>2 DEF Promote
        <4>3. QED
          BY <2>2, <4>1, <4>2 DEF Retry
      <3>3. QED
        BY <3>1, <3>2
    <2>6. QED
      BY <2>1, <2>2, <2>3, <2>4, <2>5 DEF CleanInv
  <1>8. CASE Crash
    BY <1>8 DEF Crash, CleanInv, Running
  <1>9. CASE FetchManifestFails \/ Cancel \/ Publish
    BY <1>9 DEF FetchManifestFails, Cancel, Publish
  <1>10. CASE Done \/ UNCHANGED vars
    BY <1>10 DEF Done, vars, legacy, history, CleanInv, TmpShort, Running
  <1>11. QED
    BY <1>1, <1>2, <1>3, <1>4, <1>5, <1>6, <1>7, <1>8, <1>9, <1>10 DEF Next, Step

\* A run in which every download works does not fail, whatever earlier runs left
\* behind, unless that is a .tmp file as long as its file.
THEOREM CleanRunSucceedsHolds == Spec => []CleanRunSucceeds
  <1>1. Init => TypeOK /\ CleanInv
    BY InitIInv, InitCleanInv DEF IInv
  <1>2. TypeOK /\ CleanInv /\ [Next]_vars /\ TypeOK' => (TypeOK /\ CleanInv)'
    BY CleanStep
  <1>3. CleanInv => CleanRunSucceeds
    BY DEF CleanInv, CleanRunSucceeds
  <1>4. QED
    BY PatchTypeOK, <1>1, <1>2, <1>3, PTL DEF Spec
=============================================================================
