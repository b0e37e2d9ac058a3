-------------------------------- MODULE Patch --------------------------------
(***************************************************************************)
(* The launcher's patcher: the chunked pipeline with its workers           *)
(* (shiguang-launcher/internal/patching/chunk_patcher.go), the file by     *)
(* file pipeline with resume that it falls back to (patcher.go), and the   *)
(* manifests both work from (shared/chunker).  A run may be cancelled, and *)
(* the launcher may die in it; the files stay.                             *)
(*                                                                         *)
(* A file is the sequence of its chunks, an absent one is empty.  A hash   *)
(* is the content it is of.  Downloads break at the end of a chunk.        *)
(***************************************************************************)
EXTENDS Integers, Sequences, FiniteSets

CONSTANTS
    File,        \* the files of the client
    Content,     \* the contents of chunks
    Torn, Hole,  \* a chunk that is half written, a gap before a chunk
    Versions,    \* what the patch server publishes, one after the other
    FirstDisks,  \* what a client may have on disk at first
    Worker,      \* the workers of a chunked run
    MaxRetry,    \* how often a failed download is tried again
    MaxRuns      \* bound: patch runs

ASSUME PatchAssumption ==
    /\ Torn \notin Content /\ Hole \notin Content
    /\ Versions \in Seq([File -> Seq(Content)]) /\ Versions # <<>>
    /\ \A v \in 1..Len(Versions) : \A f \in File : Versions[v][f] # <<>>
    /\ FirstDisks \subseteq [File -> Seq(Content)]
    /\ MaxRetry \in Nat \ {0}
    /\ MaxRuns \in Nat

Files == [File -> Seq(Content \cup {Torn, Hole})]

\* A chunk of a manifest is a place in a file; the manifest says its content.
Places(files) == UNION {{<<f, i>> : i \in 1..Len(files[f])} : f \in File}

Holds(files, f, i, x) == i <= Len(files[f]) /\ files[f][i] = x

NoPlace == <<>>

VARIABLES
    disk,       \* the client's files
    tmp,        \* their .tmp files
    published,  \* the version the server publishes
    phase,      \* where Run is; "idle", "ok" and "error" when it is not running
    want,       \* the manifest of the current pipeline
    diff,       \* the chunks to download
    work,       \* those no worker has taken
    job,        \* the chunk a worker is at
    attempt,    \* the failures of its downloads
    writing,    \* the workers between opening the file and the end of Write
    ended,      \* the workers that gave up
    failed,     \* firstErr is set
    todo, cur,  \* the files to download, the current one
    tries,      \* the failures of its downloads
    cancelled,  \* the context is cancelled
    runs,
    \* what the properties remember of the run
    clean,      \* no download failed, nothing was cancelled or published
    moved,      \* a wanted chunk was on disk, but not in its place
    shrinks,    \* a file was longer than wanted
    stuck       \* a .tmp file was as long as its file

workers == <<diff, work, job, attempt, writing, ended, failed>>
legacy  == <<todo, cur, tries>>
history == <<clean, moved, shrinks, stuck>>
vars == <<disk, tmp, published, phase, want, workers, legacy, cancelled, runs, history>>

Init ==
    /\ disk \in FirstDisks
    /\ tmp = [f \in File |-> <<>>]
    /\ published = 1
    /\ phase = "idle"
    /\ want = Versions[1]
    /\ diff = {} /\ work = {}
    /\ job = [w \in Worker |-> NoPlace]
    /\ attempt = [w \in Worker |-> 0]
    /\ writing = {} /\ ended = {}
    /\ failed = FALSE
    /\ todo = {} /\ cur \in File /\ tries = 0
    /\ cancelled = FALSE
    /\ runs = 0
    /\ clean = TRUE /\ moved = FALSE /\ shrinks = FALSE /\ stuck = FALSE

Running == phase \notin {"idle", "ok", "error"}

-----------------------------------------------------------------------------
(* The chunked pipeline.                                                   *)

Start ==
    /\ ~Running /\ runs < MaxRuns
    /\ runs' = runs + 1
    /\ phase' = "fetch"
    /\ cancelled' = FALSE
    /\ clean' = TRUE /\ moved' = FALSE /\ shrinks' = FALSE
    /\ stuck' = \E f \in File :
          tmp[f] # <<>> /\ Len(tmp[f]) >= Len(Versions[published][f])
    /\ UNCHANGED <<disk, tmp, published, want, workers, legacy>>

FetchChunkManifest ==
    /\ phase = "fetch" /\ ~cancelled
    /\ want' = Versions[published]
    /\ phase' = "scan"
    /\ UNCHANGED <<disk, tmp, published, workers, legacy, cancelled, runs, history>>

\* There is no chunk manifest, it cannot be had, its signature is wrong, or the
\* local files cannot be read: Run falls back to the files' manifest.
NotChunked ==
    /\ phase \in {"fetch", "scan"}
    /\ phase' = "legacy"
    /\ UNCHANGED <<disk, tmp, published, want, workers, legacy, cancelled, runs, history>>

\* BuildManifest walks over all files, the .tmp ones too.
Existing ==
    UNION {{disk[f][i] : i \in 1..Len(disk[f])} \cup {tmp[f][i] : i \in 1..Len(tmp[f])}
           : f \in File}

\* Bug: the last chunk of a file is not compared.
DiffManifestsSkipsLast ==
    {c \in Places(want) : want[c[1]][c[2]] \notin Existing /\ c[2] < Len(want[c[1]])}

\* The chunks whose hash no local chunk has, wherever that is.
DiffManifests == {c \in Places(want) : want[c[1]][c[2]] \notin Existing}

Scan ==
    /\ phase = "scan"
    /\ diff' = DiffManifests
    /\ work' = DiffManifests
    /\ phase' = IF DiffManifests = {} THEN "ok" ELSE "download"
    /\ failed' = FALSE
    /\ moved' = \E c \in Places(want) :
          want[c[1]][c[2]] \in Existing /\ ~Holds(disk, c[1], c[2], want[c[1]][c[2]])
    /\ shrinks' = \E f \in File : Len(disk[f]) > Len(want[f])
    /\ UNCHANGED <<disk, tmp, published, want, job, attempt, writing, ended, legacy, cancelled, runs, clean,
                   stuck>>

Idle(w) == job[w] = NoPlace /\ w \notin ended

\* A worker takes the next chunk; when the context is cancelled it returns.
Take(w) ==
    /\ phase = "download" /\ Idle(w)
    /\ \E c \in work :
          /\ work' = work \ {c}
          /\ job' = [job EXCEPT ![w] = IF cancelled THEN NoPlace ELSE c]
    /\ attempt' = [attempt EXCEPT ![w] = 0]
    /\ ended' = IF cancelled THEN ended \cup {w} ELSE ended
    /\ failed' = (failed \/ cancelled)
    /\ UNCHANGED <<disk, tmp, published, phase, want, diff, writing, legacy, cancelled, runs,
                   history>>

\* disk with the chunk at place i of f replaced; writing past the end leaves a gap.
Written(f, i, x) ==
    [disk EXCEPT ![f] = [j \in 1..(IF Len(@) < i THEN i ELSE Len(@)) |->
        IF j = i THEN x ELSE IF j <= Len(@) THEN @[j] ELSE Hole]]

\* The chunk has come and its hash is right; with the lock of its file held
\* the worker writes it ...
BeginWrite(w) ==
    /\ phase = "download" /\ job[w] # NoPlace /\ w \notin writing /\ ~cancelled
    /\ \A v \in writing : job[v][1] # job[w][1]
    /\ disk' = Written(job[w][1], job[w][2], Torn)
    /\ writing' = writing \cup {w}
    /\ UNCHANGED <<tmp, published, phase, want, diff, work, job, attempt, ended, failed, legacy,
                   cancelled, runs, history>>

\* ... to the end.
EndWrite(w) ==
    /\ phase = "download" /\ w \in writing
    /\ disk' = Written(job[w][1], job[w][2], want[job[w][1]][job[w][2]])
    /\ writing' = writing \ {w}
    /\ job' = [job EXCEPT ![w] = NoPlace]
    /\ UNCHANGED <<tmp, published, phase, want, diff, work, attempt, ended, failed, legacy,
                   cancelled, runs, history>>

\* Bug: a failure does not count.
DownloadFailsUncounted(w) ==
    /\ phase = "download" /\ job[w] # NoPlace
    /\ writing' = writing \ {w}
    /\ clean' = FALSE
    /\ UNCHANGED <<disk, tmp, published, phase, want, diff, work, attempt, job, ended, failed,
                   legacy, cancelled, runs, moved, shrinks, stuck>>

\* The download or the write fails; the worker tries again or gives up.
DownloadFails(w) ==
    /\ phase = "download" /\ job[w] # NoPlace
    /\ writing' = writing \ {w}
    /\ clean' = FALSE
    /\ IF attempt[w] < MaxRetry
       THEN /\ attempt' = [attempt EXCEPT ![w] = @ + 1]
            /\ UNCHANGED <<job, ended, failed>>
       ELSE /\ job' = [job EXCEPT ![w] = NoPlace]
            /\ ended' = ended \cup {w}
            /\ failed' = TRUE
            /\ UNCHANGED attempt
    /\ UNCHANGED <<disk, tmp, published, phase, want, diff, work, legacy, cancelled, runs, moved,
                   shrinks, stuck>>

\* All workers have returned; an error makes Run fall back.
Join ==
    /\ phase = "download"
    /\ \A w \in Worker : w \in ended \/ (job[w] = NoPlace /\ work = {})
    /\ phase' = IF failed THEN "legacy" ELSE "verify"
    /\ attempt' = [w \in Worker |-> 0]
    /\ work' = {} /\ ended' = {}
    /\ diff' = IF failed THEN {} ELSE diff
    /\ UNCHANGED <<disk, tmp, published, want, job, writing, failed, legacy, cancelled, runs,
                   history>>

VerifyWrittenChunks ==
    /\ phase = "verify"
    /\ phase' = IF \A c \in diff : Holds(disk, c[1], c[2], want[c[1]][c[2]])
                THEN "ok" ELSE "legacy"
    /\ diff' = {}
    /\ UNCHANGED <<disk, tmp, published, want, work, job, attempt, writing, ended, failed, legacy,
                   cancelled, runs, history>>

-----------------------------------------------------------------------------
(* The pipeline of whole files.                                            *)

FetchManifest ==
    /\ phase = "legacy" /\ ~cancelled
    /\ want' = Versions[published]
    /\ phase' = "check"
    /\ moved' = FALSE /\ shrinks' = FALSE
    /\ UNCHANGED <<disk, tmp, published, workers, legacy, cancelled, runs, clean, stuck>>

FetchManifestFails ==
    /\ phase = "legacy"
    /\ phase' = "error"
    /\ clean' = FALSE
    /\ UNCHANGED <<disk, tmp, published, want, workers, legacy, cancelled, runs, moved, shrinks,
                   stuck>>

\* verifyFile of every file.
Check ==
    /\ phase = "check"
    /\ todo' = {f \in File : disk[f] # want[f]}
    /\ phase' = IF cancelled THEN "error" ELSE "next"
    /\ UNCHANGED <<disk, tmp, published, want, workers, cur, tries, cancelled, runs, history>>

NextFile ==
    /\ phase = "next"
    /\ IF todo = {} \/ cancelled
       THEN /\ phase' = IF todo = {} THEN "ok" ELSE "error"
            /\ UNCHANGED legacy
       ELSE /\ cur' \in todo
            /\ todo' = todo \ {cur'}
            /\ tries' = 0
            /\ phase' = "request"
    /\ UNCHANGED <<disk, tmp, published, want, workers, cancelled, runs, history>>

\* What follows a failed attempt: the next one, or the end of Run.
Retry ==
    IF tries < MaxRetry /\ ~cancelled
    THEN tries' = tries + 1 /\ phase' = "request"
    ELSE tries' = tries /\ phase' = "error"

\* The server answers: with the rest of the file when a part is in .tmp, or
\* with the whole file.  The transfer may break anywhere.
Receive ==
    /\ phase = "request"
    /\ \E offset \in {0, Len(tmp[cur])} :
          LET file == Versions[published][cur] IN
          /\ offset < Len(file)
          /\ \E n \in offset..Len(file) :
                /\ tmp' = [tmp EXCEPT ![cur] = SubSeq(@, 1, offset) \o SubSeq(file, offset + 1, n)]
                /\ IF n = Len(file)
                   THEN phase' = "promote" /\ UNCHANGED <<tries, clean>>
                   ELSE Retry /\ clean' = FALSE
    /\ UNCHANGED <<disk, published, want, workers, todo, cur, cancelled, runs, moved, shrinks,
                   stuck>>

\* The request fails: no answer, an error, or (416) nothing follows the part
\* in .tmp, which is then the fault of nobody but the patcher.
RequestFails ==
    /\ phase = "request"
    /\ Retry
    /\ clean' = (clean /\ tmp[cur] # <<>> /\ Len(tmp[cur]) >= Len(Versions[published][cur]))
    /\ UNCHANGED <<disk, tmp, published, want, workers, todo, cur, cancelled, runs, moved, shrinks,
                   stuck>>

\* Bug: a .tmp file that is not the wanted one stays.
PromoteKeepsBad ==
    /\ phase = "promote"
    /\ IF tmp[cur] = want[cur]
       THEN /\ disk' = [disk EXCEPT ![cur] = tmp[cur]]
            /\ tmp' = [tmp EXCEPT ![cur] = <<>>]
            /\ phase' = "next" /\ UNCHANGED tries
       ELSE Retry /\ UNCHANGED <<disk, tmp>>
    /\ UNCHANGED <<published, want, workers, todo, cur, cancelled, runs, history>>

\* Bug: the .tmp file is renamed without looking at its checksum.
PromoteUnverified ==
    /\ phase = "promote"
    /\ disk' = [disk EXCEPT ![cur] = tmp[cur]]
    /\ tmp' = [tmp EXCEPT ![cur] = <<>>]
    /\ phase' = "next"
    /\ UNCHANGED <<published, want, workers, legacy, cancelled, runs, history>>

\* The .tmp file replaces the file if it is the wanted one, else it is removed.
Promote ==
    /\ phase = "promote"
    /\ tmp' = [tmp EXCEPT ![cur] = <<>>]
    /\ IF tmp[cur] = want[cur]
       THEN /\ disk' = [disk EXCEPT ![cur] = tmp[cur]]
            /\ phase' = "next" /\ UNCHANGED tries
       ELSE Retry /\ UNCHANGED disk
    /\ UNCHANGED <<published, want, workers, todo, cur, cancelled, runs, history>>

-----------------------------------------------------------------------------
(* From outside.                                                           *)

\* CancelPatch, or a newer patch job.
Cancel ==
    /\ Running /\ ~cancelled
    /\ cancelled' = TRUE
    /\ clean' = FALSE
    /\ UNCHANGED <<disk, tmp, published, phase, want, workers, legacy, runs, moved, shrinks, stuck>>

\* The launcher dies: what is half written stays so.
Crash ==
    /\ Running
    /\ phase' = "idle"
    /\ job' = [w \in Worker |-> NoPlace]
    /\ attempt' = [w \in Worker |-> 0]
    /\ diff' = {} /\ work' = {} /\ writing' = {} /\ ended' = {} /\ failed' = FALSE
    /\ UNCHANGED <<disk, tmp, published, want, legacy, cancelled, runs, history>>

\* The operator publishes the next version; the chunks of the old one stay.
Publish ==
    /\ published < Len(Versions)
    /\ published' = published + 1
    /\ clean' = FALSE
    /\ UNCHANGED <<disk, tmp, phase, want, workers, legacy, cancelled, runs, moved, shrinks, stuck>>

-----------------------------------------------------------------------------
\* No run is left to start.
Done ==
    /\ ~Running /\ runs = MaxRuns
    /\ UNCHANGED vars

WorkerStep(w) == Take(w) \/ BeginWrite(w) \/ EndWrite(w) \/ DownloadFails(w)

Step ==
    \/ FetchChunkManifest \/ NotChunked \/ Scan
    \/ \E w \in Worker : WorkerStep(w)
    \/ Join \/ VerifyWrittenChunks
    \/ FetchManifest \/ FetchManifestFails \/ Check \/ NextFile
    \/ Receive \/ RequestFails \/ Promote

Next == Start \/ Step \/ Cancel \/ Crash \/ Publish \/ Done

\* A run goes on: its requests have a time limit.
Spec == Init /\ [][Next]_vars /\ WF_vars(Step)

-----------------------------------------------------------------------------
Phase == {"idle", "fetch", "scan", "download", "verify", "legacy", "check", "next", "request",
          "promote", "ok", "error"}

TypeOK ==
    /\ disk \in Files /\ tmp \in [File -> Seq(Content)]
    /\ published \in 1..Len(Versions)
    /\ phase \in Phase
    /\ want \in [File -> Seq(Content)]
    /\ diff \subseteq Places(want) /\ work \subseteq diff
    /\ job \in [Worker -> diff \cup {NoPlace}]
    /\ attempt \in [Worker -> 0..MaxRetry]
    /\ writing \subseteq {w \in Worker : job[w] # NoPlace} /\ ended \subseteq Worker
    /\ failed \in BOOLEAN /\ cancelled \in BOOLEAN
    /\ todo \subseteq File /\ cur \in File /\ tries \in 0..MaxRetry
    /\ runs \in 0..MaxRuns
    /\ clean \in BOOLEAN /\ moved \in BOOLEAN /\ shrinks \in BOOLEAN /\ stuck \in BOOLEAN

\* "These are the chunks the patcher needs to download" (manifest.go:108): a
\* run that ends with "complete" or "up to date" leaves the client as the
\* manifest says.  False of the code where content has moved or a file shrinks.
OkMeansPatched == phase = "ok" => disk = want

\* The same where the code supports it.  DiffManifests goes by hashes alone: a
\* chunk that is on disk in another place, or in a .tmp file, is not fetched,
\* and a file is never made shorter.  Everything else is right after workers
\* that failed, files torn by crashes and runs that were cancelled.
OkMeansPatchedInPlace == phase = "ok" /\ ~moved /\ ~shrinks => disk = want

\* Outside the chunked pipeline a file changes only as a whole and to the
\* wanted content, whatever is left in .tmp files by earlier runs and versions.
FilesChangeWhole ==
    [][\A f \in File : phase # "download" /\ disk'[f] # disk[f] => disk'[f] = want[f]]_vars

\* A run in which every download works ends well, unless it began with a .tmp
\* file as long as its file (a crash before the rename): the server then
\* answers 416 for ever, and the .tmp file is never removed.
CleanRunSucceeds == phase = "error" => ~clean \/ stuck

\* Every run ends, however many downloads fail.
RunEnds == Running ~> ~Running
=============================================================================
