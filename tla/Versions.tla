------------------------------ MODULE Versions -------------------------------
(***************************************************************************)
(* Uploads of a model and what is kept of them: the IFC file, the mesh     *)
(* cache all loads share (app/kit/engine.load_model), the findings file,   *)
(* the clash rows, and the diff of two versions.  Uploads run side by side *)
(* in the server's threads, with worker jobs that load a version again.  A *)
(* file's hash is its contents; the meshes of a file are named by it too.  *)
(***************************************************************************)
EXTENDS Naturals, FiniteSets

CONSTANTS
  Versions,  \* uploads; each becomes one row
  Contents,  \* what an uploaded file may hold
  Torn,      \* what a file holds while it is being written
  Names,     \* paths under the upload directory
  Content,   \* Content[v]: the bytes uploaded as v
  Name,      \* Name[v]: the path they are stored at
  Findings,  \* Findings[c]: what the full pass finds, as <<a, b, kind>>
  Noise,     \* pairs the triage drops as workflow noise
  Threads,   \* uploads and jobs at work at a time
  MaxJobs    \* bound on loads after the upload

Kinds == {"clash", "clearance", "clear", "unjudged"}

ASSUME VersionsAssumption ==
  /\ Torn \notin Contents
  /\ Content \in [Versions -> Contents] /\ Name \in [Versions -> Names]
  /\ Findings \in [Contents -> SUBSET (Nat \X Nat \X Kinds)]
  /\ Noise \in SUBSET (Nat \X Nat)
  /\ Threads \in Nat \ {0} /\ MaxJobs \in Nat

VARIABLES
  file,     \* the files of the upload directory
  cache,    \* what a read of a hash's cache file may give; empty: no file
  sha,      \* the hash on each version's row; Torn: no row yet
  status,   \* its status
  pc,       \* where the load of each version stands
  phase,    \* what the load is for
  key,      \* the hash it has taken of the file
  parsed,   \* the bytes it has read the elements from
  linked,   \* the cache file it is writing still has its name
  model,    \* the meshes it ended with
  found,    \* the meshes each findings file was written from
  clash,    \* the clash rows of each version, by canonical pair
  overwritten,  \* history: the versions, and in which phase of theirs, whose
                \* path another upload was writing
  mixed,    \* history: the hashes taken of a file that was written to before
            \* the load that took them had read it
  jobs

past == <<overwritten, mixed>>
files == <<file, cache>>
load == <<pc, phase, key, parsed, linked, model>>
rows == <<sha, status, found, clash>>
vars == <<files, load, rows, past, jobs>>

hashes == Contents \cup {Torn}
Payload == [elements : Contents, graph : Contents]
None == [elements |-> Torn, graph |-> Torn]

------------------------------------------------------------------------------
(* Mutant: the pair in the order the run met it.                            *)
pair_key_ordered(a, b) == <<a, b>>

pair_key(a, b) == IF a <= b THEN <<a, b>> ELSE <<b, a>>

Active == {"clash", "clearance"}
of(c) == IF c \in Contents THEN Findings[c] ELSE {}
keysOf(c, kinds) == {pair_key(f[1], f[2]) : f \in {g \in of(c) : g[3] \in kinds}}

(* Mutant: the row's id keeps the order of the finding.                      *)
clash_id_for_met(a, b) == <<a, b>>

clash_id_for(a, b) == IF a <= b THEN <<a, b>> ELSE <<b, a>>
(* triage: what is active and no workflow noise gets a row.                 *)
queue(c) ==
  {clash_id_for(f[1], f[2]) : f \in {g \in of(c) : g[3] \in Active}} \ Noise

(* diff_versions, over the findings files.                                  *)
diff_versions(c1, c2) ==
  LET was == keysOf(c1, Active)
      is == keysOf(c2, Active) IN
  [resolved   |-> was \ is,
   persisting |-> was \cap is,
   regressed  |-> (is \ was) \cap keysOf(c1, {"clear"}),
   new        |-> (is \ was) \ keysOf(c1, {"clear"})]

------------------------------------------------------------------------------
Init ==
  /\ file = [n \in Names |-> Torn]
  /\ cache = [s \in hashes |-> {}]
  /\ sha = [v \in Versions |-> Torn]
  /\ status = [v \in Versions |-> "none"]
  /\ pc = [v \in Versions |-> "idle"]
  /\ phase = [v \in Versions |-> "ingest"]
  /\ key = [v \in Versions |-> Torn]
  /\ parsed = [v \in Versions |-> Torn]
  /\ linked = [v \in Versions |-> FALSE]
  /\ model = [v \in Versions |-> None]
  /\ found = [v \in Versions |-> None]
  /\ clash = [v \in Versions |-> <<>>]
  /\ overwritten = {} /\ mixed = {}
  /\ jobs = 0

go(v, place) == pc' = [pc EXCEPT ![v] = place]

busy == {v \in Versions : pc[v] \notin {"idle", "done", "failed"}}

sharing(v) == {u \in Versions \ {v} : Name[u] = Name[v] /\ pc[u] # "idle"}
copying(v) == {u \in sharing(v) : pc[u] = "receiving"}

(* Whose file upload v writes to, and what has been hashed and not yet read.*)
disturbs(v) ==
  /\ overwritten' = overwritten \cup {<<u, phase[u]>> : u \in sharing(v)}
       \cup (IF copying(v) = {} THEN {} ELSE {<<v, "ingest">>})
  /\ mixed' = mixed \cup
       {key[u] : u \in {w \in sharing(v) : pc[w] \in {"looking", "meshing", "connecting"}}}

(* upload_model: the target is opened for writing, whatever was there.      *)
Receive(v) ==
  /\ pc[v] = "idle" /\ Cardinality(busy) < Threads
  /\ file' = [file EXCEPT ![Name[v]] = Torn]
  /\ disturbs(v)
  /\ go(v, "receiving")
  /\ UNCHANGED <<cache, phase, key, parsed, linked, model, rows, jobs>>

(* Two copies into one file at a time may leave it torn.                    *)
Received(v) ==
  /\ pc[v] = "receiving"
  /\ \E bytes \in {Content[v]} \cup (IF <<v, "ingest">> \in overwritten THEN {Torn} ELSE {}) :
       file' = [file EXCEPT ![Name[v]] = bytes]
  /\ disturbs(v)
  /\ go(v, "received")
  /\ UNCHANGED <<cache, phase, key, parsed, linked, model, rows, jobs>>

(* It is hashed, and its row committed before anything else is tried.       *)
Record(v) ==
  /\ pc[v] = "received"
  /\ sha' = [sha EXCEPT ![v] = file[Name[v]]]
  /\ status' = [status EXCEPT ![v] = "ingesting"]
  /\ go(v, "loading")
  /\ UNCHANGED <<files, phase, key, parsed, linked, model, found, clash,
                 past, jobs>>

------------------------------------------------------------------------------
(* Mutant: every file of the project has one key.                           *)
hashed_alike(v) == Content[CHOOSE u \in Versions : TRUE]

hashed(v) == file[Name[v]]

(* load_model hashes the file, whatever its row says ...                    *)
Hash(v) ==
  /\ pc[v] = "loading"
  /\ key' = [key EXCEPT ![v] = hashed(v)]
  /\ go(v, "looking")
  /\ UNCHANGED <<files, phase, parsed, linked, model, rows, past, jobs>>

restorable(v) == cache[key[v]] \ {None}

(* ... restores the meshes the cache has under it ...                       *)
Hit(v) ==
  /\ pc[v] = "looking"
  /\ \E p \in restorable(v) : model' = [model EXCEPT ![v] = p]
  /\ key' = [key EXCEPT ![v] = Torn]
  /\ go(v, "loaded")
  /\ UNCHANGED <<files, phase, parsed, linked, rows, past, jobs>>

(* ... removes what it cannot read, under the hands of whoever writes it ...*)
Unreadable(v) ==
  /\ pc[v] = "looking" /\ None \in cache[key[v]]
  /\ cache' = [cache EXCEPT ![key[v]] = {}]
  /\ linked' = [u \in Versions |-> linked[u] /\ key[u] # key[v]]
  /\ go(v, "meshing")
  /\ UNCHANGED <<file, phase, key, parsed, model, rows, past, jobs>>

Miss(v) ==
  /\ pc[v] = "looking" /\ cache[key[v]] = {}
  /\ go(v, "meshing")
  /\ UNCHANGED <<files, phase, key, parsed, linked, model, rows, past, jobs>>

(* ... and else reads the file again for the elements, and once more for    *)
(* their connections.                                                       *)
Mesh(v) ==
  /\ pc[v] = "meshing" /\ file[Name[v]] # Torn
  /\ parsed' = [parsed EXCEPT ![v] = file[Name[v]]]
  /\ go(v, "connecting")
  /\ UNCHANGED <<files, phase, key, linked, model, rows, past, jobs>>

Connect(v) ==
  /\ pc[v] = "connecting" /\ file[Name[v]] # Torn
  /\ model' = [model EXCEPT ![v] = [elements |-> parsed[v], graph |-> file[Name[v]]]]
  /\ parsed' = [parsed EXCEPT ![v] = Torn]
  /\ go(v, "caching")
  /\ UNCHANGED <<files, phase, key, linked, rows, past, jobs>>

(* The cache file is truncated, and whole when it has been written.         *)
OpenCache(v) ==
  /\ pc[v] = "caching"
  /\ cache' = [cache EXCEPT ![key[v]] = {None}]
  /\ linked' = [linked EXCEPT ![v] = TRUE]
  /\ go(v, "dumping")
  /\ UNCHANGED <<file, phase, key, parsed, model, rows, past, jobs>>

othersWriting(v) == {u \in Versions \ {v} : linked[u] /\ key[u] = key[v]}

Dump(v) ==
  /\ pc[v] = "dumping"
  /\ cache' = IF ~linked[v] THEN cache
              ELSE [cache EXCEPT ![key[v]] =
                     IF othersWriting(v) = {} THEN {model[v]} ELSE @ \cup {model[v]}]
  /\ linked' = [linked EXCEPT ![v] = FALSE]
  /\ key' = [key EXCEPT ![v] = Torn]
  /\ go(v, "loaded")
  /\ UNCHANGED <<file, phase, parsed, model, rows, past, jobs>>

------------------------------------------------------------------------------
(* The first load is judged, and the findings file written at once; then    *)
(* run_pipeline loads the model a second time.                              *)
Judge(v) ==
  /\ pc[v] = "loaded" /\ phase[v] = "ingest"
  /\ found' = [found EXCEPT ![v] = model[v]]
  /\ phase' = [phase EXCEPT ![v] = "resolve"]
  /\ model' = [model EXCEPT ![v] = None]
  /\ go(v, "loading")
  /\ UNCHANGED <<files, key, parsed, linked, sha, status, clash,
                 past, jobs>>

(* The rows of the run appear with its commit.                              *)
Finish(v) ==
  /\ pc[v] = "loaded" /\ phase[v] = "resolve"
  /\ clash' = [clash EXCEPT ![v] = [k \in queue(found[v].elements) |-> "open"]]
  /\ status' = [status EXCEPT ![v] = "reviewed"]
  /\ phase' = [phase EXCEPT ![v] = "job"]
  /\ model' = [model EXCEPT ![v] = None]
  /\ go(v, "done")
  /\ UNCHANGED <<files, key, parsed, linked, sha, found, past, jobs>>

(* A job of the version, or a reviewer's edit, loads it again.              *)
StartJob(v) ==
  /\ pc[v] = "done" /\ jobs < MaxJobs /\ Cardinality(busy) < Threads
  /\ jobs' = jobs + 1
  /\ go(v, "loading")
  /\ UNCHANGED <<files, phase, key, parsed, linked, model, rows, past>>

EndJob(v) ==
  /\ pc[v] = "loaded" /\ phase[v] = "job"
  /\ model' = [model EXCEPT ![v] = None]
  /\ go(v, "done")
  /\ UNCHANGED <<files, phase, key, parsed, linked, rows, past, jobs>>

forget(v) ==
  /\ key' = [key EXCEPT ![v] = Torn]
  /\ parsed' = [parsed EXCEPT ![v] = Torn]
  /\ model' = [model EXCEPT ![v] = None]

(* Mutant: the cache file is left open.                                     *)
Fail_open(v) ==
  /\ v \in busy
  /\ go(v, IF phase[v] = "job" THEN "done" ELSE "failed")
  /\ forget(v)
  /\ UNCHANGED <<files, phase, linked, rows, past, jobs>>

(* An exception or a lost server: the transaction is gone, files and rows   *)
(* committed before stay, and a cache file being written stays torn.        *)
Fail(v) ==
  /\ v \in busy
  /\ go(v, IF phase[v] = "job" THEN "done" ELSE "failed")
  /\ cache' = IF linked[v] THEN [cache EXCEPT ![key[v]] = {None}] ELSE cache
  /\ linked' = [u \in Versions |-> linked[u] /\ ~(linked[v] /\ key[u] = key[v])]
  /\ forget(v)
  /\ UNCHANGED <<file, phase, rows, past, jobs>>

------------------------------------------------------------------------------
(* diff_against: any two rows, in either order; a version without findings  *)
(* file is read as one without findings.                                    *)
diff_of(v, p) == diff_versions(found[p].elements, found[v].elements)

(* The proposals on record as verified count when their pair is resolved.   *)
scored(v, p) == DOMAIN clash[p] \cap diff_of(v, p).resolved

Diff(v, p) ==
  /\ v # p /\ "none" \notin {status[v], status[p]}
  /\ LET diff == diff_of(v, p) IN
     clash' = [clash EXCEPT ![p] = [k \in DOMAIN @ |->
       IF k \in diff.resolved THEN "resolved"
       ELSE IF k \in diff.regressed THEN "regressed" ELSE @[k]]]
  /\ UNCHANGED <<files, load, sha, status, found, past, jobs>>

LoadStep(v) ==
  \/ Hash(v) \/ Hit(v) \/ Unreadable(v) \/ Miss(v)
  \/ Mesh(v) \/ Connect(v) \/ OpenCache(v) \/ Dump(v)

UploadStep(v) ==
  \/ Receive(v) \/ Received(v) \/ Record(v)
  \/ LoadStep(v)
  \/ Judge(v) \/ Finish(v) \/ EndJob(v)

Next ==
  \/ \E v \in Versions : UploadStep(v) \/ StartJob(v) \/ Fail(v)
  \/ \E v, p \in Versions : Diff(v, p)

Spec == Init /\ [][Next]_vars

------------------------------------------------------------------------------
Phases == {"ingest", "resolve", "job"}
Places == {"idle", "receiving", "received", "loading", "looking", "meshing", "connecting",
           "caching", "dumping", "loaded", "done", "failed"}

TypeOK ==
  /\ file \in [Names -> hashes]
  /\ cache \in [hashes -> SUBSET (Payload \cup {None})]
  /\ sha \in [Versions -> hashes] /\ key \in [Versions -> hashes]
  /\ parsed \in [Versions -> hashes] /\ linked \in [Versions -> BOOLEAN]
  /\ \A v \in Versions : linked[v] => pc[v] = "dumping"
  /\ status \in [Versions -> {"none", "ingesting", "reviewed"}]
  /\ pc \in [Versions -> Places] /\ phase \in [Versions -> Phases]
  /\ model \in [Versions -> Payload \cup {None}]
  /\ found \in [Versions -> Payload \cup {None}]
  /\ \A v \in Versions : \A k \in DOMAIN clash[v] :
       clash[v][k] \in {"open", "resolved", "regressed"}
  /\ overwritten \in SUBSET (Versions \X Phases) /\ mixed \in SUBSET hashes
  /\ jobs \in 0..MaxJobs

meshesOf(s) == [elements |-> s, graph |-> s]

(* Uploads of the same bytes share a cache file, fill it side by side,      *)
(* remove it under each other and die over it: what can be read there is    *)
(* still the meshes and the connections of the bytes it is named for, as    *)
(* long as no load that had those bytes hashed had its file written to.     *)
CacheHoldsWhatItNames ==
  \A s \in hashes \ mixed : cache[s] \subseteq {None, meshesOf(s)}

(* What a version is judged by, at its ingest and at every later load, is   *)
(* the file that was uploaded for it and whose hash its row carries: unless *)
(* another upload was writing to its path up to then, or else to that of a  *)
(* load of the same bytes, while that load read them.  An upload that comes *)
(* to the path later takes nothing back of what was judged.                 *)
intact(v) == <<v, "ingest">> \notin overwritten
untouched(v) == \A p \in Phases : <<v, p>> \notin overwritten
JudgedAsUploaded ==
  \A v \in Versions :
    /\ intact(v) /\ Content[v] \notin mixed => found[v] \in {None, meshesOf(Content[v])}
    /\ untouched(v) /\ Content[v] \notin mixed => model[v] \in {None, meshesOf(Content[v])}
    /\ intact(v) /\ status[v] # "none" => sha[v] = Content[v]

(* engine.py 66: "two uploads of the same bytes are the same model whatever *)
(* they were called".  So a version whose path nobody else writes to is     *)
(* judged by its own bytes.                                                 *)
SameBytesAreSameModel ==
  \A v \in Versions : untouched(v) => found[v] \in {None, meshesOf(Content[v])}

pairsOf(c, kinds) == {{f[1], f[2]} : f \in {g \in of(c) : g[3] \in kinds}}
unordered(keys) == {{k[1], k[2]} : k \in keys}

(* Two versions that have findings, and findings of what was uploaded.      *)
comparable(v, p) ==
  v # p /\ \A u \in {v, p} : found[u] # None /\ intact(u) /\ Content[u] \notin mixed

(* Of two such versions a diff reports what differs between the uploads,    *)
(* each pair once, whichever way round a run has met it: equal bytes differ *)
(* in nothing.                                                              *)
DiffIsOfTheUploads ==
  \A v, p \in Versions : comparable(v, p) =>
    LET diff == diff_of(v, p)
        was == pairsOf(Content[p], Active)
        is == pairsOf(Content[v], Active) IN
    /\ unordered(diff.resolved) = was \ is
    /\ unordered(diff.persisting) = was \cap is
    /\ unordered(diff.new \cup diff.regressed) = is \ was
    /\ unordered(diff.new) \cap unordered(diff.regressed) = {}

(* A diff scores a verified proposal exactly when the pair of its clash has *)
(* gone from the upload: the rows, named by the triage when the version was *)
(* judged, and the diff name the pair alike.                                *)
ScoredIsResolved ==
  \A v, p \in Versions : comparable(v, p) =>
    LET score == scored(v, p)
        is == pairsOf(Content[v], Active) IN
    \A k \in DOMAIN clash[p] : k \in score <=> {k[1], k[2]} \notin is
==============================================================================
