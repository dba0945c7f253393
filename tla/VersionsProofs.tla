--------------------------- MODULE VersionsProofs ----------------------------
(***************************************************************************)
(* What is kept of an upload is that upload, for any number of uploads of  *)
(* any files under any names, as far as nobody wrote to a file that was    *)
(* still to be read; and what an upload to a shared name can spoil.        *)
(***************************************************************************)
EXTENDS Versions, TLAPS

reading == {"looking", "meshing", "connecting"}
looked == reading \cup {"caching", "dumping"}
recorded == looked \cup {"loading", "loaded", "done"}

Shapes ==
  /\ cache \in [hashes -> SUBSET (Payload \cup {None})]
  /\ key \in [Versions -> hashes]
  /\ parsed \in [Versions -> hashes]
  /\ model \in [Versions -> Payload \cup {None}]
  /\ found \in [Versions -> Payload \cup {None}]
  /\ file \in [Names -> hashes]
  /\ \A v \in Versions : pc[v] = "connecting" => parsed[v] \in Contents
  /\ DOMAIN sha = Versions /\ DOMAIN status = Versions
  /\ DOMAIN pc = Versions /\ phase \in [Versions -> Phases]

(* A load under way holds what it has hashed, unless the hash is mixed.     *)
Loads(v) ==
  key[v] \notin mixed =>
    /\ pc[v] \in reading => file[Name[v]] = key[v]
    /\ pc[v] = "connecting" => parsed[v] = key[v]
    /\ pc[v] \in {"caching", "dumping"} => model[v] = meshesOf(key[v])

(* A path nobody else has written to since the upload holds the upload, and *)
(* then what has been taken from it is the upload's.                        *)
Holds(v) ==
  /\ pc[v] \in {"idle", "receiving", "received"} => phase[v] = "ingest"
  /\ phase[v] = "job" => pc[v] \in recorded
  /\ phase[v] = "ingest" => \A p \in Phases \ {"ingest"} : <<v, p>> \notin overwritten
  /\ untouched(v) /\ pc[v] \in recorded \cup {"received"} => file[Name[v]] = Content[v]
  /\ untouched(v) /\ pc[v] \in looked => key[v] = Content[v]
  /\ intact(v) /\ pc[v] \in recorded => sha[v] = Content[v]
  /\ intact(v) /\ status[v] # "none" => sha[v] = Content[v]

(* What it is judged by is the upload's as well, unless the cache had other *)
(* meshes under its hash.                                                   *)
Judges(v) ==
  Content[v] \notin mixed =>
    /\ untouched(v) => model[v] \in {None, meshesOf(Content[v])}
    /\ untouched(v) /\ pc[v] = "loaded" => model[v] = meshesOf(Content[v])
    /\ intact(v) => found[v] \in {None, meshesOf(Content[v])}

IInv == Shapes /\ CacheHoldsWhatItNames
        /\ \A v \in Versions : Loads(v) /\ Holds(v) /\ Judges(v)

LEMMA TornIsNoContent ==
  ASSUME NEW v \in Versions
  PROVE  Content[v] \in Contents /\ Content[v] # Torn /\ Content[v] \in hashes
BY VersionsAssumption DEF hashes

LEMMA StartsKept == Init => IInv
<1> SUFFICES ASSUME Init PROVE IInv OBVIOUS
<1>1. Shapes BY DEF Init, Shapes, hashes, Payload, None, Phases
<1>2. CacheHoldsWhatItNames BY DEF Init, CacheHoldsWhatItNames
<1>3. ASSUME NEW v \in Versions PROVE Loads(v) /\ Holds(v) /\ Judges(v)
  BY DEF Init, Loads, Holds, Judges, recorded, looked, reading
<1> QED BY <1>1, <1>2, <1>3 DEF IInv

(* Writing to a file: whatever was to be read of it is in the histories.    *)
LEMMA WritingKeeps ==
  ASSUME IInv, NEW v \in Versions, disturbs(v), NEW bytes \in hashes,
         file' = [file EXCEPT ![Name[v]] = bytes],
         pc[v] \in {"idle", "receiving"},
         pc' = [pc EXCEPT ![v] = IF pc[v] = "idle" THEN "receiving" ELSE "received"],
         pc[v] = "receiving" /\ bytes # Content[v] => ~intact(v),
         UNCHANGED <<cache, phase, key, parsed, linked, model, rows, jobs>>
  PROVE  IInv'
<1>0. /\ overwritten \subseteq overwritten' /\ mixed \subseteq mixed'
      /\ \A u \in sharing(v) : <<u, phase[u]>> \in overwritten'
      /\ \A u \in sharing(v) : pc[u] \in reading => key[u] \in mixed'
      /\ \A u \in Versions, p \in Phases : <<u, p>> \in overwritten' \ overwritten =>
           (u \in sharing(v) /\ p = phase[u]) \/ (u = v /\ p = "ingest")
  BY DEF disturbs, reading, sharing
<1>1. Shapes' BY VersionsAssumption DEF IInv, Shapes, rows
<1>2. CacheHoldsWhatItNames' BY <1>0 DEF IInv, CacheHoldsWhatItNames
<1>3. \A u \in Versions : (intact(u)' => intact(u)) /\ (untouched(u)' => untouched(u))
  BY <1>0 DEF intact, untouched
<1>4. phase[v] = "ingest" BY DEF IInv, Holds
<1>5. ASSUME NEW u \in Versions, u # v PROVE Loads(u)' /\ Holds(u)' /\ Judges(u)'
  <2>1. pc'[u] = pc[u] /\ Loads(u) /\ Holds(u) /\ Judges(u) BY <1>5 DEF IInv, Shapes
  <2>2. pc[u] = "idle" \/ u \in sharing(v) \/ file'[Name[u]] = file[Name[u]]
    BY <1>5, VersionsAssumption DEF sharing, IInv, Shapes
  <2>3. u \in sharing(v) => ~untouched(u)'
    BY <1>0, <1>5 DEF untouched, IInv, Shapes
  <2>4. Loads(u)' BY <1>0, <2>1, <2>2 DEF Loads, reading
  <2>5. Holds(u)'
    BY <1>0, <1>3, <1>5, <2>1, <2>2, <2>3 DEF Holds, recorded, looked, reading, rows
  <2>6. Judges(u)' BY <1>0, <1>3, <2>1 DEF Judges, rows
  <2> QED BY <2>4, <2>5, <2>6
<1>6. Loads(v)' /\ Holds(v)' /\ Judges(v)'
  <2>1. pc'[v] \in {"receiving", "received"} /\ Loads(v) /\ Holds(v) /\ Judges(v) BY DEF IInv, Shapes
  <2>2. v \notin sharing(v) BY DEF sharing
  <2>3. Loads(v)' BY <2>1 DEF Loads, reading
  <2>4. Judges(v)' BY <1>0, <1>3, <2>1 DEF Judges, rows
  <2>5. untouched(v)' => intact(v) BY <1>3 DEF untouched, intact, Phases
  <2>6. pc'[v] = "received" /\ untouched(v)' => file'[Name[v]] = Content[v]
    BY <2>5, VersionsAssumption DEF IInv, Shapes
  <2>7. Holds(v)'
    BY <1>0, <1>3, <1>4, <2>1, <2>2, <2>6 DEF Holds, recorded, looked, reading, rows
  <2> QED BY <2>3, <2>4, <2>7
<1> QED BY <1>1, <1>2, <1>5, <1>6 DEF IInv

LEMMA ReceiveKeeps ==
  ASSUME IInv, NEW v \in Versions, Receive(v) PROVE IInv'
<1>1. Torn \in hashes BY DEF hashes
<1>2. pc' = [pc EXCEPT ![v] = IF pc[v] = "idle" THEN "receiving" ELSE "received"]
  BY DEF Receive, go
<1> QED BY <1>1, <1>2, WritingKeeps DEF Receive

LEMMA ReceivedKeeps ==
  ASSUME IInv, NEW v \in Versions, Received(v) PROVE IInv'
<1>1. PICK bytes \in {Content[v]} \cup (IF <<v, "ingest">> \in overwritten THEN {Torn} ELSE {}) :
        file' = [file EXCEPT ![Name[v]] = bytes]
  BY DEF Received
<1>2. bytes \in hashes /\ (bytes # Content[v] => ~intact(v))
  BY <1>1, TornIsNoContent DEF hashes, intact
<1>3. pc' = [pc EXCEPT ![v] = IF pc[v] = "idle" THEN "receiving" ELSE "received"]
  BY DEF Received, go
<1> QED BY <1>1, <1>2, <1>3, WritingKeeps DEF Received

LEMMA RecordKeeps ==
  ASSUME IInv, NEW v \in Versions, Record(v) PROVE IInv'
<1>0. /\ UNCHANGED past /\ mixed' = mixed
      /\ \A u \in Versions : (intact(u)' <=> intact(u)) /\ (untouched(u)' <=> untouched(u))
      /\ \A u \in Versions : untouched(u) => intact(u)
  BY DEF Record, past, intact, untouched, Phases
<1>6. intact(v) => untouched(v) /\ file[Name[v]] = Content[v]
  BY DEF IInv, Holds, intact, untouched, Record
<1>1. Shapes'
  BY VersionsAssumption, TornIsNoContent DEF IInv, Shapes, Record, go, files, hashes, Payload, None, Phases
<1>2. CacheHoldsWhatItNames'
  BY <1>0 DEF IInv, Shapes, CacheHoldsWhatItNames, Loads, Record, go, files, looked, reading
<1>3. ASSUME NEW u \in Versions PROVE Loads(u)'
  BY <1>0, TornIsNoContent DEF IInv, Shapes, Loads, Record, go, files, looked, reading, meshesOf
<1>4. ASSUME NEW u \in Versions PROVE Holds(u)'
  BY <1>0, <1>6, TornIsNoContent DEF IInv, Shapes, Holds, Record, go, files, recorded, looked, reading, past
<1>5. ASSUME NEW u \in Versions PROVE Judges(u)'
  BY <1>0, TornIsNoContent DEF IInv, Shapes, Judges, Holds, Loads, CacheHoldsWhatItNames, Record, go, files, looked, reading,
     recorded, meshesOf
<1> QED BY <1>1, <1>2, <1>3, <1>4, <1>5 DEF IInv

LEMMA HashKeeps ==
  ASSUME IInv, NEW v \in Versions, Hash(v) PROVE IInv'
<1>0. /\ UNCHANGED past /\ mixed' = mixed
      /\ \A u \in Versions : (intact(u)' <=> intact(u)) /\ (untouched(u)' <=> untouched(u))
      /\ \A u \in Versions : untouched(u) => intact(u)
  BY DEF Hash, past, intact, untouched, Phases
<1>1. Shapes'
  BY VersionsAssumption, TornIsNoContent DEF IInv, Shapes, Hash, go, files, rows, hashed, hashes, Payload, None, Phases
<1>2. CacheHoldsWhatItNames'
  BY <1>0 DEF IInv, Shapes, CacheHoldsWhatItNames, Loads, Hash, go, files, rows, hashed, looked, reading
<1>3. ASSUME NEW u \in Versions PROVE Loads(u)'
  BY <1>0, TornIsNoContent DEF IInv, Shapes, Loads, Hash, go, files, rows, hashed, looked, reading, meshesOf
<1>4. ASSUME NEW u \in Versions PROVE Holds(u)'
  BY <1>0, TornIsNoContent DEF IInv, Shapes, Holds, Hash, go, files, rows, hashed, recorded, looked, reading, past
<1>5. ASSUME NEW u \in Versions PROVE Judges(u)'
  BY <1>0, TornIsNoContent DEF IInv, Shapes, Judges, Holds, Loads, CacheHoldsWhatItNames, Hash, go, files, rows, hashed, looked, reading,
     recorded, meshesOf
<1> QED BY <1>1, <1>2, <1>3, <1>4, <1>5 DEF IInv

LEMMA HitKeeps ==
  ASSUME IInv, NEW v \in Versions, Hit(v) PROVE IInv'
<1>0. /\ UNCHANGED past /\ mixed' = mixed
      /\ \A u \in Versions : (intact(u)' <=> intact(u)) /\ (untouched(u)' <=> untouched(u))
      /\ \A u \in Versions : untouched(u) => intact(u)
  BY DEF Hit, past, intact, untouched, Phases
<1>1. Shapes'
  BY VersionsAssumption, TornIsNoContent DEF IInv, Shapes, Hit, go, files, rows, restorable, hashes, Payload, None, Phases
<1>2. CacheHoldsWhatItNames'
  BY <1>0 DEF IInv, Shapes, CacheHoldsWhatItNames, Loads, Hit, go, files, rows, restorable, looked, reading
<1>3. ASSUME NEW u \in Versions PROVE Loads(u)'
  BY <1>0, TornIsNoContent DEF IInv, Shapes, Loads, Hit, go, files, rows, restorable, looked, reading, meshesOf
<1>4. ASSUME NEW u \in Versions PROVE Holds(u)'
  BY <1>0, TornIsNoContent DEF IInv, Shapes, Holds, Hit, go, files, rows, restorable, recorded, looked, reading, past
<1>5. ASSUME NEW u \in Versions PROVE Judges(u)'
  BY <1>0, TornIsNoContent DEF IInv, Shapes, Judges, Holds, Loads, CacheHoldsWhatItNames, Hit, go, files, rows, restorable, looked, reading,
     recorded, meshesOf
<1> QED BY <1>1, <1>2, <1>3, <1>4, <1>5 DEF IInv

LEMMA UnreadableKeeps ==
  ASSUME IInv, NEW v \in Versions, Unreadable(v) PROVE IInv'
<1>0. /\ UNCHANGED past /\ mixed' = mixed
      /\ \A u \in Versions : (intact(u)' <=> intact(u)) /\ (untouched(u)' <=> untouched(u))
      /\ \A u \in Versions : untouched(u) => intact(u)
  BY DEF Unreadable, past, intact, untouched, Phases
<1>1. Shapes'
  BY VersionsAssumption, TornIsNoContent DEF IInv, Shapes, Unreadable, go, rows, hashes, Payload, None, Phases
<1>2. CacheHoldsWhatItNames'
  BY <1>0 DEF IInv, Shapes, CacheHoldsWhatItNames, Loads, Unreadable, go, rows, looked, reading
<1>3. ASSUME NEW u \in Versions PROVE Loads(u)'
  BY <1>0, TornIsNoContent DEF IInv, Shapes, Loads, Unreadable, go, rows, looked, reading, meshesOf
<1>4. ASSUME NEW u \in Versions PROVE Holds(u)'
  BY <1>0, TornIsNoContent DEF IInv, Shapes, Holds, Unreadable, go, rows, recorded, looked, reading, past
<1>5. ASSUME NEW u \in Versions PROVE Judges(u)'
  BY <1>0, TornIsNoContent DEF IInv, Shapes, Judges, Holds, Loads, CacheHoldsWhatItNames, Unreadable, go, rows, looked, reading,
     recorded, meshesOf
<1> QED BY <1>1, <1>2, <1>3, <1>4, <1>5 DEF IInv

LEMMA MissKeeps ==
  ASSUME IInv, NEW v \in Versions, Miss(v) PROVE IInv'
<1>0. /\ UNCHANGED past /\ mixed' = mixed
      /\ \A u \in Versions : (intact(u)' <=> intact(u)) /\ (untouched(u)' <=> untouched(u))
      /\ \A u \in Versions : untouched(u) => intact(u)
  BY DEF Miss, past, intact, untouched, Phases
<1>1. Shapes'
  BY VersionsAssumption, TornIsNoContent DEF IInv, Shapes, Miss, go, files, rows, hashes, Payload, None, Phases
<1>2. CacheHoldsWhatItNames'
  BY <1>0 DEF IInv, Shapes, CacheHoldsWhatItNames, Loads, Miss, go, files, rows, looked, reading
<1>3. ASSUME NEW u \in Versions PROVE Loads(u)'
  BY <1>0, TornIsNoContent DEF IInv, Shapes, Loads, Miss, go, files, rows, looked, reading, meshesOf
<1>4. ASSUME NEW u \in Versions PROVE Holds(u)'
  BY <1>0, TornIsNoContent DEF IInv, Shapes, Holds, Miss, go, files, rows, recorded, looked, reading, past
<1>5. ASSUME NEW u \in Versions PROVE Judges(u)'
  BY <1>0, TornIsNoContent DEF IInv, Shapes, Judges, Holds, Loads, CacheHoldsWhatItNames, Miss, go, files, rows, looked, reading,
     recorded, meshesOf
<1> QED BY <1>1, <1>2, <1>3, <1>4, <1>5 DEF IInv

LEMMA MeshKeeps ==
  ASSUME IInv, NEW v \in Versions, Mesh(v) PROVE IInv'
<1>0. /\ UNCHANGED past /\ mixed' = mixed
      /\ \A u \in Versions : (intact(u)' <=> intact(u)) /\ (untouched(u)' <=> untouched(u))
      /\ \A u \in Versions : untouched(u) => intact(u)
  BY DEF Mesh, past, intact, untouched, Phases
<1>1. Shapes'
  BY VersionsAssumption, TornIsNoContent DEF IInv, Shapes, Mesh, go, files, rows, hashes, Payload, None, Phases
<1>2. CacheHoldsWhatItNames'
  BY <1>0 DEF IInv, Shapes, CacheHoldsWhatItNames, Loads, Mesh, go, files, rows, looked, reading
<1>3. ASSUME NEW u \in Versions PROVE Loads(u)'
  BY <1>0, TornIsNoContent DEF IInv, Shapes, Loads, Mesh, go, files, rows, looked, reading, meshesOf
<1>4. ASSUME NEW u \in Versions PROVE Holds(u)'
  BY <1>0, TornIsNoContent DEF IInv, Shapes, Holds, Mesh, go, files, rows, recorded, looked, reading, past
<1>5. ASSUME NEW u \in Versions PROVE Judges(u)'
  BY <1>0, TornIsNoContent DEF IInv, Shapes, Judges, Holds, Loads, CacheHoldsWhatItNames, Mesh, go, files, rows, looked, reading,
     recorded, meshesOf
<1> QED BY <1>1, <1>2, <1>3, <1>4, <1>5 DEF IInv

LEMMA ConnectKeeps ==
  ASSUME IInv, NEW v \in Versions, Connect(v) PROVE IInv'
<1>0. /\ UNCHANGED past /\ mixed' = mixed
      /\ \A u \in Versions : (intact(u)' <=> intact(u)) /\ (untouched(u)' <=> untouched(u))
      /\ \A u \in Versions : untouched(u) => intact(u)
  BY DEF Connect, past, intact, untouched, Phases
<1>1. Shapes'
  BY VersionsAssumption, TornIsNoContent DEF IInv, Shapes, Connect, go, files, rows, hashes, Payload, None, Phases
<1>2. CacheHoldsWhatItNames'
  BY <1>0 DEF IInv, Shapes, CacheHoldsWhatItNames, Loads, Connect, go, files, rows, looked, reading
<1>3. ASSUME NEW u \in Versions PROVE Loads(u)'
  BY <1>0, TornIsNoContent DEF IInv, Shapes, Loads, Connect, go, files, rows, looked, reading, meshesOf
<1>4. ASSUME NEW u \in Versions PROVE Holds(u)'
  BY <1>0, TornIsNoContent DEF IInv, Shapes, Holds, Connect, go, files, rows, recorded, looked, reading, past
<1>5. ASSUME NEW u \in Versions PROVE Judges(u)'
  BY <1>0, TornIsNoContent DEF IInv, Shapes, Judges, Holds, Loads, CacheHoldsWhatItNames, Connect, go, files, rows, looked, reading,
     recorded, meshesOf
<1> QED BY <1>1, <1>2, <1>3, <1>4, <1>5 DEF IInv

LEMMA OpenCacheKeeps ==
  ASSUME IInv, NEW v \in Versions, OpenCache(v) PROVE IInv'
<1>0. /\ UNCHANGED past /\ mixed' = mixed
      /\ \A u \in Versions : (intact(u)' <=> intact(u)) /\ (untouched(u)' <=> untouched(u))
      /\ \A u \in Versions : untouched(u) => intact(u)
  BY DEF OpenCache, past, intact, untouched, Phases
<1>1. Shapes'
  BY VersionsAssumption, TornIsNoContent DEF IInv, Shapes, OpenCache, go, rows, hashes, Payload, None, Phases
<1>2. CacheHoldsWhatItNames'
  BY <1>0 DEF IInv, Shapes, CacheHoldsWhatItNames, Loads, OpenCache, go, rows, looked, reading
<1>3. ASSUME NEW u \in Versions PROVE Loads(u)'
  BY <1>0, TornIsNoContent DEF IInv, Shapes, Loads, OpenCache, go, rows, looked, reading, meshesOf
<1>4. ASSUME NEW u \in Versions PROVE Holds(u)'
  BY <1>0, TornIsNoContent DEF IInv, Shapes, Holds, OpenCache, go, rows, recorded, looked, reading, past
<1>5. ASSUME NEW u \in Versions PROVE Judges(u)'
  BY <1>0, TornIsNoContent DEF IInv, Shapes, Judges, Holds, Loads, CacheHoldsWhatItNames, OpenCache, go, rows, looked, reading,
     recorded, meshesOf
<1> QED BY <1>1, <1>2, <1>3, <1>4, <1>5 DEF IInv

LEMMA DumpKeeps ==
  ASSUME IInv, NEW v \in Versions, Dump(v) PROVE IInv'
<1>0. /\ UNCHANGED past /\ mixed' = mixed
      /\ \A u \in Versions : (intact(u)' <=> intact(u)) /\ (untouched(u)' <=> untouched(u))
      /\ \A u \in Versions : untouched(u) => intact(u)
  BY DEF Dump, past, intact, untouched, Phases
<1>1. Shapes'
  BY VersionsAssumption, TornIsNoContent DEF IInv, Shapes, Dump, go, rows, othersWriting, hashes, Payload, None, Phases
<1>2. CacheHoldsWhatItNames'
  BY <1>0 DEF IInv, Shapes, CacheHoldsWhatItNames, Loads, Dump, go, rows, othersWriting, looked, reading
<1>3. ASSUME NEW u \in Versions PROVE Loads(u)'
  BY <1>0, TornIsNoContent DEF IInv, Shapes, Loads, Dump, go, rows, othersWriting, looked, reading, meshesOf
<1>4. ASSUME NEW u \in Versions PROVE Holds(u)'
  BY <1>0, TornIsNoContent DEF IInv, Shapes, Holds, Dump, go, rows, othersWriting, recorded, looked, reading, past
<1>5. ASSUME NEW u \in Versions PROVE Judges(u)'
  BY <1>0, TornIsNoContent DEF IInv, Shapes, Judges, Holds, Loads, CacheHoldsWhatItNames, Dump, go, rows, othersWriting, looked, reading,
     recorded, meshesOf
<1> QED BY <1>1, <1>2, <1>3, <1>4, <1>5 DEF IInv

LEMMA JudgeKeeps ==
  ASSUME IInv, NEW v \in Versions, Judge(v) PROVE IInv'
<1>0. /\ UNCHANGED past /\ mixed' = mixed
      /\ \A u \in Versions : (intact(u)' <=> intact(u)) /\ (untouched(u)' <=> untouched(u))
      /\ \A u \in Versions : untouched(u) => intact(u)
  BY DEF Judge, past, intact, untouched, Phases
<1>1. Shapes'
  BY VersionsAssumption, TornIsNoContent DEF IInv, Shapes, Judge, go, files, hashes, Payload, None, Phases
<1>2. CacheHoldsWhatItNames'
  BY <1>0 DEF IInv, Shapes, CacheHoldsWhatItNames, Loads, Judge, go, files, looked, reading
<1>3. ASSUME NEW u \in Versions PROVE Loads(u)'
  BY <1>0, TornIsNoContent DEF IInv, Shapes, Loads, Judge, go, files, looked, reading, meshesOf
<1>4. ASSUME NEW u \in Versions PROVE Holds(u)'
  BY <1>0, TornIsNoContent DEF IInv, Shapes, Holds, Judge, go, files, recorded, looked, reading, past
<1>6. intact(v) => untouched(v)
  BY DEF IInv, Holds, intact, untouched, Judge
<1>5. ASSUME NEW u \in Versions PROVE Judges(u)'
  BY <1>0, <1>6, TornIsNoContent DEF IInv, Shapes, Judges, Holds, Loads, CacheHoldsWhatItNames, Judge, go, files, looked, reading,
     recorded, meshesOf
<1> QED BY <1>1, <1>2, <1>3, <1>4, <1>5 DEF IInv

LEMMA FinishKeeps ==
  ASSUME IInv, NEW v \in Versions, Finish(v) PROVE IInv'
<1>0. /\ UNCHANGED past /\ mixed' = mixed
      /\ \A u \in Versions : (intact(u)' <=> intact(u)) /\ (untouched(u)' <=> untouched(u))
      /\ \A u \in Versions : untouched(u) => intact(u)
  BY DEF Finish, past, intact, untouched, Phases
<1>1. Shapes'
  BY VersionsAssumption, TornIsNoContent DEF IInv, Shapes, Finish, go, files, hashes, Payload, None, Phases
<1>2. CacheHoldsWhatItNames'
  BY <1>0 DEF IInv, Shapes, CacheHoldsWhatItNames, Loads, Finish, go, files, looked, reading
<1>3. ASSUME NEW u \in Versions PROVE Loads(u)'
  BY <1>0, TornIsNoContent DEF IInv, Shapes, Loads, Finish, go, files, looked, reading, meshesOf
<1>4. ASSUME NEW u \in Versions PROVE Holds(u)'
  BY <1>0, TornIsNoContent DEF IInv, Shapes, Holds, Finish, go, files, recorded, looked, reading, past
<1>5. ASSUME NEW u \in Versions PROVE Judges(u)'
  BY <1>0, TornIsNoContent DEF IInv, Shapes, Judges, Holds, Loads, CacheHoldsWhatItNames, Finish, go, files, looked, reading,
     recorded, meshesOf
<1> QED BY <1>1, <1>2, <1>3, <1>4, <1>5 DEF IInv

LEMMA StartJobKeeps ==
  ASSUME IInv, NEW v \in Versions, StartJob(v) PROVE IInv'
<1>0. /\ UNCHANGED past /\ mixed' = mixed
      /\ \A u \in Versions : (intact(u)' <=> intact(u)) /\ (untouched(u)' <=> untouched(u))
      /\ \A u \in Versions : untouched(u) => intact(u)
  BY DEF StartJob, past, intact, untouched, Phases
<1>1. Shapes'
  BY VersionsAssumption, TornIsNoContent DEF IInv, Shapes, StartJob, go, files, rows, hashes, Payload, None, Phases
<1>2. CacheHoldsWhatItNames'
  BY <1>0 DEF IInv, Shapes, CacheHoldsWhatItNames, Loads, StartJob, go, files, rows, looked, reading
<1>3. ASSUME NEW u \in Versions PROVE Loads(u)'
  BY <1>0, TornIsNoContent DEF IInv, Shapes, Loads, StartJob, go, files, rows, looked, reading, meshesOf
<1>4. ASSUME NEW u \in Versions PROVE Holds(u)'
  BY <1>0, TornIsNoContent DEF IInv, Shapes, Holds, StartJob, go, files, rows, recorded, looked, reading, past
<1>5. ASSUME NEW u \in Versions PROVE Judges(u)'
  BY <1>0, TornIsNoContent DEF IInv, Shapes, Judges, Holds, Loads, CacheHoldsWhatItNames, StartJob, go, files, rows, looked, reading,
     recorded, meshesOf
<1> QED BY <1>1, <1>2, <1>3, <1>4, <1>5 DEF IInv

LEMMA EndJobKeeps ==
  ASSUME IInv, NEW v \in Versions, EndJob(v) PROVE IInv'
<1>0. /\ UNCHANGED past /\ mixed' = mixed
      /\ \A u \in Versions : (intact(u)' <=> intact(u)) /\ (untouched(u)' <=> untouched(u))
      /\ \A u \in Versions : untouched(u) => intact(u)
  BY DEF EndJob, past, intact, untouched, Phases
<1>1. Shapes'
  BY VersionsAssumption, TornIsNoContent DEF IInv, Shapes, EndJob, go, files, rows, hashes, Payload, None, Phases
<1>2. CacheHoldsWhatItNames'
  BY <1>0 DEF IInv, Shapes, CacheHoldsWhatItNames, Loads, EndJob, go, files, rows, looked, reading
<1>3. ASSUME NEW u \in Versions PROVE Loads(u)'
  BY <1>0, TornIsNoContent DEF IInv, Shapes, Loads, EndJob, go, files, rows, looked, reading, meshesOf
<1>4. ASSUME NEW u \in Versions PROVE Holds(u)'
  BY <1>0, TornIsNoContent DEF IInv, Shapes, Holds, EndJob, go, files, rows, recorded, looked, reading, past
<1>5. ASSUME NEW u \in Versions PROVE Judges(u)'
  BY <1>0, TornIsNoContent DEF IInv, Shapes, Judges, Holds, Loads, CacheHoldsWhatItNames, EndJob, go, files, rows, looked, reading,
     recorded, meshesOf
<1> QED BY <1>1, <1>2, <1>3, <1>4, <1>5 DEF IInv

LEMMA FailKeeps ==
  ASSUME IInv, NEW v \in Versions, Fail(v) PROVE IInv'
<1>0. /\ UNCHANGED past /\ mixed' = mixed
      /\ \A u \in Versions : (intact(u)' <=> intact(u)) /\ (untouched(u)' <=> untouched(u))
      /\ \A u \in Versions : untouched(u) => intact(u)
  BY DEF Fail, past, intact, untouched, Phases
<1>1. Shapes'
  BY VersionsAssumption, TornIsNoContent DEF IInv, Shapes, Fail, go, rows, forget, busy, hashes, Payload, None, Phases
<1>2. CacheHoldsWhatItNames'
  BY <1>0 DEF IInv, Shapes, CacheHoldsWhatItNames, Loads, Fail, go, rows, forget, busy, looked, reading
<1>3. ASSUME NEW u \in Versions PROVE Loads(u)'
  BY <1>0, TornIsNoContent DEF IInv, Shapes, Loads, Fail, go, rows, forget, busy, looked, reading, meshesOf
<1>4. ASSUME NEW u \in Versions PROVE Holds(u)'
  BY <1>0, TornIsNoContent DEF IInv, Shapes, Holds, Fail, go, rows, forget, busy, recorded, looked, reading, past
<1>5. ASSUME NEW u \in Versions PROVE Judges(u)'
  BY <1>0, TornIsNoContent DEF IInv, Shapes, Judges, Holds, Loads, CacheHoldsWhatItNames, Fail, go, rows, forget, busy, looked, reading,
     recorded, meshesOf
<1> QED BY <1>1, <1>2, <1>3, <1>4, <1>5 DEF IInv

LEMMA DiffKeeps ==
  ASSUME IInv, NEW v \in Versions, NEW p \in Versions, Diff(v, p) PROVE IInv'
<1>1. UNCHANGED <<files, load, sha, status, found, past>> BY DEF Diff
<1>2. Shapes' BY <1>1 DEF IInv, Shapes, files, load
<1>3. CacheHoldsWhatItNames' BY <1>1 DEF IInv, CacheHoldsWhatItNames, files, past
<1>4. ASSUME NEW u \in Versions PROVE Loads(u)' /\ Holds(u)' /\ Judges(u)'
  BY <1>1 DEF IInv, Loads, Holds, Judges, files, load, past, intact, untouched
<1> QED BY <1>2, <1>3, <1>4 DEF IInv

LEMMA StepKeeps ==
  ASSUME IInv, [Next]_vars PROVE IInv'
<1>1. ASSUME NEW v \in Versions, UploadStep(v) PROVE IInv'
  BY <1>1, ReceiveKeeps, ReceivedKeeps, RecordKeeps, HashKeeps, HitKeeps,
     UnreadableKeeps, MissKeeps, MeshKeeps, ConnectKeeps, OpenCacheKeeps, DumpKeeps, JudgeKeeps,
     FinishKeeps, EndJobKeeps DEF UploadStep, LoadStep
<1>2. ASSUME NEW v \in Versions, StartJob(v) \/ Fail(v) PROVE IInv'
  BY <1>2, StartJobKeeps, FailKeeps
<1>3. ASSUME NEW v \in Versions, NEW p \in Versions, Diff(v, p) PROVE IInv'
  BY <1>3, DiffKeeps
<1>4. CASE UNCHANGED vars
  <2>1. UNCHANGED <<files, load, rows, past>> BY <1>4 DEF vars
  <2>2. Shapes' BY <2>1 DEF IInv, Shapes, files, load, rows
  <2>3. CacheHoldsWhatItNames' BY <2>1 DEF IInv, CacheHoldsWhatItNames, files, past
  <2>4. ASSUME NEW u \in Versions PROVE Loads(u)' /\ Holds(u)' /\ Judges(u)'
    BY <2>1 DEF IInv, Loads, Holds, Judges, files, load, rows, past, intact, untouched
  <2> QED BY <2>2, <2>3, <2>4 DEF IInv
<1> QED BY <1>1, <1>2, <1>3, <1>4 DEF Next

LEMMA AlwaysKept == Spec => []IInv
<1>1. Init => IInv BY StartsKept
<1>2. IInv /\ [Next]_vars => IInv' BY StepKeeps
<1> QED BY <1>1, <1>2, PTL DEF Spec

(* However uploads of the same bytes overlap, whatever fails, and whoever   *)
(* uploads under a name in use: a cache file that can be read has the       *)
(* meshes and connections of the bytes it is named for, unless a load had   *)
(* its file written to after it took the hash and before it had read it.    *)
THEOREM CacheIsContentAddressed == Spec => []CacheHoldsWhatItNames
<1>1. IInv => CacheHoldsWhatItNames BY DEF IInv
<1> QED BY <1>1, AlwaysKept, PTL

(* A version whose path nobody else was writing to by the time it was       *)
(* judged, and whose hash is not mixed, is judged by what was uploaded,     *)
(* and the path may be taken by others afterwards; as long as it is not,    *)
(* every later load is of the upload as well.                               *)
THEOREM VersionsAreTheirUploads == Spec => []JudgedAsUploaded
<1>1. IInv => JudgedAsUploaded BY DEF IInv, Holds, Judges, JudgedAsUploaded
<1> QED BY <1>1, AlwaysKept, PTL

------------------------------------------------------------------------------
(* A finding names a pair; its key is the pair in order.                    *)
LEMMA FindingsAreOfNumbers ==
  ASSUME NEW c \in hashes, NEW f \in of(c) PROVE f[1] \in Nat /\ f[2] \in Nat
BY VersionsAssumption DEF of, hashes

LEMMA KeysAreInOrder ==
  ASSUME NEW c \in hashes, NEW kinds, NEW k \in keysOf(c, kinds)
  PROVE  k[1] \in Nat /\ k[2] \in Nat /\ k[1] <= k[2] /\ k = <<k[1], k[2]>>
<1>1. PICK f \in of(c) : k = pair_key(f[1], f[2]) BY DEF keysOf
<1>2. f[1] \in Nat /\ f[2] \in Nat BY FindingsAreOfNumbers
<1> QED BY <1>1, <1>2 DEF pair_key

LEMMA KeysNameThePairs ==
  ASSUME NEW c \in hashes, NEW kinds PROVE unordered(keysOf(c, kinds)) = pairsOf(c, kinds)
<1> DEFINE chosen == {g \in of(c) : g[3] \in kinds}
<1>1. ASSUME NEW f \in chosen
      PROVE  LET k == pair_key(f[1], f[2]) IN {k[1], k[2]} = {f[1], f[2]}
  BY FindingsAreOfNumbers DEF pair_key
<1>2. unordered(keysOf(c, kinds)) = {LET k == pair_key(f[1], f[2]) IN {k[1], k[2]} : f \in chosen}
  BY DEF unordered, keysOf
<1> QED BY <1>1, <1>2 DEF pairsOf

(* Ordered keys are equal when their pairs are, so set operations on keys   *)
(* and on pairs agree.                                                      *)
Ordered(K) == \A k \in K : k[1] \in Nat /\ k[2] \in Nat /\ k[1] <= k[2] /\ k = <<k[1], k[2]>>

LEMMA InOrderOnce ==
  ASSUME NEW a \in Nat, NEW b \in Nat, a <= b, NEW c \in Nat, NEW d \in Nat, c <= d,
         a \in {c, d}, b \in {c, d}, c \in {a, b}, d \in {a, b}
  PROVE  a = c /\ b = d
OBVIOUS

LEMMA PairsTellKeysApart ==
  ASSUME NEW K, Ordered(K), NEW k \in K, NEW l \in K, {k[1], k[2]} = {l[1], l[2]}
  PROVE  k = l
<1>1. k[1] \in Nat /\ k[2] \in Nat /\ k[1] <= k[2] BY DEF Ordered
<1>2. l[1] \in Nat /\ l[2] \in Nat /\ l[1] <= l[2] BY DEF Ordered
<1>3. k[1] \in {l[1], l[2]} /\ k[2] \in {l[1], l[2]} /\ l[1] \in {k[1], k[2]} /\ l[2] \in {k[1], k[2]}
  OBVIOUS
<1>4. k[1] = l[1] /\ k[2] = l[2] BY <1>1, <1>2, <1>3, InOrderOnce
<1> QED BY <1>4 DEF Ordered

LEMMA OperationsAgree ==
  ASSUME NEW K, NEW J, Ordered(K), Ordered(J)
  PROVE  /\ unordered(K \ J) = unordered(K) \ unordered(J)
         /\ unordered(K \cap J) = unordered(K) \cap unordered(J)
         /\ unordered(K \cup J) = unordered(K) \cup unordered(J)
<1>1. ASSUME NEW k \in K, NEW j \in J, {k[1], k[2]} = {j[1], j[2]} PROVE k = j
  <2>1. Ordered(K \cup J) BY DEF Ordered
  <2> QED BY <1>1, <2>1, PairsTellKeysApart
<1> QED BY <1>1 DEF unordered

LEMMA DiffOfUploads ==
  ASSUME NEW c \in hashes, NEW d \in hashes
  PROVE  LET diff == diff_versions(c, d)
             was == pairsOf(c, Active)
             is == pairsOf(d, Active) IN
         /\ unordered(diff.resolved) = was \ is
         /\ unordered(diff.persisting) = was \cap is
         /\ unordered(diff.new \cup diff.regressed) = is \ was
         /\ unordered(diff.new) \cap unordered(diff.regressed) = {}
<1> DEFINE was == keysOf(c, Active)
           is == keysOf(d, Active)
           cleared == keysOf(c, {"clear"})
<1>1. Ordered(was) /\ Ordered(is) /\ Ordered(cleared)
  BY KeysAreInOrder DEF Ordered
<1>2. unordered(was) = pairsOf(c, Active) /\ unordered(is) = pairsOf(d, Active)
  BY KeysNameThePairs
<1>3. /\ diff_versions(c, d).resolved = was \ is
      /\ diff_versions(c, d).persisting = was \cap is
      /\ diff_versions(c, d).regressed = (is \ was) \cap cleared
      /\ diff_versions(c, d).new = (is \ was) \ cleared
  BY DEF diff_versions
<1> HIDE DEF was, is, cleared
<1>4. unordered(was \ is) = unordered(was) \ unordered(is)
      /\ unordered(was \cap is) = unordered(was) \cap unordered(is)
  BY <1>1, OperationsAgree
<1>5. unordered(is \ was) = unordered(is) \ unordered(was)
  BY <1>1, OperationsAgree
<1>6. ((is \ was) \ cleared) \cup ((is \ was) \cap cleared) = is \ was OBVIOUS
<1>7. Ordered((is \ was) \ cleared) /\ Ordered((is \ was) \cap cleared)
  BY <1>1 DEF Ordered
<1>8. unordered((is \ was) \ cleared) \cap unordered((is \ was) \cap cleared)
        = unordered(((is \ was) \ cleared) \cap ((is \ was) \cap cleared))
  BY <1>7, OperationsAgree
<1>9. unordered(((is \ was) \ cleared) \cap ((is \ was) \cap cleared)) = {}
  BY DEF unordered
<1> QED BY <1>2, <1>3, <1>4, <1>5, <1>6, <1>8, <1>9

(* A comparable version has the findings of its upload.                     *)
LEMMA ComparableAreUploads ==
  ASSUME IInv, NEW v \in Versions, NEW p \in Versions, comparable(v, p)
  PROVE  /\ found[v].elements = Content[v] /\ found[p].elements = Content[p]
         /\ diff_of(v, p) = diff_versions(Content[p], Content[v])
<1>1. found[v] = meshesOf(Content[v]) /\ found[p] = meshesOf(Content[p])
  BY DEF IInv, Judges, comparable
<1> QED BY <1>1 DEF meshesOf, diff_of

(* Whatever the files hold and in whatever order the runs have met their    *)
(* pairs, the diff of two versions with the findings of their uploads is    *)
(* that of the uploads, also when one has come under the other's name.      *)
THEOREM DiffsAreOfTheUploads == Spec => []DiffIsOfTheUploads
<1>1. ASSUME IInv, NEW v \in Versions, NEW p \in Versions, comparable(v, p)
      PROVE  LET diff == diff_of(v, p)
                 was == pairsOf(Content[p], Active)
                 is == pairsOf(Content[v], Active) IN
             /\ unordered(diff.resolved) = was \ is
             /\ unordered(diff.persisting) = was \cap is
             /\ unordered(diff.new \cup diff.regressed) = is \ was
             /\ unordered(diff.new) \cap unordered(diff.regressed) = {}
  <2>1. diff_of(v, p) = diff_versions(Content[p], Content[v]) BY <1>1, ComparableAreUploads
  <2>2. Content[p] \in hashes /\ Content[v] \in hashes BY TornIsNoContent
  <2> DEFINE diff == diff_versions(Content[p], Content[v])
             was == pairsOf(Content[p], Active)
             is == pairsOf(Content[v], Active)
  <2>3. /\ unordered(diff.resolved) = was \ is
        /\ unordered(diff.persisting) = was \cap is
        /\ unordered(diff.new \cup diff.regressed) = is \ was
        /\ unordered(diff.new) \cap unordered(diff.regressed) = {}
    BY <2>2, DiffOfUploads
  <2> QED BY <2>1, <2>3
<1>2. IInv => DiffIsOfTheUploads BY <1>1 DEF DiffIsOfTheUploads
<1> QED BY <1>2, AlwaysKept, PTL

------------------------------------------------------------------------------
(* A clash row is named by the key of a pair its findings have as active.   *)
ClashesAreKeys ==
  /\ DOMAIN clash = Versions
  /\ \A v \in Versions :
       DOMAIN clash[v] # {} => found[v] # None /\ DOMAIN clash[v] \subseteq keysOf(found[v].elements, Active)
  /\ \A v \in Versions : phase[v] = "ingest" => DOMAIN clash[v] = {}

LEMMA QueueIsOfKeys == ASSUME NEW c PROVE queue(c) \subseteq keysOf(c, Active)
BY DEF queue, keysOf, clash_id_for, pair_key

LEMMA QueueOfNothing == queue(Torn) = {}
BY VersionsAssumption DEF queue, of

LEMMA ClashesStayKeys ==
  ASSUME IInv, ClashesAreKeys, [Next]_vars PROVE ClashesAreKeys'
<1>1. ASSUME NEW v \in Versions, Finish(v) PROVE ClashesAreKeys'
  <2>1. queue(found[v].elements) \subseteq keysOf(found[v].elements, Active)
    BY QueueIsOfKeys
  <2>2. found[v] = None => queue(found[v].elements) = {}
    BY QueueOfNothing DEF None
  <2>3. /\ clash' = [clash EXCEPT ![v] = [k \in queue(found[v].elements) |-> "open"]]
        /\ found' = found /\ phase' = [phase EXCEPT ![v] = "job"]
    BY <1>1 DEF Finish
  <2>4. DOMAIN clash'[v] = queue(found[v].elements) /\ \A u \in Versions \ {v} : clash'[u] = clash[u]
    BY <2>3 DEF ClashesAreKeys
  <2>5. phase'[v] = "job" /\ \A u \in Versions \ {v} : phase'[u] = phase[u]
    BY <2>3 DEF IInv, Shapes
  <2> QED BY <2>1, <2>2, <2>3, <2>4, <2>5 DEF ClashesAreKeys
<1>2. ASSUME NEW v \in Versions, NEW p \in Versions, Diff(v, p) PROVE ClashesAreKeys'
  <2>1. UNCHANGED <<found, phase>> BY <1>2 DEF Diff, load
  <2>2. DOMAIN clash' = Versions /\ \A u \in Versions : DOMAIN clash'[u] = DOMAIN clash[u]
    BY <1>2 DEF Diff, ClashesAreKeys
  <2> QED BY <2>1, <2>2 DEF ClashesAreKeys
<1>3. ASSUME NEW v \in Versions, Judge(v) PROVE ClashesAreKeys'
  <2>1. /\ clash' = clash /\ phase[v] = "ingest" /\ phase'[v] # "ingest"
        /\ \A u \in Versions \ {v} : found'[u] = found[u] /\ phase'[u] = phase[u]
    BY <1>3 DEF Judge, IInv, Shapes
  <2> QED BY <2>1 DEF ClashesAreKeys
<1>4. ASSUME NEW v \in Versions, UploadStep(v) \/ StartJob(v) \/ Fail(v), ~Finish(v), ~Judge(v)
      PROVE  UNCHANGED <<clash, found, phase>>
  BY <1>4 DEF UploadStep, LoadStep, Receive, Received, Record, Hash, Hit, Unreadable, Miss,
     Mesh, Connect, OpenCache, Dump, StartJob, EndJob, Fail, rows
<1>5. CASE UNCHANGED vars BY <1>5 DEF vars, rows, load, ClashesAreKeys
<1>6. CASE UNCHANGED <<clash, found, phase>> BY <1>6 DEF ClashesAreKeys
<1> QED BY <1>1, <1>2, <1>3, <1>4, <1>5, <1>6 DEF Next

(* Two versions with the findings of their uploads are scored by what the   *)
(* uploads hold: a verified proposal counts exactly when its pair has gone. *)
THEOREM ScoresAreOfTheUploads == Spec => []ScoredIsResolved
<1>1. ASSUME IInv, ClashesAreKeys, NEW v \in Versions, NEW p \in Versions, comparable(v, p),
             NEW k \in DOMAIN clash[p]
      PROVE  k \in scored(v, p) <=> {k[1], k[2]} \notin pairsOf(Content[v], Active)
  <2> DEFINE was == keysOf(Content[p], Active)
             is == keysOf(Content[v], Active)
  <2>1. /\ found[p].elements = Content[p]
        /\ diff_of(v, p) = diff_versions(Content[p], Content[v])
    BY <1>1, ComparableAreUploads
  <2>2. scored(v, p) = DOMAIN clash[p] \cap (was \ is) BY <2>1 DEF scored, diff_versions
  <2>3. k \in was BY <1>1, <2>1 DEF ClashesAreKeys
  <2>4. Content[v] \in hashes /\ Content[p] \in hashes BY TornIsNoContent
  <2>5. k \in is <=> {k[1], k[2]} \in unordered(is)
    <3>1. Ordered(was \cup is) BY <2>4, KeysAreInOrder DEF Ordered
    <3>2. ASSUME NEW l \in is, {k[1], k[2]} = {l[1], l[2]} PROVE k = l
      BY <2>3, <3>1, <3>2, PairsTellKeysApart
    <3> QED BY <3>2 DEF unordered
  <2>6. unordered(is) = pairsOf(Content[v], Active) BY <2>4, KeysNameThePairs
  <2> HIDE DEF was, is
  <2> QED BY <1>1, <2>2, <2>3, <2>5, <2>6
<1>2. Init => ClashesAreKeys BY DEF Init, ClashesAreKeys
<1>3. IInv /\ ClashesAreKeys /\ [Next]_vars => ClashesAreKeys' BY ClashesStayKeys
<1>4. IInv /\ ClashesAreKeys => ScoredIsResolved BY <1>1 DEF ScoredIsResolved
<1> QED BY <1>2, <1>3, <1>4, AlwaysKept, PTL DEF Spec

------------------------------------------------------------------------------
(* What has been read of a file while it is being meshed is not torn.       *)
Typed == TypeOK /\ \A v \in Versions : pc[v] = "connecting" => parsed[v] \in Contents

LEMMA TypesKept ==
  ASSUME Typed, [Next]_vars PROVE Typed'
<1> USE VersionsAssumption DEF Typed, TypeOK, go, hashes, Payload, None, Places, Phases, past
<1>1. ASSUME NEW v \in Versions, Receive(v) PROVE Typed'
  BY <1>1 DEF Receive, disturbs, sharing, copying, files, load, rows
<1>2. ASSUME NEW v \in Versions, Received(v) PROVE Typed'
  BY <1>2 DEF Received, disturbs, sharing, copying, files, load, rows
<1>3. ASSUME NEW v \in Versions, Record(v) PROVE Typed'
  BY <1>3 DEF Record, files, rows
<1>4. ASSUME NEW v \in Versions, Hash(v) PROVE Typed'
  BY <1>4 DEF Hash, hashed, rows, files
<1>5. ASSUME NEW v \in Versions, Hit(v) PROVE Typed'
  BY <1>5 DEF Hit, restorable, rows, files
<1>6. ASSUME NEW v \in Versions, Unreadable(v) PROVE Typed'
  BY <1>6 DEF Unreadable, rows
<1>7. ASSUME NEW v \in Versions, Miss(v) PROVE Typed'
  BY <1>7 DEF Miss, files, rows
<1>8. ASSUME NEW v \in Versions, Mesh(v) PROVE Typed'
  BY <1>8 DEF Mesh, files, rows
<1>9. ASSUME NEW v \in Versions, Connect(v) PROVE Typed'
  BY <1>9 DEF Connect, files, rows
<1>10. ASSUME NEW v \in Versions, OpenCache(v) PROVE Typed'
  BY <1>10 DEF OpenCache, rows
<1>11. ASSUME NEW v \in Versions, Dump(v) PROVE Typed'
  BY <1>11 DEF Dump, othersWriting, rows
<1>12. ASSUME NEW v \in Versions, Judge(v) PROVE Typed'
  BY <1>12 DEF Judge, files
<1>13. ASSUME NEW v \in Versions, Finish(v) PROVE Typed'
  BY <1>13 DEF Finish, files
<1>14. ASSUME NEW v \in Versions, StartJob(v) PROVE Typed'
  BY <1>14 DEF StartJob, files, rows
<1>15. ASSUME NEW v \in Versions, EndJob(v) PROVE Typed'
  BY <1>15 DEF EndJob, files, rows
<1>16. ASSUME NEW v \in Versions, Fail(v) PROVE Typed'
  BY <1>16 DEF Fail, busy, forget, rows
<1>17. ASSUME NEW v \in Versions, NEW p \in Versions, Diff(v, p) PROVE Typed'
  BY <1>17 DEF Diff, files, load
<1>18. CASE UNCHANGED vars BY <1>18 DEF vars, files, load, rows
<1> QED BY <1>1, <1>2, <1>3, <1>4, <1>5, <1>6, <1>7, <1>8, <1>9, <1>10, <1>11, <1>12, <1>13, <1>14, <1>15, <1>16, <1>17, <1>18 DEF Next, UploadStep, LoadStep

(* Every file, row and load keeps its type, for any uploads and jobs.       *)
THEOREM VersionsTypeCorrect == Spec => []TypeOK
<1>1. Init => Typed
  BY VersionsAssumption DEF Init, Typed, TypeOK, hashes, Payload, None, Places, Phases
<1>2. Typed => TypeOK BY DEF Typed
<1> QED BY <1>1, <1>2, TypesKept, PTL DEF Spec
==============================================================================
