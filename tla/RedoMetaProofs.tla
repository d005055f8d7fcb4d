--------------------------- MODULE RedoMetaProofs ---------------------------
(***************************************************************************)
(* Proofs about the redo meta, for any number of owners, timestamps and    *)
(* crashes: at any moment, with an old owner going on beside the new one,  *)
(* the files allow a disaster to be recovered from (AlwaysRecoverable).    *)
(***************************************************************************)
EXTENDS RedoMeta, WellFoundedInduction, TLAPS

(* The leaves are for the SMT solver unless they name another prover. *)
USE SMTT(60), ZenonT(60)

Ts == 1..MaxTs
File == [o : Owners, c : Ts, r : Ts]
Pair == [c : 0..MaxTs, r : 0..MaxTs]
InitPhases == {"init", "initRead", "initWrite", "initWritten"}
(* The phases in which an owner has flushed a meta file. *)
FlushedPhases == {"initClean", "running", "read", "write", "written"}
OwnerType ==
  [phase : InitPhases \cup FlushedPhases \cup {"down"}, unflushed : Pair, flushed : Pair, meta : Pair,
   toRemove : SUBSET File, preMetaFile : SUBSET File, tick : {"idle", "update", "limit"}, wm : Pair]

(* The types, and what the owners that have not been elected are. *)
Types ==
  /\ metas \in SUBSET File /\ logs \in SUBSET Ts
  /\ status \in Ts /\ downstream \in Ts
  /\ table \in [r : Ts, c : Ts, barrier : Ts]
  /\ owner \in [Owners -> OwnerType]
  /\ leader \in 0..MaxOwners
  /\ \A o \in Owners : o > leader => owner[o].phase = "down"
  /\ \A m \in metas : m.o <= leader

(* A file covers another if it promises at least as much.                  *)
Covers(m, p) == m.c >= p.c /\ m.r >= p.r

(* The log of ts is there unless some meta file is past it.                *)
Logged(ts) == ts \in logs \/ \E m \in metas : ts < m.c
LoggedUpTo(R) == \A ts \in 2..R : Logged(ts)

(* Some meta file promises the data up to ts.                              *)
Promised(ts) == ts <= startTs \/ \E m \in metas : ts <= m.r

(* What an owner has read and written, from its own point of view: its     *)
(* values grow, and what it is about to write is more than what it wrote.  *)
Local(o, w) ==
  /\ w.phase = "down" => w = Idle
  /\ w.phase # "down" => w.unflushed.c >= 1 /\ w.unflushed.c <= w.unflushed.r
  /\ Covers(w.unflushed, w.flushed)
  /\ w.phase \in InitPhases => w.preMetaFile = {} /\ w.flushed = Zero
  /\ w.phase \in FlushedPhases =>
       w.preMetaFile = {[o |-> o, c |-> w.flushed.c, r |-> w.flushed.r]}
  /\ w.phase \in {"initRead", "read"} =>
       /\ w.meta.c >= 1 /\ w.meta.c <= w.unflushed.c /\ w.meta.c >= w.flushed.c
       /\ w.phase = "read" => w.meta.c > w.flushed.c \/ w.unflushed.r > w.flushed.r
  /\ w.phase \in {"initWrite", "write", "initWritten", "written"} =>
       /\ w.meta.c >= 1 /\ w.meta.c <= w.meta.r
       /\ Covers(w.unflushed, w.meta) /\ Covers(w.meta, w.flushed)
       /\ w.phase \in {"write", "written"} => w.meta # w.flushed
  /\ w.tick # "idle" => w.wm.c >= 1 /\ w.wm.c <= w.wm.r /\ w.wm.r <= w.unflushed.r
  /\ \A x \in w.toRemove :
       /\ x.o < o /\ Covers(w.unflushed, x)
       /\ w.phase \in {"initRead", "initWrite", "initWritten"} => x.c <= w.meta.c
       /\ w.phase \in {"initWrite", "initWritten"} => x.r <= w.meta.r
       /\ w.phase \in FlushedPhases => Covers(w.flushed, x)

(* What an owner has written is covered by a file of its own or of an      *)
(* owner after it, which is not the one it is about to delete.             *)
Covered(o, w) ==
  /\ w.phase \in {"initWritten", "written"} =>
       \E y \in metas : /\ y.o > o \/ y = [o |-> o, c |-> w.meta.c, r |-> w.meta.r]
                        /\ Covers(y, w.meta)
  /\ w.phase \in FlushedPhases => \E y \in metas : y.o >= o /\ Covers(y, w.flushed)

(* What an owner knows of the tables has happened.                         *)
Sound(w) ==
  /\ w.unflushed.c <= downstream /\ LoggedUpTo(w.unflushed.r)
  /\ w.tick # "idle" => w.wm.c <= downstream

(* The same of the files, of the status in etcd and of the table.          *)
FilesSound == \A m \in metas : m.c <= m.r /\ m.c <= downstream /\ LoggedUpTo(m.r)
StatusSound == status <= downstream /\ LoggedUpTo(status) /\ Promised(status)
TableSound ==
  /\ table.c <= table.r /\ table.c <= downstream /\ LoggedUpTo(table.r)
  /\ Promised(table.barrier) /\ Promised(downstream)

IInv ==
  /\ Types
  /\ \A o \in Owners : Local(o, owner[o]) /\ Covered(o, owner[o]) /\ Sound(owner[o])
  /\ FilesSound /\ StatusSound /\ TableSound

-----------------------------------------------------------------------------
(* A nonempty set of timestamps has a largest element, which Max returns.  *)
LEMMA MaxProperty ==
  ASSUME NEW S \in SUBSET Ts, S # {}
  PROVE  Max(S) \in S /\ \A x \in S : x <= Max(S)
<1> DEFINE U == {n \in Ts : \A x \in S : x <= n}
           R == OpToRel(<, Nat)
<1>1. MaxTs \in U /\ U \subseteq Nat
  BY MetaAssumption DEF Ts
<1>2. \A x, y \in Nat : x < y => <<x, y>> \in R
  BY DEF OpToRel
<1>3. IsWellFoundedOn(R, Nat)
  BY NatLessThanWellFounded, ZenonT(60)
<1>4. PICK m \in U : \A y \in U : ~(<<y, m>> \in R)
  <2> HIDE DEF U, R
  <2> QED  BY <1>1, <1>3, WFMin, ZenonT(60)
<1>5. \A y \in U : ~(y < m)
  <2> HIDE DEF R
  <2> QED  BY <1>1, <1>2, <1>4, ZenonT(60)
<1>6. m \in S
  <2>1. SUFFICES ASSUME m \notin S PROVE FALSE
    OBVIOUS
  <2>2. PICK x \in S : TRUE
    OBVIOUS
  <2>3. m - 1 \in U
    BY <2>1, <2>2, MetaAssumption DEF Ts
  <2> QED  BY <1>5, <2>3, MetaAssumption DEF Ts
<1>7. \E z \in S : \A x \in S : z >= x
  BY <1>6, MetaAssumption DEF Ts
<1> QED  BY <1>7, MetaAssumption, ZenonT(60) DEF Max, Ts

(* ParseMeta returns a checkpoint and a resolved timestamp of some files,  *)
(* and no file says more.                                                  *)
LEMMA ParseMetaProperty ==
  ASSUME NEW ms, ms # {}, \A m \in ms : m.c \in Ts /\ m.r \in Ts
  PROVE  /\ ParseMeta(ms).c \in Ts /\ ParseMeta(ms).r \in Ts
         /\ \E m \in ms : ParseMeta(ms).c = m.c
         /\ \E m \in ms : ParseMeta(ms).r = m.r
         /\ \A m \in ms : Covers(ParseMeta(ms), m)
         /\ ParseMeta(ms) = [c |-> ParseMeta(ms).c, r |-> ParseMeta(ms).r]
<1> DEFINE C == {m.c : m \in ms}  R == {m.r : m \in ms}
<1>1. C \in SUBSET Ts /\ C # {} /\ R \in SUBSET Ts /\ R # {}
  OBVIOUS
<1>2. Max(C) \in C /\ (\A x \in C : x <= Max(C)) /\ Max(R) \in R /\ \A x \in R : x <= Max(R)
  <2> HIDE DEF C, R
  <2> QED  BY <1>1, MaxProperty
<1>3. \A m \in ms : m.c <= Max(C) /\ m.r <= Max(R)
  BY <1>2
<1>4. ParseMeta(ms) = [c |-> Max(C), r |-> Max(R)]
  BY DEF ParseMeta
<1>5. Max(C) \in Ts /\ Max(R) \in Ts
  BY <1>1, <1>2
<1>6. (\E m \in ms : Max(C) = m.c) /\ \E m \in ms : Max(R) = m.r
  BY <1>2, ZenonT(60)
<1>7. \A m \in ms : Covers(ParseMeta(ms), m)
  <2> HIDE DEF C, R
  <2> QED  BY <1>3, <1>4, <1>5, MetaAssumption DEF Covers, Ts
<1> HIDE DEF C, R
<1> QED  BY <1>4, <1>5, <1>6, <1>7

-----------------------------------------------------------------------------
(* The fields of an owner. *)
LEMMA OwnerFields ==
  ASSUME NEW w \in OwnerType
  PROVE  /\ w.unflushed \in Pair /\ w.flushed \in Pair /\ w.meta \in Pair /\ w.wm \in Pair
         /\ \A p \in Pair : p.c \in Nat /\ p.r \in Nat /\ p.c <= MaxTs /\ p.r <= MaxTs
         /\ w.toRemove \in SUBSET File /\ w.preMetaFile \in SUBSET File
BY MetaAssumption DEF OwnerType, Pair

LEMMA FileFields ==
  ASSUME NEW m \in File
  PROVE  /\ m.o \in Nat /\ m.c \in Nat /\ m.r \in Nat /\ m.o \in Owners /\ m.c \in Ts /\ m.r \in Ts
         /\ m.c >= 1 /\ m.r >= 1 /\ m.o <= MaxOwners /\ m.c <= MaxTs /\ m.r <= MaxTs
BY MetaAssumption DEF File, Ts, Owners

(* A set of files that covers another one promises what that one promised. *)
LEMMA CoveringKeeps ==
  ASSUME metas \in SUBSET File, metas' \in SUBSET File,
         \A m \in metas : \E n \in metas' : Covers(n, m),
         \A ts \in logs : ts \in logs' \/ \E m \in metas : ts < m.c
  PROVE  /\ \A ts \in Nat : Logged(ts) => Logged(ts)'
         /\ \A R \in Nat : LoggedUpTo(R) => LoggedUpTo(R)'
         /\ \A ts \in Nat : Promised(ts) => Promised(ts)'
<1>1. ASSUME NEW ts \in Nat, NEW m \in metas, ts < m.c PROVE Logged(ts)'
  <2>1. PICK n \in metas' : Covers(n, m)
    OBVIOUS
  <2> QED  BY <1>1, <2>1, FileFields DEF Logged, Covers
<1>2. \A ts \in Nat : Logged(ts) => Logged(ts)'
  BY <1>1 DEF Logged
<1>3. ASSUME NEW ts \in Nat, NEW m \in metas, ts <= m.r PROVE Promised(ts)'
  <2>1. PICK n \in metas' : Covers(n, m)
    OBVIOUS
  <2> QED  BY <1>3, <2>1, FileFields DEF Promised, Covers
<1>4. \A ts \in Nat : Promised(ts) => Promised(ts)'
  BY <1>3 DEF Promised
<1> QED  BY <1>2, <1>4 DEF LoggedUpTo

(* A step of one owner that leaves files and logs alone. *)
LEMMA OwnerStep ==
  ASSUME IInv, NEW o \in Owners, NEW v \in OwnerType,
         owner' = [owner EXCEPT ![o] = v],
         UNCHANGED <<metas, logs, downstream, leader>>,
         status' \in Ts, table' \in [r : Ts, c : Ts, barrier : Ts],
         v.phase = "down" \/ o <= leader,
         Local(o, v), Covered(o, v), Sound(v), StatusSound', TableSound'
  PROVE  IInv'
<1>1. Types'
  <2>1. owner' \in [Owners -> OwnerType]
    BY DEF IInv, Types
  <2>2. \A p \in Owners : p > leader => owner'[p].phase = "down"
    BY MetaAssumption DEF IInv, Types, Owners
  <2> QED  BY <2>1, <2>2 DEF IInv, Types
<1>2. ASSUME NEW p \in Owners PROVE (Local(p, owner[p]) /\ Covered(p, owner[p]) /\ Sound(owner[p]))'
  <2>1. owner'[p] = IF p = o THEN v ELSE owner[p]
    BY DEF IInv, Types
  <2>2. Local(p, owner'[p]) /\ Covered(p, owner'[p]) /\ Sound(owner'[p])
    BY <2>1 DEF IInv
  <2> QED  BY <2>2, ZenonT(60) DEF Covered, Sound, LoggedUpTo, Logged
<1>3. FilesSound'
  BY DEF IInv, FilesSound, LoggedUpTo, Logged
<1> QED  BY <1>1, <1>2, <1>3 DEF IInv

(* One that leaves everything else alone. *)
LEMMA OwnerOnly ==
  ASSUME IInv, NEW o \in Owners, NEW v \in OwnerType,
         owner' = [owner EXCEPT ![o] = v],
         UNCHANGED <<metas, logs, status, downstream, table, leader>>,
         v.phase = "down" \/ o <= leader,
         Local(o, v), Covered(o, v), Sound(v)
  PROVE  IInv'
<1>1. StatusSound' /\ TableSound'
  BY DEF IInv, StatusSound, TableSound, LoggedUpTo, Logged, Promised
<1>2. status' \in Ts /\ table' \in [r : Ts, c : Ts, barrier : Ts]
  BY DEF IInv, Types
<1> QED  BY <1>1, <1>2, OwnerStep, ZenonT(60)

(* A step of the table or of the garbage collection. *)
LEMMA WorldStep ==
  ASSUME IInv, UNCHANGED <<metas, status, owner, leader>>,
         logs' \in SUBSET Ts, \A ts \in logs : ts \in logs' \/ \E m \in metas : ts < m.c,
         downstream' \in Ts, downstream' >= downstream,
         table' \in [r : Ts, c : Ts, barrier : Ts], TableSound'
  PROVE  IInv'
<1>1. Types'
  BY DEF IInv, Types
<1>2. \A m \in metas : \E n \in metas' : Covers(n, m)
  BY FileFields DEF IInv, Types, Covers
<1>3. /\ \A R \in Nat : LoggedUpTo(R) => LoggedUpTo(R)'
      /\ \A ts \in Nat : Promised(ts) => Promised(ts)'
  BY <1>2, CoveringKeeps DEF IInv, Types
<1>4. status \in Nat /\ downstream \in Nat /\ downstream' \in Nat
  BY MetaAssumption DEF IInv, Types, Ts
<1>5. ASSUME NEW p \in Owners PROVE (Local(p, owner[p]) /\ Covered(p, owner[p]) /\ Sound(owner[p]))'
  <2>1. owner[p] \in OwnerType /\ Local(p, owner[p]) /\ Covered(p, owner[p]) /\ Sound(owner[p])
    BY DEF IInv, Types
  <2>2. Covered(p, owner[p])'
    BY <2>1, ZenonT(60) DEF Covered
  <2>3. Sound(owner[p])'
    BY <1>3, <1>4, <2>1, OwnerFields DEF Sound
  <2> QED  BY <2>1, <2>2, <2>3
<1>6. FilesSound'
  <2> SUFFICES ASSUME NEW m \in metas PROVE m.c <= m.r /\ m.c <= downstream' /\ LoggedUpTo(m.r)'
    BY DEF FilesSound
  <2>1. m \in File /\ m.c <= m.r /\ m.c <= downstream /\ LoggedUpTo(m.r)
    BY DEF IInv, Types, FilesSound
  <2> QED  BY <1>3, <1>4, <2>1, FileFields
<1>7. StatusSound'
  BY <1>3, <1>4 DEF IInv, StatusSound
<1> QED  BY <1>1, <1>5, <1>6, <1>7 DEF IInv

(* What the invariant says of an owner that is up. *)
LEMMA OwnerUp ==
  ASSUME IInv, NEW o \in Owners
  PROVE  /\ owner[o] \in OwnerType /\ Local(o, owner[o]) /\ Covered(o, owner[o]) /\ Sound(owner[o])
         /\ owner[o].phase # "down" => o <= leader
         /\ o \in Nat /\ leader \in Nat
BY MetaAssumption DEF IInv, Types, Owners

(* An owner that learns more of the tables keeps what it has of the files. *)
LEMMA LocalGrows ==
  ASSUME NEW o \in Owners, NEW w \in OwnerType, NEW v \in OwnerType,
         Local(o, w), w.phase # "down", v.phase = w.phase, v.flushed = w.flushed, v.meta = w.meta,
         v.preMetaFile = w.preMetaFile, v.toRemove = w.toRemove, Covers(v.unflushed, w.unflushed),
         v.unflushed.c <= v.unflushed.r,
         v.tick # "idle" => v.wm.c >= 1 /\ v.wm.c <= v.wm.r /\ v.wm.r <= v.unflushed.r
  PROVE  Local(o, v)
<1>1. \A p, q, r \in Pair : Covers(p, q) /\ Covers(q, r) => Covers(p, r)
  BY MetaAssumption DEF Covers, Pair
<1>2. Covers(v.unflushed, w.flushed) /\ v.unflushed.c >= 1
  BY <1>1, OwnerFields DEF Local, Covers
<1>3. w.phase \in {"initRead", "read"} =>
        /\ w.meta.c <= v.unflushed.c
        /\ w.phase = "read" => w.meta.c > w.flushed.c \/ v.unflushed.r > w.flushed.r
  BY OwnerFields DEF Local, Covers
<1>4. w.phase \in {"initWrite", "write", "initWritten", "written"} => Covers(v.unflushed, w.meta)
  BY <1>1, OwnerFields, ZenonT(60) DEF Local
<1>5. \A x \in w.toRemove : Covers(v.unflushed, x)
  BY OwnerFields, FileFields DEF Local, Covers
<1> QED  BY <1>2, <1>3, <1>4, <1>5, ZenonT(60) DEF Local

LEMMA ReadCheckpointStep ==
  ASSUME IInv, NEW o \in Owners, ReadCheckpoint(o)
  PROVE  IInv'
<1> DEFINE w == owner[o]
           v == [w EXCEPT !.meta = [w.meta EXCEPT !.c = w.unflushed.c],
                          !.phase = IF w.phase = "init" THEN "initRead" ELSE "read"]
<1>1. w \in OwnerType /\ Local(o, w) /\ Covered(o, w) /\ Sound(w) /\ w.phase \in {"init", "running"}
      /\ o <= leader /\ (w.phase = "init" \/ w.unflushed # w.flushed)
  BY OwnerUp DEF ReadCheckpoint
<1>2. v \in OwnerType
  BY <1>1, ZenonT(60) DEF OwnerType, Pair, InitPhases, FlushedPhases
<1>3. owner' = [owner EXCEPT ![o] = v]
  BY <1>1, ZenonT(60) DEF ReadCheckpoint, IInv, Types, OwnerType, Pair
<1> HIDE DEF w
<1>4. /\ v.phase = IF w.phase = "init" THEN "initRead" ELSE "read"
      /\ v.meta.c = w.unflushed.c /\ v.unflushed = w.unflushed /\ v.flushed = w.flushed
      /\ v.preMetaFile = w.preMetaFile /\ v.toRemove = w.toRemove /\ v.tick = w.tick /\ v.wm = w.wm
  BY <1>1 DEF OwnerType, Pair
<1> HIDE DEF v
<1>5. w.phase # "init" => w.unflushed.c > w.flushed.c \/ w.unflushed.r > w.flushed.r
  <2> SUFFICES ASSUME w.phase # "init" PROVE w.unflushed.c > w.flushed.c \/ w.unflushed.r > w.flushed.r
    OBVIOUS
  <2>1. w.unflushed.c # w.flushed.c \/ w.unflushed.r # w.flushed.r
    BY <1>1, OwnerFields DEF Pair
  <2> QED  BY <1>1, <2>1, OwnerFields DEF Local, Covers
<1>6. Local(o, v)
  BY <1>1, <1>4, <1>5, OwnerFields, FileFields DEF Local, InitPhases, FlushedPhases, Covers
<1>7. Covered(o, v) /\ Sound(v)
  BY <1>1, <1>4, ZenonT(60) DEF Covered, Sound, FlushedPhases
<1> QED  BY <1>1, <1>2, <1>3, <1>6, <1>7, OwnerOnly, ZenonT(60) DEF ReadCheckpoint

LEMMA ReadResolvedStep ==
  ASSUME IInv, NEW o \in Owners, ReadResolved(o)
  PROVE  IInv'
<1> DEFINE w == owner[o]
           v == [w EXCEPT !.meta = [w.meta EXCEPT !.r = w.unflushed.r],
                          !.phase = IF w.phase = "initRead" THEN "initWrite" ELSE "write"]
<1>1. w \in OwnerType /\ Local(o, w) /\ Covered(o, w) /\ Sound(w) /\ w.phase \in {"initRead", "read"}
      /\ o <= leader
  BY OwnerUp DEF ReadResolved
<1>2. v \in OwnerType
  BY <1>1, ZenonT(60) DEF OwnerType, Pair, InitPhases, FlushedPhases
<1>3. owner' = [owner EXCEPT ![o] = v]
  BY <1>1, ZenonT(60) DEF ReadResolved, metaResolved, IInv, Types, OwnerType, Pair
<1> HIDE DEF w
<1>4. /\ v.phase = IF w.phase = "initRead" THEN "initWrite" ELSE "write"
      /\ v.meta.c = w.meta.c /\ v.meta.r = w.unflushed.r
      /\ v.unflushed = w.unflushed /\ v.flushed = w.flushed
      /\ v.preMetaFile = w.preMetaFile /\ v.toRemove = w.toRemove /\ v.tick = w.tick /\ v.wm = w.wm
  BY <1>1 DEF OwnerType, Pair
<1> HIDE DEF v
<1>5. v.phase = "write" => v.meta # v.flushed
  BY <1>1, <1>4, OwnerFields DEF Local
<1>6. Local(o, v)
  BY <1>1, <1>4, <1>5, OwnerFields, FileFields DEF Local, InitPhases, FlushedPhases, Covers
<1>7. Covered(o, v) /\ Sound(v)
  BY <1>1, <1>4, ZenonT(60) DEF Covered, Sound, FlushedPhases
<1> QED  BY <1>1, <1>2, <1>3, <1>6, <1>7, OwnerOnly, ZenonT(60) DEF ReadResolved

(* A step of one owner that replaces files by files that cover them. *)
LEMMA FilesChange ==
  ASSUME IInv, NEW o \in Owners, NEW v \in OwnerType,
         owner' = [owner EXCEPT ![o] = v],
         UNCHANGED <<logs, status, downstream, table, leader>>,
         o <= leader, metas' \in SUBSET File,
         \A m \in metas : \E n \in metas' : Covers(n, m),
         \A m \in metas' \ metas : m.o <= leader /\ m.c <= m.r /\ m.c <= downstream /\ LoggedUpTo(m.r),
         \A p \in Owners \ {o} : Covered(p, owner[p])',
         Local(o, v), Covered(o, v)', Sound(v)
  PROVE  IInv'
<1>1. Types'
  <2>1. owner' \in [Owners -> OwnerType]
    BY DEF IInv, Types
  <2>2. \A p \in Owners : p > leader => owner'[p].phase = "down"
    BY MetaAssumption DEF IInv, Types, Owners
  <2>3. \A m \in metas' : m.o <= leader
    BY DEF IInv, Types
  <2> QED  BY <2>1, <2>2, <2>3 DEF IInv, Types
<1>2. /\ \A R \in Nat : LoggedUpTo(R) => LoggedUpTo(R)'
      /\ \A ts \in Nat : Promised(ts) => Promised(ts)'
  BY CoveringKeeps, ZenonT(60) DEF IInv, Types
<1>3. \A u \in OwnerType : Sound(u) => Sound(u)'
  BY <1>2, OwnerFields, ZenonT(60) DEF Sound
<1>4. ASSUME NEW p \in Owners PROVE (Local(p, owner[p]) /\ Covered(p, owner[p]) /\ Sound(owner[p]))'
  <2>1. owner'[p] = IF p = o THEN v ELSE owner[p]
    BY DEF IInv, Types
  <2>2. owner[p] \in OwnerType /\ Local(p, owner[p]) /\ Sound(owner[p])
    BY ZenonT(60) DEF IInv, Types
  <2>3. CASE p = o
    <3>1. Covered(o, v)' /\ Sound(v)' /\ owner'[p] = v
      BY <1>3, <2>1, <2>3
    <3>2. Covered(p, owner[p])' /\ Sound(owner[p])'
      BY <2>3, <3>1, ZenonT(60) DEF Covered, Sound
    <3> QED  BY <2>3, <3>1, <3>2
  <2>4. CASE p # o
    <3>1. Covered(p, owner[p])' /\ owner'[p] = owner[p]
      BY <2>1, <2>4
    <3>2. Sound(owner[p])'
      BY <1>2, <2>2, <3>1, OwnerFields, ZenonT(60) DEF Sound
    <3> QED  BY <2>2, <3>1, <3>2, ZenonT(60)
  <2> QED  BY <2>3, <2>4, ZenonT(60)
<1>5. FilesSound'
  <2> SUFFICES ASSUME NEW m \in metas' PROVE m.c <= m.r /\ m.c <= downstream /\ LoggedUpTo(m.r)'
    BY ZenonT(60) DEF FilesSound
  <2>1. m.c <= m.r /\ m.c <= downstream /\ LoggedUpTo(m.r) /\ m.r \in Nat
    BY FileFields, ZenonT(60) DEF IInv, FilesSound
  <2> QED  BY <1>2, <2>1
<1>6. StatusSound' /\ TableSound'
  <2>1. status \in Nat /\ downstream \in Nat /\ table.r \in Nat /\ table.barrier \in Nat
    BY MetaAssumption DEF IInv, Types, Ts
  <2>2. LoggedUpTo(status)' /\ Promised(status)' /\ LoggedUpTo(table.r)'
        /\ Promised(table.barrier)' /\ Promised(downstream)'
    BY <1>2, <2>1, ZenonT(60) DEF IInv, StatusSound, TableSound
  <2> QED  BY <2>2, ZenonT(60) DEF IInv, StatusSound, TableSound
<1> QED  BY <1>1, <1>4, <1>5, <1>6, ZenonT(60) DEF IInv

LEMMA FlushStep ==
  ASSUME IInv, NEW o \in Owners, flush(o)
  PROVE  IInv' /\ metas \subseteq metas'
<1> DEFINE w == owner[o]
<1>1. w \in OwnerType /\ Local(o, w) /\ Covered(o, w) /\ Sound(w) /\ w.phase \in {"initWrite", "write"}
      /\ o <= leader
  BY OwnerUp DEF flush
<1>2. PICK v \in OwnerType :
        v = [w EXCEPT !.phase = IF w.phase = "initWrite" THEN "initWritten" ELSE "written"]
  BY <1>1, ZenonT(60) DEF OwnerType, InitPhases, FlushedPhases
<1>f. PICK f : f = [o |-> o, c |-> w.meta.c, r |-> w.meta.r]
  BY ZenonT(60)
<1>3. owner' = [owner EXCEPT ![o] = v] /\ metas' = metas \cup {f}
  BY <1>1, <1>2, <1>f DEF flush, metaFile, IInv, Types, OwnerType
<1> HIDE DEF w
<1>4. /\ v.phase = IF w.phase = "initWrite" THEN "initWritten" ELSE "written"
      /\ v.meta = w.meta /\ v.unflushed = w.unflushed /\ v.flushed = w.flushed
      /\ v.preMetaFile = w.preMetaFile /\ v.toRemove = w.toRemove /\ v.tick = w.tick /\ v.wm = w.wm
  BY <1>1, <1>2 DEF OwnerType
<1>5. f \in File
  <2>1. w.meta.c >= 1 /\ w.meta.c <= w.meta.r
    BY <1>1, ZenonT(60) DEF Local
  <2> QED  BY <1>1, <1>f, <2>1, OwnerFields, MetaAssumption DEF File, Ts
<1>6. Local(o, v)
  BY <1>1, <1>4, ZenonT(60) DEF Local, InitPhases, FlushedPhases
<1>7. Sound(v)
  BY <1>1, <1>4 DEF Sound
<1>8. Covered(o, v)'
  <2>1. f \in metas' /\ Covers(f, w.meta)
    BY <1>1, <1>3, <1>f, OwnerFields DEF Covers
  <2> QED  BY <1>1, <1>3, <1>4, <1>f, <2>1, ZenonT(60) DEF Covered, FlushedPhases
<1>9. ASSUME NEW p \in Owners \ {o} PROVE Covered(p, owner[p])'
  <2>1. owner'[p] = owner[p] /\ Covered(p, owner[p])
    BY <1>3, ZenonT(60) DEF IInv, Types
  <2> QED  BY <1>3, <2>1, ZenonT(60) DEF Covered
<1>10. f.o <= leader /\ f.c <= f.r /\ f.c <= downstream /\ LoggedUpTo(f.r)
  <2>1. w.meta.r <= w.unflushed.r /\ w.meta.c <= w.unflushed.c /\ w.meta.c <= w.meta.r
    BY <1>1, OwnerFields, ZenonT(60) DEF Local, Covers
  <2>2. downstream \in Nat
    BY MetaAssumption DEF IInv, Types, Ts
  <2>3. LoggedUpTo(w.meta.r)
    BY <1>1, <2>1, OwnerFields DEF Sound, LoggedUpTo
  <2> QED  BY <1>1, <1>f, <2>1, <2>2, <2>3, OwnerFields DEF Sound
<1>11. metas' \in SUBSET File /\ \A m \in metas : \E n \in metas' : Covers(n, m)
  BY <1>3, <1>5, FileFields DEF IInv, Types, Covers
<1>12. IInv'
  BY <1>1, <1>2, <1>3, <1>6, <1>7, <1>8, <1>9, <1>10, <1>11, FilesChange, ZenonT(60) DEF flush
<1> QED  BY <1>3, <1>12

(* A file z of owner o or of a later one that covers the file x, which o   *)
(* deletes, does so for every other owner.                                 *)
LEMMA DeleteKeepsCovered ==
  ASSUME IInv, NEW o \in Owners, NEW p \in Owners \ {o}, owner'[p] = owner[p],
         NEW x \in File, x.o <= o, metas' = metas \ {x},
         NEW z \in metas', z.o >= o, Covers(z, x)
  PROVE  Covered(p, owner[p])'
<1> DEFINE w == owner[p]
<1>1. w \in OwnerType /\ Covered(p, w) /\ p \in Nat /\ o \in Nat /\ metas \subseteq File
  BY OwnerUp, ZenonT(60) DEF IInv, Types
<1> HIDE DEF w
<1>2. w.meta \in Pair /\ w.flushed \in Pair
  BY <1>1, OwnerFields, ZenonT(60)
<1>3. ASSUME NEW q \in Pair, NEW y \in metas, y.o >= p, Covers(y, q)
      PROVE  \E n \in metas' : n.o >= p /\ (n.o > p \/ n = y) /\ Covers(n, q)
  <2>1. CASE y # x
    BY <1>3, <2>1, ZenonT(60)
  <2>2. CASE y = x
    <3>1. z.o > p /\ Covers(z, q)
      BY <1>1, <1>3, <2>2, FileFields DEF Covers, Pair
    <3> QED  BY <1>1, <3>1, FileFields
  <2> QED  BY <2>1, <2>2, ZenonT(60)
<1>4. ASSUME w.phase \in {"initWritten", "written"}
      PROVE  \E n \in metas' : /\ n.o > p \/ n = [o |-> p, c |-> w.meta.c, r |-> w.meta.r]
                               /\ Covers(n, w.meta)
  <2>1. PICK y \in metas : /\ y.o > p \/ y = [o |-> p, c |-> w.meta.c, r |-> w.meta.r]
                           /\ Covers(y, w.meta)
    BY <1>1, <1>4, ZenonT(60) DEF Covered
  <2>2. y.o >= p
    BY <1>1, <2>1, FileFields
  <2>3. PICK n \in metas' : n.o >= p /\ (n.o > p \/ n = y) /\ Covers(n, w.meta)
    BY <1>2, <1>3, <2>1, <2>2, ZenonT(60)
  <2> QED  BY <2>1, <2>3
<1>5. ASSUME w.phase \in FlushedPhases
      PROVE  \E n \in metas' : n.o >= p /\ Covers(n, w.flushed)
  <2>1. PICK y \in metas : y.o >= p /\ Covers(y, w.flushed)
    BY <1>1, <1>5, ZenonT(60) DEF Covered
  <2> QED  BY <1>2, <1>3, <2>1, ZenonT(60)
<1> QED  BY <1>4, <1>5, ZenonT(60) DEF Covered, w

LEMMA PostFlushMetaStep ==
  ASSUME IInv, NEW o \in Owners, postFlushMeta(o)
  PROVE  /\ IInv' /\ metas' \subseteq metas
         /\ \A m \in metas : \E n \in metas' : Covers(n, m)
<1> DEFINE w == owner[o]
<1>1. w \in OwnerType /\ Local(o, w) /\ Covered(o, w) /\ Sound(w) /\ w.phase \in {"initWritten", "written"}
      /\ o <= leader /\ o \in Nat
  BY OwnerUp DEF postFlushMeta
<1>2. PICK f : f = [o |-> o, c |-> w.meta.c, r |-> w.meta.r]
  BY ZenonT(60)
<1>3. f \in File /\ w.meta = [c |-> w.meta.c, r |-> w.meta.r]
  <2> HIDE DEF w
  <2>1. w.meta.c >= 1 /\ w.meta.c <= w.meta.r
    BY <1>1, ZenonT(60) DEF Local
  <2>2. f \in File
    BY <1>1, <1>2, <2>1, OwnerFields, MetaAssumption DEF File, Ts
  <2> QED  BY <1>1, <2>2, OwnerFields DEF Pair
<1>4. PICK v \in OwnerType :
        v = [w EXCEPT !.preMetaFile = {f}, !.meta = Zero, !.flushed = w.meta,
                      !.phase = IF w.phase = "initWritten" THEN "initClean" ELSE "running"]
  <2>1. Zero \in Pair /\ {f} \in SUBSET File
    BY <1>3, MetaAssumption DEF Zero, Pair
  <2>2. w.meta \in Pair /\ w.phase \in {"initWritten", "written"}
    BY <1>1, OwnerFields, ZenonT(60)
  <2> QED  BY <1>1, <2>1, <2>2, ZenonT(60) DEF OwnerType, FlushedPhases
<1>5. Larger(w.flushed.c, w.meta.c) = w.meta.c /\ Larger(w.flushed.r, w.meta.r) = w.meta.r
  <2> HIDE DEF w
  <2>1. Covers(w.meta, w.flushed)
    BY <1>1, ZenonT(60) DEF Local
  <2> QED  BY <1>1, <2>1, OwnerFields DEF Covers, Larger
<1>6. owner' = [owner EXCEPT ![o] = v]
  <2>1. [c |-> Larger(w.flushed.c, w.meta.c), r |-> Larger(w.flushed.r, w.meta.r)] = w.meta
    BY <1>3, <1>5, ZenonT(60)
  <2> QED  BY <1>1, <1>2, <1>4, <2>1, ZenonT(60) DEF postFlushMeta, metaFile, IInv, Types, OwnerType
<1> HIDE DEF w
<1>7. /\ v.phase = IF w.phase = "initWritten" THEN "initClean" ELSE "running"
      /\ v.flushed = w.meta /\ v.unflushed = w.unflushed /\ v.preMetaFile = {f}
      /\ v.toRemove = w.toRemove /\ v.tick = w.tick /\ v.wm = w.wm
  BY <1>1, <1>4 DEF OwnerType
<1>8. Local(o, v)
  BY <1>1, <1>2, <1>7, OwnerFields, FileFields DEF Local, InitPhases, FlushedPhases, Covers
<1>9. Sound(v)
  BY <1>1, <1>7, ZenonT(60) DEF Sound
<1>10. PICK z \in metas : (z.o > o \/ z = f) /\ Covers(z, w.meta)
  BY <1>1, <1>2, ZenonT(60) DEF Covered
<1>11. z \in File /\ z.o >= o
  BY <1>1, <1>2, <1>10, FileFields DEF IInv, Types
<1>12. CASE w.phase = "initWritten"
  <2>1. metas' = metas
    BY <1>1, <1>12, ZenonT(60) DEF postFlushMeta, Local, InitPhases, w
  <2>2. Covered(o, v)'
    BY <1>7, <1>10, <1>11, <1>12, <2>1, ZenonT(60) DEF Covered
  <2>3. ASSUME NEW p \in Owners \ {o} PROVE Covered(p, owner[p])'
    <3>1. owner'[p] = owner[p] /\ Covered(p, owner[p])
      BY <1>6 DEF IInv, Types
    <3> QED  BY <2>1, <3>1, ZenonT(60) DEF Covered
  <2>4. \A m \in metas : \E n \in metas' : Covers(n, m)
    BY <2>1, FileFields DEF IInv, Types, Covers
  <2>5. metas' \in SUBSET File
    BY <2>1, ZenonT(60) DEF IInv, Types
  <2> QED  BY <1>1, <1>6, <1>8, <1>9, <2>1, <2>2, <2>3, <2>4, <2>5, FilesChange, ZenonT(60) DEF postFlushMeta
<1>13. CASE w.phase = "written"
  <2>1. PICK x : x = [o |-> o, c |-> w.flushed.c, r |-> w.flushed.r]
    BY ZenonT(60)
  <2>2. w.preMetaFile = {x}
    BY <1>1, <1>13, <2>1, ZenonT(60) DEF Local, FlushedPhases
  <2>3. metas' = metas \ {x} /\ x \in File
    BY <1>1, <2>2, OwnerFields, ZenonT(60) DEF postFlushMeta, w
  <2>4. Covers(z, x)
    BY <1>1, <1>10, <1>11, <2>1, OwnerFields, FileFields DEF Local, Covers
  <2>5. z # x
    <3>1. CASE z.o > o
      BY <1>1, <1>11, <2>1, <3>1, FileFields
    <3>2. CASE z = f
      <4>1. w.meta # w.flushed
        BY <1>1, <1>13, ZenonT(60) DEF Local
      <4> QED  BY <1>1, <1>2, <2>1, <3>2, <4>1, OwnerFields DEF Pair
    <3> QED  BY <1>10, <3>1, <3>2
  <2>6. z \in metas'
    BY <2>3, <2>5
  <2>7. Covered(o, v)'
    BY <1>7, <1>10, <1>11, <1>13, <2>6, ZenonT(60) DEF Covered
  <2>8. ASSUME NEW p \in Owners \ {o} PROVE Covered(p, owner[p])'
    <3>1. owner'[p] = owner[p]
      BY <1>6 DEF IInv, Types
    <3>2. x.o <= o
      BY <1>1, <2>1
    <3> QED  BY <1>11, <2>3, <2>4, <2>6, <3>1, <3>2, DeleteKeepsCovered, ZenonT(60)
  <2>9. \A m \in metas : \E n \in metas' : Covers(n, m)
    BY <2>3, <2>4, <2>6, FileFields DEF IInv, Types, Covers
  <2>10. metas' \in SUBSET File
    BY <2>3 DEF IInv, Types
  <2> QED  BY <1>1, <1>6, <1>8, <1>9, <2>3, <2>7, <2>8, <2>9, <2>10, FilesChange, ZenonT(60) DEF postFlushMeta
<1> QED  BY <1>1, <1>12, <1>13

LEMMA DeleteOldMetaStep ==
  ASSUME IInv, NEW o \in Owners, DeleteOldMeta(o)
  PROVE  /\ IInv' /\ metas' \subseteq metas
         /\ \A m \in metas : \E n \in metas' : Covers(n, m)
<1> DEFINE w == owner[o]
<1>1. w \in OwnerType /\ Local(o, w) /\ Covered(o, w) /\ Sound(w) /\ w.phase = "initClean"
      /\ o <= leader /\ o \in Nat
  BY OwnerUp DEF DeleteOldMeta
<1>2. PICK x \in w.toRemove :
        metas' = metas \ {x} /\ owner' = [owner EXCEPT ![o].toRemove = @ \ {x}]
  BY ZenonT(60) DEF DeleteOldMeta
<1>3. x \in File /\ x.o < o /\ Covers(w.flushed, x)
  BY <1>1, <1>2, OwnerFields DEF Local, FlushedPhases
<1>4. PICK v \in OwnerType : v = [w EXCEPT !.toRemove = w.toRemove \ {x}]
  BY <1>1, ZenonT(60) DEF OwnerType
<1>5. owner' = [owner EXCEPT ![o] = v]
  BY <1>2, <1>4 DEF IInv, Types, OwnerType
<1> HIDE DEF w
<1>6. /\ v.phase = w.phase /\ v.flushed = w.flushed /\ v.unflushed = w.unflushed
      /\ v.preMetaFile = w.preMetaFile /\ v.tick = w.tick /\ v.wm = w.wm
      /\ v.toRemove \subseteq w.toRemove
  BY <1>1, <1>4 DEF OwnerType
<1>7. Local(o, v)
  BY <1>1, <1>6, ZenonT(60) DEF Local, InitPhases, FlushedPhases
<1>8. Sound(v)
  BY <1>1, <1>6, ZenonT(60) DEF Sound
<1>9. PICK z \in metas : z.o >= o /\ Covers(z, w.flushed)
  BY <1>1, ZenonT(60) DEF Covered, FlushedPhases
<1>10. z \in File /\ z # x /\ z \in metas' /\ Covers(z, x)
  <2>1. z \in File
    BY ZenonT(60) DEF IInv, Types
  <2>2. z # x
    BY <1>1, <1>3, <1>9, <2>1, FileFields
  <2>3. Covers(z, x)
    BY <1>1, <1>3, <1>9, <2>1, OwnerFields, FileFields DEF Covers
  <2> QED  BY <1>2, <2>1, <2>2, <2>3
<1>11. Covered(o, v)'
  BY <1>1, <1>6, <1>9, <1>10, ZenonT(60) DEF Covered
<1>12. ASSUME NEW p \in Owners \ {o} PROVE Covered(p, owner[p])'
  <2>1. owner'[p] = owner[p] /\ x.o <= o
    BY <1>1, <1>3, <1>5, FileFields DEF IInv, Types
  <2> QED  BY <1>2, <1>3, <1>9, <1>10, <2>1, DeleteKeepsCovered
<1>13. \A m \in metas : \E n \in metas' : Covers(n, m)
  BY <1>2, <1>10, FileFields DEF IInv, Types, Covers
<1>14. metas' \in SUBSET File
  BY <1>2 DEF IInv, Types
<1> QED  BY <1>1, <1>2, <1>5, <1>7, <1>8, <1>11, <1>12, <1>13, <1>14, FilesChange, ZenonT(60) DEF DeleteOldMeta

LEMMA RunningStep ==
  ASSUME IInv, NEW o \in Owners, Running(o)
  PROVE  IInv'
<1> DEFINE w == owner[o]  v == [w EXCEPT !.phase = "running"]
<1>1. w \in OwnerType /\ Local(o, w) /\ Covered(o, w) /\ Sound(w) /\ w.phase = "initClean"
      /\ o <= leader /\ w.toRemove = {}
  BY OwnerUp DEF Running
<1>2. v \in OwnerType /\ owner' = [owner EXCEPT ![o] = v]
  BY <1>1 DEF Running, OwnerType, FlushedPhases, IInv, Types
<1> HIDE DEF w
<1>3. /\ v.phase = "running" /\ v.flushed = w.flushed /\ v.unflushed = w.unflushed
      /\ v.preMetaFile = w.preMetaFile /\ v.tick = w.tick /\ v.wm = w.wm /\ v.toRemove = {}
  BY <1>1 DEF OwnerType
<1> HIDE DEF v
<1>4. Local(o, v) /\ Covered(o, v) /\ Sound(v)
  BY <1>1, <1>3, ZenonT(60) DEF Local, Covered, Sound, InitPhases, FlushedPhases
<1> QED  BY <1>1, <1>2, <1>4, OwnerOnly, ZenonT(60) DEF Running

LEMMA UpdateMetaResolvedStep ==
  ASSUME IInv, NEW o \in Owners, UpdateMetaResolved(o)
  PROVE  IInv'
<1> DEFINE w == owner[o]
           u == [c |-> w.unflushed.c, r |-> Larger(w.unflushed.r, table.r)]
           v == [w EXCEPT !.tick = "update", !.wm = [c |-> table.c, r |-> table.r], !.unflushed = u]
<1>1. w \in OwnerType /\ Local(o, w) /\ Covered(o, w) /\ Sound(w) /\ o <= leader
      /\ w.phase \in {"running", "read", "write", "written"}
  BY OwnerUp DEF UpdateMetaResolved, IsRunning
<1>2. /\ table.c \in Ts /\ table.r \in Ts /\ table.c <= table.r /\ table.c <= downstream
      /\ LoggedUpTo(table.r) /\ table.r \in Nat /\ table.c \in Nat /\ table.c >= 1
      /\ table.r <= MaxTs /\ table.c <= MaxTs /\ MaxTs \in Nat
  BY MetaAssumption DEF IInv, Types, TableSound, Ts
<1>3. u \in Pair /\ [c |-> table.c, r |-> table.r] \in Pair
  <2> HIDE DEF w
  <2> QED  BY <1>1, <1>2, OwnerFields DEF Pair, Larger
<1>4. v \in OwnerType
  BY <1>1, <1>3, ZenonT(60) DEF OwnerType
<1>5. owner' = [owner EXCEPT ![o] = v]
  <2>1. w.unflushed \in Pair
    BY <1>1, OwnerFields, ZenonT(60)
  <2>2. [w.unflushed EXCEPT !.r = Larger(w.unflushed.r, table.r)] = u
    BY <2>1 DEF Pair
  <2> QED  BY <1>1, <2>2, ZenonT(60) DEF UpdateMetaResolved, IInv, Types, OwnerType
<1> HIDE DEF w
<1>6. /\ v.phase = w.phase /\ v.flushed = w.flushed /\ v.unflushed = u /\ v.meta = w.meta
      /\ v.preMetaFile = w.preMetaFile /\ v.tick = "update" /\ v.toRemove = w.toRemove
      /\ v.wm.c = table.c /\ v.wm.r = table.r
  BY <1>1 DEF OwnerType
<1>7. /\ u.c = w.unflushed.c /\ u.r >= w.unflushed.r /\ u.r >= table.r
      /\ u.r = w.unflushed.r \/ u.r = table.r
  BY <1>1, <1>2, OwnerFields DEF Larger
<1>8. u.r \in Nat
  BY <1>1, <1>2, <1>7, OwnerFields, ZenonT(60)
<1> HIDE DEF v, u
<1>9. Local(o, v)
  <2>1. Covers(u, w.unflushed) /\ u.c <= u.r /\ w.phase # "down"
    <3>1. w.unflushed.c <= w.unflushed.r /\ w.phase # "down"
      BY <1>1, ZenonT(60) DEF Local
    <3> QED  BY <1>1, <1>2, <1>7, <1>8, <3>1, OwnerFields DEF Covers
  <2>2. v.wm.c >= 1 /\ v.wm.c <= v.wm.r /\ v.wm.r <= u.r
    BY <1>2, <1>6, <1>7
  <2> QED  BY <1>1, <1>4, <1>6, <2>1, <2>2, LocalGrows, ZenonT(60)
<1>10. Covered(o, v)
  BY <1>1, <1>6, ZenonT(60) DEF Covered
<1>11. Sound(v)
  BY <1>1, <1>2, <1>6, <1>7, ZenonT(60) DEF Sound
<1> QED  BY <1>1, <1>4, <1>5, <1>9, <1>10, <1>11, OwnerOnly, ZenonT(60) DEF UpdateMetaResolved

LEMMA UpdateMetaCheckpointStep ==
  ASSUME IInv, NEW o \in Owners, UpdateMetaCheckpoint(o)
  PROVE  IInv'
<1> DEFINE w == owner[o]
           u == [c |-> Larger(w.unflushed.c, w.wm.c), r |-> w.unflushed.r]
           v == [w EXCEPT !.tick = "limit", !.unflushed = u]
<1>1. w \in OwnerType /\ Local(o, w) /\ Covered(o, w) /\ Sound(w) /\ o <= leader
      /\ w.phase # "down" /\ w.tick = "update" /\ downstream \in Nat
  BY OwnerUp, MetaAssumption DEF UpdateMetaCheckpoint, IInv, Types, Ts
<1>2. u \in Pair
  <2> HIDE DEF w
  <2> QED  BY <1>1, OwnerFields, ZenonT(60) DEF Pair, Larger
<1>3. v \in OwnerType
  BY <1>1, <1>2, ZenonT(60) DEF OwnerType
<1>4. owner' = [owner EXCEPT ![o] = v]
  <2>1. w.unflushed \in Pair
    BY <1>1, OwnerFields, ZenonT(60)
  <2>2. [w.unflushed EXCEPT !.c = Larger(w.unflushed.c, w.wm.c)] = u
    BY <2>1 DEF Pair
  <2> QED  BY <1>1, <2>2, ZenonT(60) DEF UpdateMetaCheckpoint, IInv, Types, OwnerType
<1> HIDE DEF w
<1>5. /\ v.phase = w.phase /\ v.flushed = w.flushed /\ v.unflushed = u /\ v.meta = w.meta
      /\ v.preMetaFile = w.preMetaFile /\ v.tick = "limit" /\ v.toRemove = w.toRemove /\ v.wm = w.wm
  BY <1>1 DEF OwnerType
<1>6. /\ u.r = w.unflushed.r /\ u.c >= w.unflushed.c /\ u.c >= w.wm.c /\ u.c \in Nat
      /\ u.c = w.unflushed.c \/ u.c = w.wm.c
  <2>1. \A a, b \in Nat : /\ Larger(a, b) >= a /\ Larger(a, b) >= b /\ Larger(a, b) \in Nat
                          /\ Larger(a, b) \in {a, b}
    BY DEF Larger
  <2>2. w.unflushed.c \in Nat /\ w.wm.c \in Nat
    BY <1>1, OwnerFields
  <2>3. u.r = w.unflushed.r /\ u.c = Larger(w.unflushed.c, w.wm.c)
    OBVIOUS
  <2> HIDE DEF u
  <2> QED  BY <2>1, <2>2, <2>3, ZenonT(60)
<1>7. u.c <= u.r /\ u.c <= downstream
  <2>1. w.wm.c <= w.wm.r /\ w.wm.r <= w.unflushed.r /\ w.unflushed.c <= w.unflushed.r
    BY <1>1, ZenonT(60) DEF Local
  <2>2. w.unflushed.c <= downstream /\ w.wm.c <= downstream
    BY <1>1, ZenonT(60) DEF Sound
  <2> QED  BY <1>1, <1>6, <2>1, <2>2, OwnerFields
<1> HIDE DEF v, u
<1>8. Local(o, v)
  <2>1. Covers(u, w.unflushed)
    BY <1>1, <1>6, OwnerFields DEF Covers
  <2>2. w.wm.c >= 1 /\ w.wm.c <= w.wm.r /\ w.wm.r <= u.r
    BY <1>1, <1>6, ZenonT(60) DEF Local
  <2> QED  BY <1>1, <1>3, <1>5, <1>7, <2>1, <2>2, LocalGrows, ZenonT(60)
<1>9. Covered(o, v)
  BY <1>1, <1>5, ZenonT(60) DEF Covered
<1>10. Sound(v)
  BY <1>1, <1>5, <1>6, <1>7, ZenonT(60) DEF Sound
<1> QED  BY <1>1, <1>3, <1>4, <1>8, <1>9, <1>10, OwnerOnly, ZenonT(60) DEF UpdateMetaCheckpoint

LEMMA OwnerCrashesStep ==
  ASSUME IInv, NEW o \in Owners, OwnerCrashes(o)
  PROVE  IInv'
<1>1. Zero \in Pair /\ Zero.c = 0 /\ Zero.r = 0 /\ downstream \in Nat
  BY MetaAssumption DEF Zero, Pair, IInv, Types, Ts
<1>2. Idle \in OwnerType
  BY <1>1, ZenonT(60) DEF Idle, OwnerType
<1>3. Idle.phase = "down" /\ Idle.unflushed = Zero /\ Idle.flushed = Zero /\ Idle.tick = "idle"
      /\ Idle.toRemove = {}
  BY ZenonT(60) DEF Idle
<1>4. Local(o, Idle)
  BY <1>1, <1>3 DEF Local, Covers, InitPhases, FlushedPhases
<1>5. Covered(o, Idle) /\ Sound(Idle)
  BY <1>1, <1>3 DEF Covered, Sound, FlushedPhases, LoggedUpTo
<1> QED  BY <1>2, <1>4, <1>5, <1>3, OwnerOnly, ZenonT(60) DEF OwnerCrashes

LEMMA AdvanceCheckpointStep ==
  ASSUME IInv, NEW o \in Owners, NEW arrives \in BOOLEAN, NEW written \in BOOLEAN,
         AdvanceCheckpoint(o, arrives, written)
  PROVE  IInv'
<1> DEFINE w == owner[o]
           v == [w EXCEPT !.tick = "idle", !.wm = Zero]
           limit == limitBarrierWithRedo(o)
<1>1. w \in OwnerType /\ Local(o, w) /\ Covered(o, w) /\ Sound(w) /\ o <= leader
      /\ w.phase # "down" /\ w.tick = "limit"
  BY OwnerUp DEF AdvanceCheckpoint
<1>2. v \in OwnerType /\ owner' = [owner EXCEPT ![o] = v]
  <2>1. Zero \in Pair
    BY MetaAssumption DEF Zero, Pair
  <2> QED  BY <1>1, <2>1, ZenonT(60) DEF AdvanceCheckpoint, OwnerType, IInv, Types
<1> HIDE DEF w
<1>3. /\ v.phase = w.phase /\ v.flushed = w.flushed /\ v.unflushed = w.unflushed /\ v.meta = w.meta
      /\ v.preMetaFile = w.preMetaFile /\ v.tick = "idle" /\ v.toRemove = w.toRemove
  BY <1>1 DEF OwnerType
<1> HIDE DEF v
<1>4. Local(o, v) /\ Covered(o, v) /\ Sound(v)
  BY <1>1, <1>3, ZenonT(60) DEF Local, Covered, Sound
<1>5. limit \in Nat /\ limit <= w.flushed.r /\ limit <= w.wm.r /\ limit <= MaxTs
  BY <1>1, OwnerFields DEF limitBarrierWithRedo, Smaller, w
<1> HIDE DEF limit
<1>6. Promised(w.flushed.r)
  <2>1. CASE w.phase \in FlushedPhases
    <3>1. PICK y \in metas : Covers(y, w.flushed)
      BY <1>1, <2>1, ZenonT(60) DEF Covered
    <3> QED  BY <3>1, ZenonT(60) DEF Promised, Covers, IInv, Types
  <2>2. CASE w.phase \in InitPhases
    <3>1. w.flushed = Zero
      BY <1>1, <2>2, ZenonT(60) DEF Local
    <3> QED  BY <3>1 DEF Zero, Promised, startTs
  <2> QED  BY <1>1, <2>1, <2>2, ZenonT(60) DEF OwnerType
<1>7. ASSUME NEW t \in Nat, t <= limit PROVE Promised(t)
  <2>1. t <= w.flushed.r /\ w.flushed.r \in Nat
    BY <1>1, <1>5, <1>7, OwnerFields
  <2>2. metas \subseteq File
    BY ZenonT(60) DEF IInv, Types
  <2> QED  BY <1>6, <2>1, <2>2, FileFields DEF Promised, startTs
<1>8. table' \in [r : Ts, c : Ts, barrier : Ts] /\ TableSound'
  <2>1. table \in [r : Ts, c : Ts, barrier : Ts] /\ TableSound /\ table.barrier \in Nat
        /\ MaxTs \in Nat
    BY MetaAssumption DEF IInv, Types, Ts
  <2>2. CASE table' = table
    BY <2>1, <2>2 DEF AdvanceCheckpoint, TableSound, Promised, LoggedUpTo, Logged
  <2>3. CASE table' = [table EXCEPT !.barrier = Larger(@, limit)]
    <3>1. Larger(table.barrier, limit) \in Ts /\ Promised(Larger(table.barrier, limit))
      BY <1>5, <1>7, <2>1 DEF Larger, Ts, TableSound
    <3>2. table'.r = table.r /\ table'.c = table.c /\ table'.barrier = Larger(table.barrier, limit)
      BY <2>1, <2>3
    <3>3. table' \in [r : Ts, c : Ts, barrier : Ts]
      BY <2>1, <2>3, <3>1
    <3> QED  BY <2>1, <3>1, <3>2, <3>3 DEF AdvanceCheckpoint, TableSound, Promised, LoggedUpTo, Logged
  <2> QED  BY <2>2, <2>3 DEF AdvanceCheckpoint, limit
<1>9. status' \in Ts /\ StatusSound'
  <2> DEFINE t == Smaller(w.wm.c, limit)
  <2>1. status \in Ts /\ StatusSound /\ status \in Nat /\ downstream \in Nat
        /\ MaxTs \in Nat
    BY MetaAssumption DEF IInv, Types, Ts
  <2>2. t \in Nat /\ t <= w.wm.c /\ t <= limit /\ t <= MaxTs
    BY <1>1, <1>5, OwnerFields DEF Smaller
  <2>3. t <= downstream /\ LoggedUpTo(t) /\ Promised(t)
    <3>1. w.wm.c <= downstream /\ LoggedUpTo(w.unflushed.r) /\ w.wm.c <= w.wm.r /\ w.wm.r <= w.unflushed.r
      BY <1>1, ZenonT(60) DEF Local, Sound
    <3>2. t <= downstream /\ t <= w.unflushed.r
      BY <1>1, <2>1, <2>2, <3>1, OwnerFields
    <3> HIDE DEF t
    <3> QED  BY <1>1, <1>7, <2>2, <3>1, <3>2, OwnerFields DEF LoggedUpTo
  <2>4. status' = status \/ status' = Larger(status, t)
    BY DEF AdvanceCheckpoint, limit, w
  <2> HIDE DEF t
  <2>5. status' \in Ts /\ status' <= downstream /\ LoggedUpTo(status') /\ Promised(status')
    BY <2>1, <2>2, <2>3, <2>4 DEF Larger, Ts, StatusSound
  <2> QED  BY <2>5, ZenonT(60) DEF AdvanceCheckpoint, StatusSound, Promised, LoggedUpTo, Logged
<1> QED  BY <1>1, <1>2, <1>4, <1>8, <1>9, OwnerStep, ZenonT(60) DEF AdvanceCheckpoint

LEMMA GCStep ==
  ASSUME IInv, NEW o \in Owners, bgGC(o)
  PROVE  IInv'
<1> DEFINE w == owner[o]
<1>1. w \in OwnerType /\ Covered(o, w) /\ w.phase \in FlushedPhases
  BY OwnerUp, ZenonT(60) DEF bgGC, IsRunning, FlushedPhases
<1>2. PICK y \in metas : Covers(y, w.flushed)
  BY <1>1, ZenonT(60) DEF Covered
<1>3. \A ts \in logs : ts \in logs' \/ \E m \in metas : ts < m.c
  <2> SUFFICES ASSUME NEW ts \in logs, ts \notin logs' PROVE ts < y.c
    OBVIOUS
  <2>1. ts \in Nat /\ y \in File
    BY MetaAssumption DEF IInv, Types, Ts
  <2>2. ts < w.flushed.c
    BY ZenonT(60) DEF bgGC, shouldRemoved
  <2> QED  BY <1>1, <1>2, <2>1, <2>2, OwnerFields, FileFields DEF Covers
<1>4. \A m \in metas : \E n \in metas' : Covers(n, m)
  BY FileFields DEF IInv, Types, Covers, bgGC
<1>5. /\ \A R \in Nat : LoggedUpTo(R) => LoggedUpTo(R)'
      /\ \A ts \in Nat : Promised(ts) => Promised(ts)'
  BY <1>3, <1>4, CoveringKeeps, ZenonT(60) DEF IInv, Types, bgGC
<1>6. TableSound'
  BY <1>5, MetaAssumption DEF IInv, Types, TableSound, Ts, bgGC
<1>7. /\ UNCHANGED <<metas, status, owner, leader, downstream, table>>
      /\ logs' \in SUBSET Ts /\ downstream' \in Ts
      /\ table' \in [r : Ts, c : Ts, barrier : Ts]
  BY ZenonT(60) DEF bgGC, IInv, Types
<1>8. downstream' >= downstream
  BY <1>7, MetaAssumption DEF Ts
<1> QED  BY <1>3, <1>6, <1>7, <1>8, WorldStep

LEMMA TableLogsStep ==
  ASSUME IInv, TableLogs
  PROVE  IInv'
<1>1. /\ UNCHANGED <<metas, status, owner, leader, downstream>>
      /\ table \in [r : Ts, c : Ts, barrier : Ts] /\ downstream \in Ts /\ MaxTs \in Nat
      /\ table.r + 1 \in Ts /\ logs \in SUBSET Ts /\ metas \in SUBSET File
  BY MetaAssumption DEF TableLogs, IInv, Types, Ts
<1>2. /\ logs' \in SUBSET Ts /\ logs' = logs \cup {table.r + 1}
      /\ downstream' \in Ts /\ downstream' >= downstream
      /\ table' \in [r : Ts, c : Ts, barrier : Ts]
      /\ table'.r = table.r + 1 /\ table'.c = table.c /\ table'.barrier = table.barrier
  BY <1>1 DEF TableLogs, Ts
<1>3. \A m \in metas : \E n \in metas' : Covers(n, m)
  BY <1>1, FileFields DEF Covers
<1>4. /\ \A ts \in Nat : Logged(ts) => Logged(ts)'
      /\ \A ts \in Nat : Promised(ts) => Promised(ts)'
  BY <1>1, <1>2, <1>3, CoveringKeeps, ZenonT(60)
<1>5. Logged(table.r)'
  BY <1>1, <1>2, ZenonT(60) DEF Logged
<1>6. LoggedUpTo(table.r)
  BY DEF IInv, TableSound
<1>7. LoggedUpTo(table.r)'
  <2> SUFFICES ASSUME NEW ts \in 2..table'.r PROVE Logged(ts)'
    BY DEF LoggedUpTo
  <2>1. ts \in Nat /\ (ts = table'.r \/ ts \in 2..table.r)
    BY <1>1, <1>2 DEF Ts
  <2> QED  BY <1>4, <1>5, <1>6, <2>1 DEF LoggedUpTo
<1>8. TableSound'
  <2>1. table.barrier \in Nat /\ downstream \in Nat /\ table.c \in Nat /\ table.r \in Nat
    BY <1>1 DEF Ts
  <2> QED  BY <1>1, <1>2, <1>4, <1>7, <2>1 DEF TableSound, IInv, Promised
<1> QED  BY <1>1, <1>2, <1>8, WorldStep, ZenonT(60)

LEMMA TableWritesStep ==
  ASSUME IInv, TableWrites
  PROVE  IInv'
<1>1. /\ UNCHANGED <<metas, logs, status, owner, leader>> /\ MaxTs \in Nat
      /\ table \in [r : Ts, c : Ts, barrier : Ts] /\ downstream \in Ts
      /\ logs \in SUBSET Ts /\ metas \in SUBSET File
  BY MetaAssumption DEF TableWrites, IInv, Types
<1>2. /\ table.r \in Nat /\ table.c \in Nat /\ table.barrier \in Nat /\ downstream \in Nat
      /\ table.c + 1 <= table.r /\ table.c + 1 <= table.barrier /\ table.c + 1 \in Ts
  BY <1>1 DEF TableWrites, Smaller, Ts
<1>3. /\ table' = [table EXCEPT !.c = table.c + 1]
      /\ downstream' = Larger(downstream, table.c + 1)
  BY DEF TableWrites
<1>4. /\ table' \in [r : Ts, c : Ts, barrier : Ts]
      /\ table'.r = table.r /\ table'.c = table.c + 1 /\ table'.barrier = table.barrier
  BY <1>1, <1>2, <1>3
<1>5. downstream' \in Ts /\ downstream' >= downstream /\ downstream' >= table.c + 1
  BY <1>1, <1>2, <1>3 DEF Larger, Ts
<1>6. TableSound
  BY DEF IInv
<1>7. Promised(table.c + 1)
  BY <1>1, <1>2, <1>6, FileFields DEF TableSound, Promised, startTs
<1>8. Promised(downstream')
  BY <1>3, <1>6, <1>7 DEF Larger, TableSound
<1>9. TableSound'
  BY <1>1, <1>2, <1>4, <1>5, <1>6, <1>8 DEF TableSound, Promised, LoggedUpTo, Logged
<1>10. \A ts \in logs : ts \in logs'
  BY <1>1
<1> QED  BY <1>1, <1>4, <1>5, <1>9, <1>10, WorldStep, ZenonT(60)

LEMMA TableRestartsStep ==
  ASSUME IInv, TableRestarts
  PROVE  IInv'
<1>1. /\ UNCHANGED <<metas, logs, status, owner, leader, downstream>>
      /\ status \in Ts /\ downstream \in Ts /\ logs \in SUBSET Ts /\ MaxTs \in Nat
  BY MetaAssumption, ZenonT(60) DEF TableRestarts, IInv, Types
<1>2. /\ table' \in [r : Ts, c : Ts, barrier : Ts]
      /\ table'.r = status /\ table'.c = status /\ table'.barrier = status
  BY <1>1, ZenonT(60) DEF TableRestarts
<1>3. downstream' >= downstream
  BY <1>1 DEF Ts
<1>4. StatusSound /\ TableSound /\ status <= status
  BY <1>1 DEF IInv, Ts
<1>5. TableSound'
  BY <1>1, <1>2, <1>4, ZenonT(60) DEF StatusSound, TableSound, Promised, LoggedUpTo, Logged
<1> QED  BY <1>1, <1>2, <1>3, <1>5, WorldStep

LEMMA StartOwnerStep ==
  ASSUME IInv, StartOwner
  PROVE  IInv'
<1> DEFINE ms == metas \cup {startMeta(status)}
           o == leader + 1
<1>1. /\ UNCHANGED <<metas, logs, status, downstream, table>>
      /\ status \in Ts /\ downstream \in Ts /\ metas \in SUBSET File /\ MaxTs \in Nat
      /\ leader \in Nat /\ leader' = o /\ o \in Owners /\ leader' \in 0..MaxOwners
      /\ owner \in [Owners -> OwnerType]
  BY MetaAssumption DEF StartOwner, IInv, Types, Owners
<1>2. PICK u : u = ParseMeta(ms)
  OBVIOUS
<1>3. \A m \in ms : m.c \in Ts /\ m.r \in Ts /\ m.c <= m.r /\ m.c <= downstream /\ LoggedUpTo(m.r)
  BY <1>1, FileFields DEF IInv, FilesSound, StatusSound, startMeta, Ts
<1>4. /\ u \in Pair /\ u.c \in Ts /\ u.r \in Ts
      /\ (\E m \in ms : u.c = m.c) /\ (\E m \in ms : u.r = m.r)
      /\ \A m \in ms : Covers(u, m)
  <2>1. ms # {} /\ \A m \in ms : m.c \in Ts /\ m.r \in Ts
    BY <1>3
  <2> HIDE DEF ms
  <2>2. /\ u.c \in Ts /\ u.r \in Ts /\ u = [c |-> u.c, r |-> u.r]
        /\ (\E m \in ms : u.c = m.c) /\ (\E m \in ms : u.r = m.r)
        /\ \A m \in ms : Covers(u, m)
    BY <1>2, <2>1, ParseMetaProperty, ZenonT(60)
  <2>3. u.c \in 0..MaxTs /\ u.r \in 0..MaxTs
    BY <1>1, <2>2 DEF Ts
  <2> QED  BY <2>2, <2>3 DEF Pair
<1>5. u.c <= u.r /\ u.c <= downstream /\ LoggedUpTo(u.r)
  BY <1>1, <1>3, <1>4 DEF Covers, Ts
<1>6. PICK v \in OwnerType : v = [Idle EXCEPT !.phase = "init", !.toRemove = metas, !.unflushed = u]
  <2>1. Idle \in OwnerType
    BY MetaAssumption DEF Idle, OwnerType, Zero, Pair
  <2> QED  BY <1>1, <1>4, <2>1, ZenonT(60) DEF OwnerType, InitPhases
<1>7. /\ v.phase = "init" /\ v.unflushed = u /\ v.flushed = Zero /\ v.toRemove = metas
      /\ v.preMetaFile = {} /\ v.tick = "idle"
  BY <1>6 DEF Idle
<1>8. owner' = [owner EXCEPT ![o] = v]
  BY <1>2, <1>6 DEF StartOwner
<1>9. Local(o, v)
  <2>1. \A x \in metas : x.o < o /\ Covers(u, x)
    BY <1>1, <1>4, FileFields DEF IInv, Types
  <2>2. u.c >= 1 /\ u.c <= u.r /\ Covers(u, Zero)
    BY <1>1, <1>4, <1>5 DEF Covers, Zero, Ts
  <2> QED  BY <1>7, <2>1, <2>2, ZenonT(60) DEF Local, InitPhases, FlushedPhases
<1>10. Covered(o, v) /\ Sound(v)
  BY <1>5, <1>7, ZenonT(60) DEF Covered, Sound, FlushedPhases
<1>11. Types'
  <2>1. owner' \in [Owners -> OwnerType]
    BY <1>1, <1>8, ZenonT(60)
  <2>2. \A p \in Owners : p > leader' => owner'[p].phase = "down"
    BY <1>1, <1>8, MetaAssumption DEF IInv, Types, Owners
  <2>3. \A m \in metas' : m.o <= leader'
    BY <1>1, FileFields DEF IInv, Types
  <2> QED  BY <1>1, <2>1, <2>2, <2>3, ZenonT(60) DEF IInv, Types
<1>12. ASSUME NEW p \in Owners PROVE (Local(p, owner[p]) /\ Covered(p, owner[p]) /\ Sound(owner[p]))'
  <2>1. owner'[p] = IF p = o THEN v ELSE owner[p]
    BY <1>1, <1>8, ZenonT(60)
  <2>2. Local(p, owner'[p]) /\ Covered(p, owner'[p]) /\ Sound(owner'[p])
    BY <1>9, <1>10, <2>1, ZenonT(60) DEF IInv
  <2> QED  BY <1>1, <2>2, ZenonT(60) DEF Covered, Sound, LoggedUpTo, Logged
<1>13. FilesSound' /\ StatusSound' /\ TableSound'
  BY <1>1, ZenonT(60) DEF IInv, FilesSound, StatusSound, TableSound, LoggedUpTo, Logged, Promised
<1> QED  BY <1>11, <1>12, <1>13, ZenonT(60) DEF IInv

-----------------------------------------------------------------------------
LEMMA InitEstablishes ==
  ASSUME Init
  PROVE  IInv
<1>1. Idle \in OwnerType /\ startTs \in Ts
  BY MetaAssumption DEF Idle, OwnerType, Zero, Pair, startTs, Ts
<1>2. Types
  <2>1. \A o \in Owners : owner[o].phase = "down"
    BY ZenonT(60) DEF Init, Idle
  <2> QED  BY <1>1, <2>1, MetaAssumption DEF Init, Types
<1>3. Idle.phase = "down" /\ Idle.unflushed = Zero /\ Idle.flushed = Zero /\ Idle.tick = "idle"
      /\ Idle.toRemove = {}
  BY ZenonT(60) DEF Idle
<1>4. \A o \in Owners : Local(o, Idle)
  BY <1>3 DEF Local, Covers, InitPhases, FlushedPhases, Zero
<1>5. \A o \in Owners : Covered(o, Idle)
  BY <1>3, ZenonT(60) DEF Covered, FlushedPhases
<1>6. Sound(Idle)
  BY <1>3 DEF Init, Sound, LoggedUpTo, Zero, startTs
<1>7. FilesSound /\ StatusSound /\ TableSound
  BY DEF Init, FilesSound, StatusSound, TableSound, LoggedUpTo, Promised, startTs
<1>8. \A o \in Owners : owner[o] = Idle
  BY ZenonT(60) DEF Init
<1> QED  BY <1>2, <1>4, <1>5, <1>6, <1>7, <1>8 DEF IInv

(* Every step keeps the invariant, and no step loses what the files say.   *)
LEMMA NextPreserves ==
  ASSUME IInv, [Next]_vars
  PROVE  IInv' /\ \A m \in metas : \E n \in metas' : Covers(n, m)
<1> DEFINE Kept == \A m \in metas : \E n \in metas' : Covers(n, m)
<1>1. metas \subseteq metas' => Kept
  BY FileFields DEF IInv, Types, Covers
<1>2. CASE TableLogs
  BY <1>1, <1>2, TableLogsStep DEF TableLogs
<1>3. CASE TableWrites
  BY <1>1, <1>3, TableWritesStep DEF TableWrites
<1>4. CASE TableRestarts
  BY <1>1, <1>4, TableRestartsStep, ZenonT(60) DEF TableRestarts
<1>5. CASE StartOwner
  BY <1>1, <1>5, StartOwnerStep DEF StartOwner
<1>6. ASSUME NEW o \in Owners, MetaStep(o) PROVE IInv' /\ Kept
  <2>1. CASE ReadCheckpoint(o)
    BY <1>1, <2>1, ReadCheckpointStep, ZenonT(60) DEF ReadCheckpoint
  <2>2. CASE ReadResolved(o)
    BY <1>1, <2>2, ReadResolvedStep, ZenonT(60) DEF ReadResolved
  <2>3. CASE flush(o)
    BY <1>1, <2>3, FlushStep
  <2>4. CASE postFlushMeta(o)
    BY <2>4, PostFlushMetaStep
  <2>5. CASE DeleteOldMeta(o)
    BY <2>5, DeleteOldMetaStep
  <2>6. CASE Running(o)
    BY <1>1, <2>6, RunningStep, ZenonT(60) DEF Running
  <2> QED  BY <1>6, <2>1, <2>2, <2>3, <2>4, <2>5, <2>6, ZenonT(60) DEF MetaStep
<1>7. ASSUME NEW o \in Owners, TickStep(o) PROVE IInv' /\ Kept
  <2>1. CASE UpdateMetaResolved(o)
    BY <1>1, <2>1, UpdateMetaResolvedStep, ZenonT(60) DEF UpdateMetaResolved
  <2>2. CASE UpdateMetaCheckpoint(o)
    BY <1>1, <2>2, UpdateMetaCheckpointStep, ZenonT(60) DEF UpdateMetaCheckpoint
  <2>3. ASSUME NEW a \in BOOLEAN, NEW w \in BOOLEAN, AdvanceCheckpoint(o, a, w) PROVE IInv' /\ Kept
    BY <1>1, <2>3, AdvanceCheckpointStep, ZenonT(60) DEF AdvanceCheckpoint
  <2> QED  BY <1>7, <2>1, <2>2, <2>3 DEF TickStep
<1>8. ASSUME NEW o \in Owners, bgGC(o) PROVE IInv' /\ Kept
  BY <1>1, <1>8, GCStep, ZenonT(60) DEF bgGC
<1>9. ASSUME NEW o \in Owners, OwnerCrashes(o) PROVE IInv' /\ Kept
  BY <1>1, <1>9, OwnerCrashesStep, ZenonT(60) DEF OwnerCrashes
<1>10. CASE UNCHANGED vars
  <2>1. IInv'
    BY <1>10, ZenonT(60) DEF vars, IInv, Types, Covered, Sound, FilesSound, StatusSound, TableSound,
                 LoggedUpTo, Logged, Promised
  <2> QED  BY <1>1, <1>10, <2>1 DEF vars
<1> QED  BY <1>2, <1>3, <1>4, <1>5, <1>6, <1>7, <1>8, <1>9, <1>10, ZenonT(60) DEF Next

(* The inductive invariant holds in every reachable state, whatever the    *)
(* number of owners, timestamps and crashes.                               *)
THEOREM InductiveInvariant == Spec => []IInv
<1>1. Init => IInv
  BY InitEstablishes
<1>2. IInv /\ [Next]_vars => IInv'
  BY NextPreserves
<1> QED  BY <1>1, <1>2, PTL DEF Spec

(* A file of the largest checkpoint and one of the largest resolved        *)
(* timestamp say together what is logged and what the downstream has.      *)
LEMMA FilesRecover ==
  ASSUME IInv
  PROVE  Recoverable /\ DownstreamCovered
<1>1. CASE metas = {}
  BY <1>1, ZenonT(60) DEF IInv, TableSound, Promised, Recoverable, DownstreamCovered
<1>2. CASE metas # {}
  <2> DEFINE u == ParseMeta(metas)
  <2>1. metas \in SUBSET File /\ downstream \in Nat /\ MaxTs \in Nat
    BY MetaAssumption DEF IInv, Types, Ts
  <2>2. /\ u.c \in Ts /\ u.r \in Ts /\ u.c \in Nat /\ u.r \in Nat
        /\ (\E m \in metas : u.c = m.c) /\ (\E m \in metas : u.r = m.r)
        /\ \A m \in metas : Covers(u, m)
    BY <1>2, <2>1, ParseMetaProperty, FileFields, ZenonT(60) DEF Ts
  <2> HIDE DEF u
  <2>3. u.c <= u.r /\ u.c <= downstream /\ LoggedUpTo(u.r)
    BY <2>1, <2>2, FileFields DEF IInv, FilesSound, Covers
  <2>4. \A ts \in Larger(u.c, startTs + 1)..u.r : ts \in logs
    <3> SUFFICES ASSUME NEW ts \in Larger(u.c, startTs + 1)..u.r PROVE ts \in logs
      OBVIOUS
    <3>1. ts \in Nat /\ ts >= u.c /\ ts \in 2..u.r
      BY <2>2 DEF Larger, startTs
    <3>2. Logged(ts)
      BY <2>3, <3>1 DEF LoggedUpTo
    <3> QED  BY <2>1, <2>2, <3>1, <3>2, FileFields DEF Logged, Covers
  <2>5. Recoverable
    BY <1>2, <2>3, <2>4, ZenonT(60) DEF Recoverable, u
  <2>6. downstream <= u.r
    BY <1>2, <2>1, <2>2, FileFields DEF IInv, TableSound, Promised, startTs, Covers, Ts
  <2> QED  BY <1>2, <2>5, <2>6 DEF DownstreamCovered, u
<1> QED  BY <1>1, <1>2

(* initMeta, flush, postFlushMeta, bgGC and AdvanceCheckpoint together: at *)
(* every moment, whichever owner crashed where, what the meta files say    *)
(* can be recovered from and covers the downstream.                        *)
THEOREM MetaAlwaysRecovers == Spec => []AlwaysRecoverable
<1>1. IInv => AlwaysRecoverable
  BY FilesRecover DEF AlwaysRecoverable
<1> QED  BY <1>1, InductiveInvariant, PTL

(* Nothing an owner flushes or deletes, be it an old one that goes on      *)
(* beside the new one, takes back what the meta files say together.        *)
THEOREM MetaPromiseKept == Spec => MetaNeverLost
<1>1. ASSUME IInv, [Next]_vars
      PROVE  [metas # {} => /\ metas' # {}
                            /\ ParseMeta(metas').c >= ParseMeta(metas).c
                            /\ ParseMeta(metas').r >= ParseMeta(metas).r]_metas
  <2> SUFFICES ASSUME metas # {} PROVE metas' # {} /\ Covers(ParseMeta(metas'), ParseMeta(metas))
    BY DEF Covers
  <2>1. IInv' /\ \A m \in metas : \E n \in metas' : Covers(n, m)
    BY <1>1, NextPreserves
  <2>2. metas' # {} /\ metas \in SUBSET File /\ metas' \in SUBSET File
    BY <1>1, <2>1, ZenonT(60) DEF IInv, Types
  <2>3. /\ (\E m \in metas : ParseMeta(metas).c = m.c) /\ (\E m \in metas : ParseMeta(metas).r = m.r)
        /\ \A n \in metas' : Covers(ParseMeta(metas'), n)
        /\ ParseMeta(metas').c \in Nat /\ ParseMeta(metas').r \in Nat
    BY <2>2, ParseMetaProperty, FileFields, MetaAssumption, ZenonT(60) DEF Ts
  <2> QED  BY <2>1, <2>2, <2>3, FileFields DEF Covers
<1> QED  BY <1>1, InductiveInvariant, PTL DEF Spec, MetaNeverLost
=============================================================================
