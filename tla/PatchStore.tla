----------------------------- MODULE PatchStore -----------------------------
(***************************************************************************)
(* What reactors may expect of their etcd workers: a shared store, and     *)
(* each worker's groups of data patches applied to it in order, a batch of *)
(* whole groups at a time, each to the store as it is at that moment.  A   *)
(* batch whose outcome the worker does not learn is applied again; a       *)
(* worker that is lost takes the groups not applied with it, and a group   *)
(* that checks for a running changefeed may be given up.                   *)
(***************************************************************************)
EXTENDS Integers, Sequences, SequencesExt, TLC

CONSTANTS Workers, Keys,
          Absent,     \* the value of a key that does not exist
          Work        \* what a tick may ask for: sequences of groups of patches

VARIABLES store, patches

(* A patch is a function of the old value of its key, and tells whether it *)
(* changes it: put and del always do, set only if the value differs; check *)
(* (CheckChangefeedNormal) changes nothing and fails when the key is gone. *)
NewValue(p, old) ==
  CASE p.op = "add" -> IF old = Absent THEN 1 ELSE old + 1
    [] p.op = "put" -> p.val
    [] p.op = "set" -> p.val
    [] p.op = "del" -> Absent
Changes(p, old) == p.op # "check" /\ (p.op = "set" => old # p.val)
TryAgain(p, old) == p.op = "check" /\ old = Absent

Patch(c, p) ==
  IF Changes(p, c.state[p.key])
  THEN [c EXCEPT !.state[p.key] = NewValue(p, @), !.changed = @ \cup {p.key}]
  ELSE [c EXCEPT !.again = @ \/ TryAgain(p, c.state[p.key])]

(* getChangedState: the patches of a group one after the other, and the    *)
(* keys they change, or that a check fails.                                *)
getChangedState(s, g) == FoldLeft(Patch, [state |-> s, changed |-> {}, again |-> FALSE], g)

ApplyGroup(s, g) == getChangedState(s, g).state
ApplyAll(s, gs) == FoldLeft(ApplyGroup, s, gs)

Init ==
  /\ store = [k \in Keys |-> Absent]
  /\ patches = [w \in Workers |-> <<>>]

Submit(w) ==
  /\ patches[w] = <<>>
  /\ \E gs \in Work : patches' = [patches EXCEPT ![w] = gs]
  /\ store' = store

Apply(w) ==
  \E n \in 1..Len(patches[w]) :
    /\ store' = ApplyAll(store, SubSeq(patches[w], 1, n))
    /\ \/ patches' = [patches EXCEPT ![w] = SubSeq(@, n + 1, Len(@))]
       \/ patches' = patches

Forget(w) ==
  /\ patches' = [patches EXCEPT ![w] = <<>>]
  /\ store' = store

(* Once its check has failed the patches of a group return ErrEtcdIgnore. *)
Ignore(w) ==
  /\ \E i \in DOMAIN patches[w] :
       /\ \E j \in DOMAIN patches[w][i] : patches[w][i][j].op = "check"
       /\ patches' = [patches EXCEPT ![w][i] = <<>>]
  /\ store' = store

Next == \E w \in Workers : Submit(w) \/ Apply(w) \/ Forget(w) \/ Ignore(w)

Spec == Init /\ [][Next]_<<store, patches>>
=============================================================================
