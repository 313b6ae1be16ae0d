------------------------- MODULE CacheHelpersProofs -------------------------
(***************************************************************************)
(* Proofs about CacheHelpers: what its properties IndexExpires,            *)
(* ActiveListIsComplete and InvalidationIsExact say holds for all users,   *)
(* campaigns and queries, and for any number of calls and faults.  How a   *)
(* key is made from a query is not looked at: what the text of keys tells  *)
(* apart, and with it AnswersFitTheQuery, is left to TLC.                  *)
(*                                                                         *)
(* A step of a call leaves every other call as it is, but for the copies   *)
(* that were there all along (Follows).  One lemma for each action says    *)
(* what it does to the keys and where it leaves its call (Moves); each     *)
(* part of the invariant is kept because of these.                         *)
(***************************************************************************)
EXTENDS CacheHelpers, TLAPS

(* Every key is one of a copy or of an answer.                             *)
Keys == CopyKeys \union AnswerKeys

(* The steps of each function.                                             *)
StepsOf(op) ==
    CASE op = "set" -> {"setCopy", "addIndex", "expire", "done"}
      [] op = "remove" -> {"delCopy", "remIndex", "done"}
      [] op = "invalidateAll" -> {"members", "delCopies", "delIndex", "keys", "delAnswers",
                                  "done"}
      [] op = "invalidateAnswers" -> {"keys", "delAnswers", "done"}
      [] op = "fill" -> {"setAnswer", "setCopy", "addIndex", "expire", "done"}
      [] op = "lookUp" -> {"get", "done"}
      [] op = "listActive" -> {"keys", "batches", "done"}

AtWork == {"setCopy", "addIndex", "expire", "delCopy", "remIndex", "members", "delCopies",
           "delIndex", "keys", "delAnswers", "setAnswer", "get", "batches"}

(* A call that has all its fields; one of which only that it is over was   *)
(* kept; what a call may be.                                               *)
RunsAt(steps) ==
    [step: steps, args: CallType, ids: SUBSET Uuids, keys: SUBSET Keys,
     got: SUBSET (Keys \union Queries \union {Nothing}),
     present: SUBSET CopyKeys, former: SUBSET Keys]
FullRun == RunsAt(AtWork \union {"done"})
ShortRun == [step: {"done"}, args: [op: {"set", "remove", "fill"}]]
RunTypes == {[step |-> "idle"], [step |-> "failed"]} \union ShortRun \union FullRun

Active(c) == run[c] \in FullRun

KeysTypeOK ==
    /\ copies \in SUBSET CopyKeys
    /\ answers \in [AnswerKeys -> Queries \union {Nothing}]
    /\ members \in [Users -> SUBSET Uuids]
    /\ timed \in SUBSET Users
    /\ run \in [Cs -> RunTypes]
    /\ solo \in SUBSET Cs
    /\ keyFaults \in Nat

(* A call is in one of its function's steps, where it works on a campaign  *)
(* it has one, and to look at an answer it has a query.                    *)
InStep(r) ==
    /\ r.step \in StepsOf(r.args.op)
    /\ r.args.op = "lookUp" => r.args.query \in Queries
    /\ r.step \in {"setCopy", "addIndex"} => r.ids # {}
CallsAreInStep == \A c \in Cs : Active(c) => InStep(run[c])

Typed == KeysTypeOK /\ CallsAreInStep

-----------------------------------------------------------------------------
(* A call at work has all its fields.                                      *)
LEMMA RunningIsActive ==
    ASSUME KeysTypeOK, NEW c \in Cs
    PROVE  /\ run[c].step \in AtWork => Active(c)
           /\ Running(c) => Active(c)
           /\ Running(c) <=> Active(c) /\ run[c].step # "done"
           /\ Running(c) <=> run[c].step \in AtWork
  <1>1. run[c] \in RunTypes
    BY DEF KeysTypeOK
  <1>2. CASE run[c] \in {[step |-> "idle"], [step |-> "failed"]}
    <2>1. run[c].step \in {"idle", "failed"} /\ run[c].step \notin AtWork \union {"done"}
      BY <1>2 DEF AtWork
    <2>2. run[c] \notin FullRun
      BY <2>1 DEF FullRun, RunsAt
    <2> QED  BY <2>1, <2>2 DEF Running, Active, AtWork
  <1>3. CASE run[c] \in ShortRun
    <2>1. run[c].step = "done"
      BY <1>3 DEF ShortRun
    <2> QED  BY <2>1 DEF Running, AtWork
  <1>4. CASE run[c] \in FullRun
    <2>1. run[c].step \in AtWork \union {"done"}
      BY <1>4 DEF FullRun, RunsAt
    <2> QED  BY <1>4, <2>1 DEF Running, Active, AtWork
  <1> QED  BY <1>1, <1>2, <1>3, <1>4 DEF RunTypes

LEMMA StepsOfRuns ==
    ASSUME NEW r \in RunTypes
    PROVE  r.step \in {"idle", "failed", "done"} \union AtWork
  <1>1. CASE r \in {[step |-> "idle"], [step |-> "failed"]}
    BY <1>1
  <1>2. CASE r \in ShortRun
    BY <1>2 DEF ShortRun
  <1>3. CASE r \in FullRun
    BY <1>3 DEF FullRun, RunsAt
  <1> QED  BY <1>1, <1>2, <1>3 DEF RunTypes

(* A list or an invalidation that is over has all its fields.              *)
LEMMA DoneHasFields ==
    ASSUME KeysTypeOK, NEW c \in Cs, run[c].step = "done",
           run[c].args.op \notin {"set", "remove", "fill"}
    PROVE  Active(c)
  <1>1. run[c] \in RunTypes
    BY DEF KeysTypeOK
  <1>2. run[c] \notin {[step |-> "idle"], [step |-> "failed"]}
    <2> SUFFICES ASSUME run[c] \in {[step |-> "idle"], [step |-> "failed"]} PROVE FALSE
      OBVIOUS
    <2>1. run[c].step \in {"idle", "failed"}
      OBVIOUS
    <2> QED  BY <2>1
  <1>3. run[c] \notin ShortRun
    BY DEF ShortRun
  <1> QED  BY <1>1, <1>2, <1>3 DEF RunTypes, Active

(* A call that is over and has all its fields, or is at work.              *)
LEMMA FieldsOfActive ==
    ASSUME NEW c \in Cs, Active(c)
    PROVE  /\ run[c].step \in AtWork \union {"done"}
           /\ run[c].args \in CallType /\ run[c].args.op \in Ops
           /\ User(c) \in Users /\ User(c) = run[c].args.user
           /\ Op(c) \in Ops /\ Op(c) = run[c].args.op
           /\ run[c].args.query \in Queries \union {Nothing}
           /\ run[c].ids \in SUBSET Uuids
           /\ run[c].keys \in SUBSET Keys
           /\ run[c].got \in SUBSET (Keys \union Queries \union {Nothing})
           /\ run[c].present \in SUBSET CopyKeys
           /\ run[c].former \in SUBSET Keys
  <1>1. run[c] \in RunsAt(AtWork \union {"done"})
    BY DEF Active, FullRun
  <1>2. run[c].args \in CallType
    BY <1>1 DEF RunsAt
  <1> QED  BY <1>1, <1>2 DEF RunsAt, CallType, User, Op
NextRun == RunsAt(AtWork \union {"done", "failed"})
Shortened == {"set", "remove", "fill"}

LEMMA KeptIsTyped ==
    ASSUME NEW r \in NextRun
    PROVE  /\ Kept(r) \in RunTypes
           /\ Kept(r).step = r.step
           /\ r.step \in AtWork \/ (r.step = "done" /\ r.args.op \notin Shortened)
                 => Kept(r) = r /\ r \in FullRun
           /\ Kept(r) \in FullRun => Kept(r) = r /\ InStep(r) = InStep(Kept(r))
  <1>1. /\ r.step \in AtWork \union {"done", "failed"}
        /\ r.args.op \in Ops
    BY DEF NextRun, RunsAt, CallType
  <1>2. CASE r.step = "failed"
    <2>1. Kept(r) = [step |-> "failed"]
      BY <1>2 DEF Kept
    <2>2. Kept(r) \notin FullRun
      <3>1. Kept(r).step = "failed"
        BY <2>1
      <3> QED  BY <3>1 DEF FullRun, RunsAt, AtWork
    <2> QED  BY <1>2, <2>1, <2>2 DEF RunTypes, AtWork
  <1>3. CASE r.step = "done" /\ r.args.op \in Shortened
    <2>1. Kept(r) = [step |-> "done", args |-> [op |-> r.args.op]]
      BY <1>3 DEF Kept, Shortened
    <2>2. Kept(r) \in ShortRun
      BY <2>1, <1>3 DEF ShortRun, Shortened
    <2>3. Kept(r) \notin FullRun
      <3> SUFFICES ASSUME Kept(r) \in FullRun PROVE FALSE
        OBVIOUS
      <3>1. Kept(r).args \in CallType
        BY DEF FullRun, RunsAt
      <3>2. Kept(r).args = [op |-> r.args.op]
        BY <2>1
      <3>3. DOMAIN Kept(r).args = {"op"} /\ "user" \in DOMAIN Kept(r).args
        BY <3>1, <3>2 DEF CallType
      <3> QED  BY <3>3
    <2> QED  BY <1>3, <2>1, <2>2, <2>3 DEF RunTypes, AtWork
  <1>4. CASE r.step \in AtWork \/ (r.step = "done" /\ r.args.op \notin Shortened)
    <2>1. Kept(r) = r
      BY <1>4 DEF Kept, Shortened, AtWork
    <2>2. r \in FullRun
      BY <1>4 DEF NextRun, FullRun, RunsAt
    <2> QED  BY <2>1, <2>2 DEF RunTypes
  <1> QED  BY <1>1, <1>2, <1>3, <1>4 DEF Shortened

(* What a step of one call does to another: of the copies that were there  *)
(* all along, those that still are, remain; its list stays as it is when   *)
(* it is over.                                                             *)
Follows(d) ==
    /\ run'[d].step = run[d].step
    /\ run'[d] \in FullRun <=> run[d] \in FullRun
    /\ run[d] \in FullRun =>
          /\ run'[d].args = run[d].args /\ run'[d].ids = run[d].ids
          /\ run'[d].keys = run[d].keys /\ run'[d].got = run[d].got
          /\ run'[d].former = run[d].former
          /\ run'[d].present \in SUBSET run[d].present
          /\ run'[d].step \in AtWork => run'[d].present \in SUBSET copies'

LEMMA BecomesFollows ==
    ASSUME KeysTypeOK, NEW c \in Cs, NEW r \in NextRun, Becomes(c, r)
    PROVE  /\ run' \in [Cs -> RunTypes]
           /\ run'[c] = Kept(r)
           /\ \A d \in Cs \ {c} : Follows(d)
           /\ solo' = solo
  <1>1. /\ run' = [d \in Cs |->
                     IF d = c THEN Kept(r)
                     ELSE IF Running(d) THEN [run[d] EXCEPT !.present = @ \intersect copies']
                     ELSE run[d]]
        /\ solo' = solo
    BY DEF Becomes
  <1>2. run'[c] = Kept(r) /\ Kept(r) \in RunTypes
    BY <1>1, KeptIsTyped
  <1>3. ASSUME NEW d \in Cs \ {c}
        PROVE  run'[d] \in RunTypes /\ Follows(d)
    <2>1. run[d] \in RunTypes
      BY DEF KeysTypeOK
    <2>2. CASE Running(d)
      <3>1. run[d] \in FullRun
        BY <2>2, RunningIsActive DEF Active
      <3> DEFINE s == [run[d] EXCEPT !.present = @ \intersect copies']
      <3>2. run'[d] = s
        BY <1>1, <2>2
      <3>3. /\ s \in FullRun
            /\ s.step = run[d].step /\ s.args = run[d].args /\ s.ids = run[d].ids
            /\ s.keys = run[d].keys /\ s.got = run[d].got /\ s.former = run[d].former
            /\ s.present = run[d].present \intersect copies'
        BY <3>1 DEF FullRun, RunsAt
      <3> HIDE DEF s
      <3> QED  BY <3>1, <3>2, <3>3 DEF Follows, RunTypes
    <2>3. CASE ~Running(d)
      <3>1. run'[d] = run[d]
        BY <1>1, <2>3
      <3>2. run[d].step \notin AtWork
        BY <2>3, RunningIsActive
      <3> QED  BY <2>1, <3>1, <3>2 DEF Follows
    <2> QED  BY <2>2, <2>3
  <1> QED  BY <1>1, <1>2, <1>3
-----------------------------------------------------------------------------
(* What a step leaves its own call at, and that others follow.             *)
Moves(c, step, ids, keys, got) ==
    /\ run' \in [Cs -> RunTypes]
    /\ solo' = solo
    /\ \A d \in Cs \ {c} : Follows(d)
    /\ run'[c].step = step
    /\ step \in AtWork => run'[c] \in FullRun
    /\ run'[c] \in FullRun =>
          /\ run'[c].args = run[c].args
          /\ run'[c].ids = ids /\ run'[c].keys = keys /\ run'[c].got = got
          /\ run'[c].present = run[c].present /\ run'[c].former = run[c].former

LEMMA BecomesMoves ==
    ASSUME KeysTypeOK, NEW c \in Cs, Active(c), NEW r \in NextRun, Becomes(c, r),
           r.args = run[c].args, r.present = run[c].present, r.former = run[c].former
    PROVE  Moves(c, r.step, r.ids, r.keys, r.got)
  <1>1. /\ run' \in [Cs -> RunTypes] /\ run'[c] = Kept(r) /\ solo' = solo
        /\ \A d \in Cs \ {c} : Follows(d)
    BY BecomesFollows
  <1>2. /\ Kept(r).step = r.step
        /\ r.step \in AtWork => Kept(r) = r /\ r \in FullRun
        /\ Kept(r) \in FullRun => Kept(r) = r
    BY KeptIsTyped
  <1> QED  BY <1>1, <1>2 DEF Moves

(* The ways in which the actions write down where a call is next.          *)
LEMMA ToMoves ==
    ASSUME KeysTypeOK, NEW c \in Cs, Active(c),
           NEW step \in AtWork \union {"done", "failed"}, NEW ids \in SUBSET Uuids,
           NEW keys \in SUBSET Keys,
           NEW got \in SUBSET (Keys \union Queries \union {Nothing})
    PROVE  /\ Becomes(c, To(c, step))
                 => Moves(c, step, run[c].ids, run[c].keys, run[c].got)
           /\ Becomes(c, [To(c, step) EXCEPT !.ids = ids])
                 => Moves(c, step, ids, run[c].keys, run[c].got)
           /\ Becomes(c, [To(c, step) EXCEPT !.keys = keys])
                 => Moves(c, step, run[c].ids, keys, run[c].got)
           /\ Becomes(c, [To(c, step) EXCEPT !.got = got])
                 => Moves(c, step, run[c].ids, run[c].keys, got)
           /\ Becomes(c, [To(c, step) EXCEPT !.keys = keys, !.got = got])
                 => Moves(c, step, run[c].ids, keys, got)
  <1>1. run[c] \in RunsAt(AtWork \union {"done"})
    BY DEF Active, FullRun
  <1> DEFINE t == To(c, step)
  <1>2. /\ t \in NextRun /\ t.step = step /\ t.args = run[c].args /\ t.ids = run[c].ids
        /\ t.keys = run[c].keys /\ t.got = run[c].got
        /\ t.present = run[c].present /\ t.former = run[c].former
    BY <1>1 DEF To, NextRun, RunsAt
  <1> HIDE DEF t
  <1>3. Becomes(c, t) => Moves(c, step, run[c].ids, run[c].keys, run[c].got)
    BY <1>2, BecomesMoves
  <1>4. Becomes(c, [t EXCEPT !.ids = ids]) => Moves(c, step, ids, run[c].keys, run[c].got)
    <2> DEFINE r == [t EXCEPT !.ids = ids]
    <2>1. /\ r \in NextRun /\ r.step = step /\ r.args = run[c].args /\ r.ids = ids
          /\ r.keys = run[c].keys /\ r.got = run[c].got
          /\ r.present = run[c].present /\ r.former = run[c].former
      BY <1>2 DEF NextRun, RunsAt
    <2> HIDE DEF r
    <2>2. Becomes(c, r) => Moves(c, step, ids, run[c].keys, run[c].got)
      BY <2>1, BecomesMoves
    <2> QED  BY <2>2 DEF r
  <1>5. Becomes(c, [t EXCEPT !.keys = keys]) => Moves(c, step, run[c].ids, keys, run[c].got)
    <2> DEFINE r == [t EXCEPT !.keys = keys]
    <2>1. /\ r \in NextRun /\ r.step = step /\ r.args = run[c].args /\ r.ids = run[c].ids
          /\ r.keys = keys /\ r.got = run[c].got
          /\ r.present = run[c].present /\ r.former = run[c].former
      BY <1>2 DEF NextRun, RunsAt
    <2> HIDE DEF r
    <2>2. Becomes(c, r) => Moves(c, step, run[c].ids, keys, run[c].got)
      BY <2>1, BecomesMoves
    <2> QED  BY <2>2 DEF r
  <1>6. Becomes(c, [t EXCEPT !.got = got]) => Moves(c, step, run[c].ids, run[c].keys, got)
    <2> DEFINE r == [t EXCEPT !.got = got]
    <2>1. /\ r \in NextRun /\ r.step = step /\ r.args = run[c].args /\ r.ids = run[c].ids
          /\ r.keys = run[c].keys /\ r.got = got
          /\ r.present = run[c].present /\ r.former = run[c].former
      BY <1>2 DEF NextRun, RunsAt
    <2> HIDE DEF r
    <2>2. Becomes(c, r) => Moves(c, step, run[c].ids, run[c].keys, got)
      BY <2>1, BecomesMoves
    <2> QED  BY <2>2 DEF r
  <1>7. Becomes(c, [t EXCEPT !.keys = keys, !.got = got])
          => Moves(c, step, run[c].ids, keys, got)
    <2> DEFINE r == [t EXCEPT !.keys = keys, !.got = got]
    <2>1. /\ r \in NextRun /\ r.step = step /\ r.args = run[c].args /\ r.ids = run[c].ids
          /\ r.keys = keys /\ r.got = got
          /\ r.present = run[c].present /\ r.former = run[c].former
      BY <1>2 DEF NextRun, RunsAt
    <2> HIDE DEF r
    <2>2. Becomes(c, r) => Moves(c, step, run[c].ids, keys, got)
      BY <2>1, BecomesMoves
    <2> QED  BY <2>2 DEF r
  <1> QED  BY <1>3, <1>4, <1>5, <1>6, <1>7 DEF t

(* While no command failed, this one did not.                              *)
LEMMA DoesCounts ==
    ASSUME KeysTypeOK, NEW ok \in BOOLEAN, Does(ok)
    PROVE  keyFaults' \in Nat /\ (keyFaults' = 0 => ok /\ keyFaults = 0)
  BY DEF Does, KeysTypeOK

LEMMA OtherwiseSteps ==
    ASSUME NEW c, NEW ok \in BOOLEAN, NEW step
    PROVE  /\ Otherwise(c, ok, step) \in {step, "failed"}
           /\ ok \/ Op(c) = "fill" => Otherwise(c, ok, step) = step
           /\ Otherwise(c, ok, step) # "failed" =>
                 Otherwise(c, ok, step) = step /\ (ok \/ Op(c) = "fill")
  BY DEF Otherwise

(* The campaign a call is at is one of those it has left.                  *)
LEMMA IdIsLeft ==
    ASSUME NEW c, run[c].ids # {}
    PROVE  Id(c) \in run[c].ids
  BY DEF Id

LEMMA KeysAreOfKinds ==
    ASSUME NEW u \in Users, NEW i \in Uuids
    PROVE  CopyKey(u, i) \in CopyKeys
  BY DEF CopyKeys

LEMMA StoredKeysAreKeys ==
    ASSUME KeysTypeOK
    PROVE  StoredKeys \in SUBSET Keys
  BY DEF KeysTypeOK, StoredKeys, Keys

(* A step that leaves its call in order leaves all calls in order.         *)
LEMMA MovesKeepTypes ==
    ASSUME Typed, NEW c \in Cs, Active(c), NEW ok \in BOOLEAN, Does(ok),
           NEW step, NEW ids, NEW keys, NEW got, Moves(c, step, ids, keys, got),
           step \in StepsOf(Op(c)) \union {"failed"},
           step \in {"setCopy", "addIndex"} => ids # {},
           copies' \in SUBSET CopyKeys, answers' \in [AnswerKeys -> Queries \union {Nothing}],
           members' \in [Users -> SUBSET Uuids], timed' \in SUBSET Users
    PROVE  Typed'
  <1>1. keyFaults' \in Nat /\ solo' \in SUBSET Cs
    BY DoesCounts DEF Typed, KeysTypeOK, Moves
  <1>2. KeysTypeOK'
    BY <1>1 DEF Moves, KeysTypeOK
  <1>3. ASSUME NEW d \in Cs, run'[d] \in FullRun
        PROVE  InStep(run'[d])
    <2>1. CASE d = c
      <3>1. run'[c].step # "failed"
        BY <1>3, <2>1 DEF FullRun, RunsAt, AtWork
      <3>2. InStep(run[c])
        BY DEF Typed, CallsAreInStep
      <3> QED  BY <1>3, <2>1, <3>1, <3>2 DEF Moves, InStep, Op
    <2>2. CASE d # c
      <3>1. Follows(d)
        BY <2>2 DEF Moves
      <3>2. run[d] \in FullRun /\ InStep(run[d])
        BY <1>3, <3>1 DEF Follows, Typed, CallsAreInStep, Active
      <3> QED  BY <3>1, <3>2 DEF Follows, InStep
    <2> QED  BY <2>1, <2>2
  <1>4. CallsAreInStep'
    BY <1>3 DEF CallsAreInStep, Active
  <1> QED  BY <1>2, <1>4 DEF Typed
-----------------------------------------------------------------------------
(* The steps of the functions, and whose steps they are.                   *)
LEMMA StepsOfOps ==
    /\ StepsOf("set") = {"setCopy", "addIndex", "expire", "done"}
    /\ StepsOf("remove") = {"delCopy", "remIndex", "done"}
    /\ StepsOf("invalidateAll") = {"members", "delCopies", "delIndex", "keys", "delAnswers",
                                   "done"}
    /\ StepsOf("invalidateAnswers") = {"keys", "delAnswers", "done"}
    /\ StepsOf("fill") = {"setAnswer", "setCopy", "addIndex", "expire", "done"}
    /\ StepsOf("lookUp") = {"get", "done"}
    /\ StepsOf("listActive") = {"keys", "batches", "done"}
  BY DEF StepsOf

LEMMA OpAtStep ==
    ASSUME Typed, NEW c \in Cs, run[c].step \in AtWork
    PROVE  /\ Active(c) /\ KeysTypeOK
           /\ run[c].step \in {"setCopy", "addIndex"} => run[c].ids # {}
           /\ At(c, "setAnswer") => Op(c) = "fill"
           /\ At(c, "setCopy") \/ At(c, "addIndex") \/ At(c, "expire") => Op(c) \in {"set", "fill"}
           /\ At(c, "delCopy") \/ At(c, "remIndex") => Op(c) = "remove"
           /\ At(c, "members") \/ At(c, "delCopies") \/ At(c, "delIndex")
                 => Op(c) = "invalidateAll"
           /\ At(c, "keys") => Op(c) \in {"invalidateAll", "invalidateAnswers", "listActive"}
           /\ At(c, "delAnswers") => Op(c) \in {"invalidateAll", "invalidateAnswers"}
           /\ At(c, "batches") => Op(c) = "listActive"
           /\ At(c, "get") => Op(c) = "lookUp"
  <1>1. Active(c) /\ KeysTypeOK
    BY RunningIsActive DEF Typed
  <1>2. InStep(run[c])
    BY <1>1 DEF Typed, CallsAreInStep
  <1>3. Op(c) \in Ops
    BY <1>1, FieldsOfActive
  <1>4. run[c].step \in StepsOf(Op(c))
    BY <1>2 DEF InStep, Op
  <1>5. Op(c) \in {"set", "remove", "invalidateAll", "invalidateAnswers", "fill", "lookUp",
                   "listActive"}
    BY <1>3 DEF Ops
  <1> QED  BY <1>1, <1>2, <1>4, <1>5, StepsOfOps DEF At, InStep

(* The copies of some of a user's campaigns.                               *)
CopiesOf(u, ids) == {CopyKey(u, i) : i \in ids}

-----------------------------------------------------------------------------
(* What each action does to the keys and to its call.                      *)
LEMMA SetAnswerEffect ==
    ASSUME Typed, NEW c \in Cs, SetAnswerKey(c)
    PROVE  /\ Active(c) /\ Op(c) = "fill" /\ Typed'
           /\ copies' = copies /\ members' = members /\ timed' = timed
           /\ \E ok \in BOOLEAN :
                 /\ Does(ok)
                 /\ Moves(c, IF run[c].ids = {} THEN "expire" ELSE "setCopy",
                          run[c].ids, run[c].keys, run[c].got)
  <1>1. /\ At(c, "setAnswer") /\ copies' = copies /\ members' = members /\ timed' = timed
        /\ Becomes(c, To(c, IF run[c].ids = {} THEN "expire" ELSE "setCopy"))
    BY DEF SetAnswerKey
  <1>2. PICK ok \in BOOLEAN :
            /\ Does(ok)
            /\ LET q == run[c].args.query IN
               answers' = IF ok THEN [answers EXCEPT ![AnswerKey(User(c), q)] = q] ELSE answers
    BY DEF SetAnswerKey
  <1>3. Active(c) /\ Op(c) = "fill" /\ KeysTypeOK
    BY <1>1, OpAtStep DEF At, AtWork
  <1>4. /\ run[c].args.query \in Queries \union {Nothing}
        /\ run[c].ids \in SUBSET Uuids /\ run[c].keys \in SUBSET Keys
        /\ run[c].got \in SUBSET (Keys \union Queries \union {Nothing})
    BY <1>3, FieldsOfActive
  <1> DEFINE step == IF run[c].ids = {} THEN "expire" ELSE "setCopy"
  <1>5. step \in AtWork /\ step \in StepsOf("fill") /\ (step = "setCopy" => run[c].ids # {})
        /\ step # "addIndex"
    BY StepsOfOps DEF AtWork
  <1>6. Becomes(c, To(c, step))
    BY <1>1
  <1> HIDE DEF step
  <1>7. Moves(c, step, run[c].ids, run[c].keys, run[c].got)
    BY <1>3, <1>4, <1>5, <1>6, ToMoves
  <1>8. answers' \in [AnswerKeys -> Queries \union {Nothing}]
    BY <1>2, <1>3, <1>4 DEF KeysTypeOK
  <1>9. copies' \in SUBSET CopyKeys /\ members' \in [Users -> SUBSET Uuids]
        /\ timed' \in SUBSET Users
    BY <1>1, <1>3 DEF KeysTypeOK
  <1>10. Typed'
    BY <1>2, <1>3, <1>5, <1>7, <1>8, <1>9, MovesKeepTypes
  <1> QED  BY <1>1, <1>2, <1>3, <1>7, <1>10 DEF step

LEMMA SetCopyEffect ==
    ASSUME Typed, NEW c \in Cs, SetCopyKey(c)
    PROVE  /\ Active(c) /\ Op(c) \in {"set", "fill"} /\ Typed'
           /\ members' = members /\ timed' = timed
           /\ \E ok \in BOOLEAN :
                 /\ Does(ok)
                 /\ Moves(c, Otherwise(c, ok, "addIndex"), run[c].ids, run[c].keys, run[c].got)
  <1>1. PICK ok \in BOOLEAN :
            /\ Does(ok)
            /\ copies' = IF ok THEN copies \union {CopyKey(User(c), Id(c))} ELSE copies
            /\ Becomes(c, To(c, Otherwise(c, ok, "addIndex")))
    BY DEF SetCopyKey
  <1>2. At(c, "setCopy") /\ answers' = answers /\ members' = members /\ timed' = timed
    BY DEF SetCopyKey
  <1>3. Active(c) /\ Op(c) \in {"set", "fill"} /\ KeysTypeOK /\ run[c].ids # {}
    BY <1>2, OpAtStep DEF At, AtWork
  <1>4. /\ run[c].ids \in SUBSET Uuids /\ run[c].keys \in SUBSET Keys
        /\ run[c].got \in SUBSET (Keys \union Queries \union {Nothing})
        /\ User(c) \in Users
    BY <1>3, FieldsOfActive
  <1> DEFINE step == Otherwise(c, ok, "addIndex")
  <1>5. step \in {"addIndex", "failed"}
    BY OtherwiseSteps
  <1> HIDE DEF step
  <1>6. /\ step \in AtWork \union {"done", "failed"}
        /\ step \in StepsOf(Op(c)) \union {"failed"}
    BY <1>3, <1>5, StepsOfOps DEF AtWork
  <1>7. Moves(c, step, run[c].ids, run[c].keys, run[c].got)
    BY <1>1, <1>3, <1>4, <1>6, ToMoves DEF step
  <1>8. CopyKey(User(c), Id(c)) \in CopyKeys
    BY <1>3, <1>4, IdIsLeft, KeysAreOfKinds
  <1>9. copies' \in SUBSET CopyKeys
    BY <1>1, <1>3, <1>8 DEF KeysTypeOK
  <1>10. /\ answers' \in [AnswerKeys -> Queries \union {Nothing}]
         /\ members' \in [Users -> SUBSET Uuids] /\ timed' \in SUBSET Users
    BY <1>2, <1>3 DEF KeysTypeOK
  <1>11. Typed'
    BY <1>1, <1>3, <1>6, <1>7, <1>9, <1>10, MovesKeepTypes
  <1> QED  BY <1>1, <1>2, <1>3, <1>7, <1>11 DEF step

LEMMA AddMemberEffect ==
    ASSUME Typed, NEW c \in Cs, AddMember(c)
    PROVE  /\ Active(c) /\ Op(c) \in {"set", "fill"} /\ Typed'
           /\ copies' = copies /\ timed' = timed
           /\ \E ok \in BOOLEAN, next \in {"expire", "setCopy"}, left \in SUBSET Uuids :
                 /\ Does(ok)
                 /\ \A u \in Users \ {User(c)} : members'[u] = members[u]
                 /\ Moves(c, Otherwise(c, ok, next), left, run[c].keys, run[c].got)
  <1> DEFINE left == run[c].ids \ {Id(c)}
             next == IF left = {} THEN "expire" ELSE "setCopy"
  <1>1. PICK ok \in BOOLEAN :
            /\ Does(ok)
            /\ members' = IF ok THEN [members EXCEPT ![User(c)] = @ \union {Id(c)}] ELSE members
            /\ Becomes(c, [To(c, Otherwise(c, ok, next)) EXCEPT !.ids = left])
    BY DEF AddMember
  <1>2. At(c, "addIndex") /\ copies' = copies /\ answers' = answers /\ timed' = timed
    BY DEF AddMember
  <1>3. Active(c) /\ Op(c) \in {"set", "fill"} /\ KeysTypeOK /\ run[c].ids # {}
    BY <1>2, OpAtStep DEF At, AtWork
  <1>4. /\ run[c].ids \in SUBSET Uuids /\ run[c].keys \in SUBSET Keys
        /\ run[c].got \in SUBSET (Keys \union Queries \union {Nothing})
        /\ User(c) \in Users
    BY <1>3, FieldsOfActive
  <1>5. /\ left \in SUBSET Uuids /\ next \in {"expire", "setCopy"}
        /\ next = "setCopy" => left # {}
    BY <1>4
  <1> HIDE DEF left, next
  <1> DEFINE step == Otherwise(c, ok, next)
  <1>6. step \in {next, "failed"}
    BY OtherwiseSteps
  <1>7. Becomes(c, [To(c, step) EXCEPT !.ids = left])
    BY <1>1
  <1> HIDE DEF step
  <1>8. /\ step \in AtWork \union {"done", "failed"}
        /\ step \in StepsOf(Op(c)) \union {"failed"}
        /\ step \in {"setCopy", "addIndex"} => left # {}
    BY <1>3, <1>5, <1>6, StepsOfOps DEF AtWork
  <1>9. Moves(c, step, left, run[c].keys, run[c].got)
    BY <1>3, <1>4, <1>5, <1>7, <1>8, ToMoves
  <1>10. Id(c) \in Uuids
    BY <1>3, <1>4, IdIsLeft
  <1>11. /\ members' \in [Users -> SUBSET Uuids]
         /\ \A u \in Users \ {User(c)} : members'[u] = members[u]
    BY <1>1, <1>3, <1>4, <1>10 DEF KeysTypeOK
  <1>12. /\ answers' \in [AnswerKeys -> Queries \union {Nothing}]
         /\ copies' \in SUBSET CopyKeys /\ timed' \in SUBSET Users
    BY <1>2, <1>3 DEF KeysTypeOK
  <1>13. Typed'
    BY <1>1, <1>3, <1>8, <1>9, <1>11, <1>12, MovesKeepTypes
  <1> QED  BY <1>1, <1>2, <1>3, <1>5, <1>9, <1>11, <1>13 DEF step

LEMMA ExpireEffect ==
    ASSUME Typed, NEW c \in Cs, ExpireIndexKey(c)
    PROVE  /\ Active(c) /\ Op(c) \in {"set", "fill"} /\ Typed'
           /\ copies' = copies /\ members' = members
           /\ \E ok \in BOOLEAN :
                 /\ Does(ok)
                 /\ timed' = IF ok /\ members[User(c)] # {} THEN timed \union {User(c)} ELSE timed
                 /\ Moves(c, Otherwise(c, ok, "done"), run[c].ids, run[c].keys, run[c].got)
  <1>1. PICK ok \in BOOLEAN :
            /\ Does(ok)
            /\ timed' = IF ok /\ members[User(c)] # {} THEN timed \union {User(c)} ELSE timed
            /\ copies' = copies /\ answers' = answers /\ members' = members
            /\ Becomes(c, To(c, Otherwise(c, ok, "done")))
    BY DEF ExpireIndexKey
  <1>2. At(c, "expire")
    BY DEF ExpireIndexKey
  <1>3. Active(c) /\ Op(c) \in {"set", "fill"} /\ KeysTypeOK
    BY <1>2, OpAtStep DEF At, AtWork
  <1>4. /\ run[c].ids \in SUBSET Uuids /\ run[c].keys \in SUBSET Keys
        /\ run[c].got \in SUBSET (Keys \union Queries \union {Nothing})
        /\ User(c) \in Users
    BY <1>3, FieldsOfActive
  <1> DEFINE step == Otherwise(c, ok, "done")
  <1>5. step \in {"done", "failed"}
    BY OtherwiseSteps
  <1> HIDE DEF step
  <1>6. /\ step \in AtWork \union {"done", "failed"}
        /\ step \in StepsOf(Op(c)) \union {"failed"}
        /\ step \notin {"setCopy", "addIndex"}
    BY <1>3, <1>5, StepsOfOps
  <1>7. Moves(c, step, run[c].ids, run[c].keys, run[c].got)
    BY <1>1, <1>3, <1>4, <1>6, ToMoves DEF step
  <1>8. /\ copies' \in SUBSET CopyKeys /\ timed' \in SUBSET Users
        /\ answers' \in [AnswerKeys -> Queries \union {Nothing}]
        /\ members' \in [Users -> SUBSET Uuids]
    BY <1>1, <1>3, <1>4 DEF KeysTypeOK
  <1>9. Typed'
    BY <1>1, <1>3, <1>6, <1>7, <1>8, MovesKeepTypes
  <1> QED  BY <1>1, <1>3, <1>7, <1>9 DEF step
LEMMA DeleteCopyEffect ==
    ASSUME Typed, NEW c \in Cs, DeleteCopy(c)
    PROVE  /\ Active(c) /\ Op(c) = "remove" /\ Typed'
           /\ members' = members /\ timed' = timed
           /\ \E ok \in BOOLEAN :
                 /\ Does(ok)
                 /\ Moves(c, Otherwise(c, ok, "remIndex"), run[c].ids, run[c].keys, run[c].got)
  <1>1. PICK ok \in BOOLEAN :
            /\ Does(ok)
            /\ copies' = IF ok THEN copies \ {CopyKey(User(c), i) : i \in run[c].ids} ELSE copies
            /\ answers' = answers /\ members' = members /\ timed' = timed
            /\ Becomes(c, To(c, Otherwise(c, ok, "remIndex")))
    BY DEF DeleteCopy
  <1>2. At(c, "delCopy")
    BY DEF DeleteCopy
  <1>3. Active(c) /\ Op(c) = "remove" /\ KeysTypeOK
    BY <1>2, OpAtStep DEF At, AtWork
  <1>4. /\ run[c].ids \in SUBSET Uuids /\ run[c].keys \in SUBSET Keys
        /\ run[c].got \in SUBSET (Keys \union Queries \union {Nothing})
    BY <1>3, FieldsOfActive
  <1> DEFINE step == Otherwise(c, ok, "remIndex")
  <1>5. step \in {"remIndex", "failed"}
    BY OtherwiseSteps
  <1> HIDE DEF step
  <1>6. /\ step \in AtWork \union {"done", "failed"}
        /\ step \in StepsOf(Op(c)) \union {"failed"}
        /\ step \notin {"setCopy", "addIndex"}
    BY <1>3, <1>5, StepsOfOps DEF AtWork
  <1>7. Moves(c, step, run[c].ids, run[c].keys, run[c].got)
    BY <1>1, <1>3, <1>4, <1>6, ToMoves DEF step
  <1>8. /\ copies' \in SUBSET CopyKeys /\ timed' \in SUBSET Users
        /\ answers' \in [AnswerKeys -> Queries \union {Nothing}]
        /\ members' \in [Users -> SUBSET Uuids]
    BY <1>1, <1>3 DEF KeysTypeOK
  <1>9. Typed'
    BY <1>1, <1>3, <1>6, <1>7, <1>8, MovesKeepTypes
  <1> QED  BY <1>1, <1>3, <1>7, <1>9 DEF step

(* An index that loses members keeps its time to live, or is gone.         *)
LEMMA IndexesShrink ==
    ASSUME KeysTypeOK, NEW u \in Users, NEW ids \in SUBSET members[u], Indexes(u, ids)
    PROVE  /\ members' \in [Users -> SUBSET Uuids] /\ timed' \in SUBSET Users
           /\ members'[u] = ids
           /\ \A v \in Users : members'[v] # {} => members[v] # {} /\ (v \in timed => v \in timed')
  <1>1. /\ members' = [members EXCEPT ![u] = ids]
        /\ timed' = IF ids = {} THEN timed \ {u} ELSE timed
    BY DEF Indexes
  <1>2. /\ members \in [Users -> SUBSET Uuids] /\ timed \in SUBSET Users
    BY DEF KeysTypeOK
  <1>3. members'[u] = ids /\ members' \in [Users -> SUBSET Uuids] /\ timed' \in SUBSET Users
    BY <1>1, <1>2
  <1>4. ASSUME NEW v \in Users, members'[v] # {}
        PROVE  members[v] # {} /\ (v \in timed => v \in timed')
    BY <1>1, <1>2, <1>3, <1>4
  <1> QED  BY <1>3, <1>4

LEMMA RemoveMemberEffect ==
    ASSUME Typed, NEW c \in Cs, RemoveMember(c)
    PROVE  /\ Active(c) /\ Op(c) = "remove" /\ Typed'
           /\ copies' = copies
           /\ \A u \in Users :
                 members'[u] # {} => members[u] # {} /\ (u \in timed => u \in timed')
           /\ \E ok \in BOOLEAN :
                 /\ Does(ok)
                 /\ Moves(c, Otherwise(c, ok, "done"), run[c].ids, run[c].keys, run[c].got)
  <1>1. PICK ok \in BOOLEAN :
            /\ Does(ok)
            /\ IF ok THEN Indexes(User(c), members[User(c)] \ run[c].ids)
               ELSE UNCHANGED <<members, timed>>
            /\ copies' = copies /\ answers' = answers
            /\ Becomes(c, To(c, Otherwise(c, ok, "done")))
    BY DEF RemoveMember
  <1>2. At(c, "remIndex")
    BY DEF RemoveMember
  <1>3. Active(c) /\ Op(c) = "remove" /\ KeysTypeOK
    BY <1>2, OpAtStep DEF At, AtWork
  <1>4. /\ run[c].ids \in SUBSET Uuids /\ run[c].keys \in SUBSET Keys
        /\ run[c].got \in SUBSET (Keys \union Queries \union {Nothing})
        /\ User(c) \in Users
    BY <1>3, FieldsOfActive
  <1> DEFINE step == Otherwise(c, ok, "done")
  <1>5. step \in {"done", "failed"}
    BY OtherwiseSteps
  <1> HIDE DEF step
  <1>6. /\ step \in AtWork \union {"done", "failed"}
        /\ step \in StepsOf(Op(c)) \union {"failed"}
        /\ step \notin {"setCopy", "addIndex"}
    BY <1>3, <1>5, StepsOfOps
  <1>7. Moves(c, step, run[c].ids, run[c].keys, run[c].got)
    BY <1>1, <1>3, <1>4, <1>6, ToMoves DEF step
  <1>8. /\ members' \in [Users -> SUBSET Uuids] /\ timed' \in SUBSET Users
        /\ \A u \in Users :
              members'[u] # {} => members[u] # {} /\ (u \in timed => u \in timed')
    <2>1. CASE ok
      <3>1. Indexes(User(c), members[User(c)] \ run[c].ids)
        BY <1>1, <2>1
      <3> QED  BY <1>3, <1>4, <3>1, IndexesShrink
    <2>2. CASE ~ok
      BY <1>1, <1>3, <2>2 DEF KeysTypeOK
    <2> QED  BY <2>1, <2>2
  <1>9. /\ copies' \in SUBSET CopyKeys
        /\ answers' \in [AnswerKeys -> Queries \union {Nothing}]
    BY <1>1, <1>3 DEF KeysTypeOK
  <1>10. Typed'
    BY <1>1, <1>3, <1>6, <1>7, <1>8, <1>9, MovesKeepTypes
  <1> QED  BY <1>1, <1>3, <1>7, <1>8, <1>10 DEF step

LEMMA GetMembersEffect ==
    ASSUME Typed, NEW c \in Cs, GetMembers(c)
    PROVE  /\ Active(c) /\ Op(c) = "invalidateAll" /\ Typed'
           /\ UNCHANGED keyspace
           /\ \E ok \in BOOLEAN, next \in {"delIndex", "delCopies"} :
                 /\ Does(ok)
                 /\ next = "delIndex" => members[User(c)] = {}
                 /\ Moves(c, Otherwise(c, ok, next), members[User(c)], run[c].keys, run[c].got)
  <1> DEFINE ids == members[User(c)]
             next == IF ids = {} THEN "delIndex" ELSE "delCopies"
  <1>1. PICK ok \in BOOLEAN :
            /\ Does(ok)
            /\ Becomes(c, [To(c, Otherwise(c, ok, next)) EXCEPT !.ids = ids])
    BY DEF GetMembers
  <1>2. At(c, "members") /\ UNCHANGED keyspace
    BY DEF GetMembers
  <1>3. Active(c) /\ Op(c) = "invalidateAll" /\ KeysTypeOK
    BY <1>2, OpAtStep DEF At, AtWork
  <1>4. /\ run[c].keys \in SUBSET Keys /\ User(c) \in Users
        /\ run[c].got \in SUBSET (Keys \union Queries \union {Nothing})
    BY <1>3, FieldsOfActive
  <1>5. /\ ids \in SUBSET Uuids /\ next \in {"delIndex", "delCopies"}
        /\ next = "delIndex" => ids = {}
    BY <1>3, <1>4 DEF KeysTypeOK
  <1> HIDE DEF ids, next
  <1> DEFINE step == Otherwise(c, ok, next)
  <1>6. step \in {next, "failed"}
    BY OtherwiseSteps
  <1>7. Becomes(c, [To(c, step) EXCEPT !.ids = ids])
    BY <1>1
  <1> HIDE DEF step
  <1>8. /\ step \in AtWork \union {"done", "failed"}
        /\ step \in StepsOf(Op(c)) \union {"failed"}
        /\ step \notin {"setCopy", "addIndex"}
    BY <1>3, <1>5, <1>6, StepsOfOps DEF AtWork
  <1>9. Moves(c, step, ids, run[c].keys, run[c].got)
    BY <1>3, <1>4, <1>5, <1>7, <1>8, ToMoves
  <1>10. /\ copies' \in SUBSET CopyKeys /\ timed' \in SUBSET Users
         /\ answers' \in [AnswerKeys -> Queries \union {Nothing}]
         /\ members' \in [Users -> SUBSET Uuids]
    BY <1>2, <1>3 DEF KeysTypeOK, keyspace
  <1>11. Typed'
    BY <1>1, <1>3, <1>8, <1>9, <1>10, MovesKeepTypes
  <1> QED  BY <1>1, <1>2, <1>3, <1>5, <1>9, <1>11 DEF step, ids

LEMMA DeleteMembersEffect ==
    ASSUME Typed, NEW c \in Cs, DeleteMembers(c)
    PROVE  /\ Active(c) /\ Op(c) = "invalidateAll" /\ Typed'
           /\ answers' = answers /\ members' = members /\ timed' = timed
           /\ \E ok \in BOOLEAN :
                 /\ Does(ok)
                 /\ copies' = IF ok THEN copies \ CopiesOf(User(c), run[c].ids) ELSE copies
                 /\ Moves(c, Otherwise(c, ok, "delIndex"), run[c].ids, run[c].keys, run[c].got)
  <1>1. PICK ok \in BOOLEAN :
            /\ Does(ok)
            /\ copies' = IF ok THEN copies \ {CopyKey(User(c), i) : i \in run[c].ids} ELSE copies
            /\ answers' = answers /\ members' = members /\ timed' = timed
            /\ Becomes(c, To(c, Otherwise(c, ok, "delIndex")))
    BY DEF DeleteMembers
  <1>2. At(c, "delCopies")
    BY DEF DeleteMembers
  <1>3. Active(c) /\ Op(c) = "invalidateAll" /\ KeysTypeOK
    BY <1>2, OpAtStep DEF At, AtWork
  <1>4. /\ run[c].ids \in SUBSET Uuids /\ run[c].keys \in SUBSET Keys
        /\ run[c].got \in SUBSET (Keys \union Queries \union {Nothing})
    BY <1>3, FieldsOfActive
  <1> DEFINE step == Otherwise(c, ok, "delIndex")
  <1>5. step \in {"delIndex", "failed"}
    BY OtherwiseSteps
  <1> HIDE DEF step
  <1>6. /\ step \in AtWork \union {"done", "failed"}
        /\ step \in StepsOf(Op(c)) \union {"failed"}
        /\ step \notin {"setCopy", "addIndex"}
    BY <1>3, <1>5, StepsOfOps DEF AtWork
  <1>7. Moves(c, step, run[c].ids, run[c].keys, run[c].got)
    BY <1>1, <1>3, <1>4, <1>6, ToMoves DEF step
  <1>8. /\ copies' \in SUBSET CopyKeys /\ timed' \in SUBSET Users
        /\ answers' \in [AnswerKeys -> Queries \union {Nothing}]
        /\ members' \in [Users -> SUBSET Uuids]
    BY <1>1, <1>3 DEF KeysTypeOK
  <1>9. Typed'
    BY <1>1, <1>3, <1>6, <1>7, <1>8, MovesKeepTypes
  <1> QED  BY <1>1, <1>3, <1>7, <1>9 DEF step, CopiesOf

LEMMA DeleteIndexEffect ==
    ASSUME Typed, NEW c \in Cs, DeleteIndexKey(c)
    PROVE  /\ Active(c) /\ Op(c) = "invalidateAll" /\ Typed'
           /\ copies' = copies /\ answers' = answers
           /\ \A u \in Users :
                 members'[u] # {} => members[u] # {} /\ (u \in timed => u \in timed')
           /\ \E ok \in BOOLEAN :
                 /\ Does(ok)
                 /\ ok => members'[User(c)] = {}
                 /\ Moves(c, Otherwise(c, ok, "keys"), run[c].ids, run[c].keys, run[c].got)
  <1>1. PICK ok \in BOOLEAN :
            /\ Does(ok)
            /\ IF ok THEN Indexes(User(c), {}) ELSE UNCHANGED <<members, timed>>
            /\ copies' = copies /\ answers' = answers
            /\ Becomes(c, To(c, Otherwise(c, ok, "keys")))
    BY DEF DeleteIndexKey
  <1>2. At(c, "delIndex")
    BY DEF DeleteIndexKey
  <1>3. Active(c) /\ Op(c) = "invalidateAll" /\ KeysTypeOK
    BY <1>2, OpAtStep DEF At, AtWork
  <1>4. /\ run[c].ids \in SUBSET Uuids /\ run[c].keys \in SUBSET Keys
        /\ run[c].got \in SUBSET (Keys \union Queries \union {Nothing})
        /\ User(c) \in Users
    BY <1>3, FieldsOfActive
  <1> DEFINE step == Otherwise(c, ok, "keys")
  <1>5. step \in {"keys", "failed"}
    BY OtherwiseSteps
  <1> HIDE DEF step
  <1>6. /\ step \in AtWork \union {"done", "failed"}
        /\ step \in StepsOf(Op(c)) \union {"failed"}
        /\ step \notin {"setCopy", "addIndex"}
    BY <1>3, <1>5, StepsOfOps DEF AtWork
  <1>7. Moves(c, step, run[c].ids, run[c].keys, run[c].got)
    BY <1>1, <1>3, <1>4, <1>6, ToMoves DEF step
  <1>8. /\ members' \in [Users -> SUBSET Uuids] /\ timed' \in SUBSET Users
        /\ ok => members'[User(c)] = {}
        /\ \A u \in Users :
              members'[u] # {} => members[u] # {} /\ (u \in timed => u \in timed')
    <2>1. CASE ok
      <3>1. Indexes(User(c), {})
        BY <1>1, <2>1
      <3> QED  BY <1>3, <1>4, <3>1, IndexesShrink
    <2>2. CASE ~ok
      BY <1>1, <1>3, <2>2 DEF KeysTypeOK
    <2> QED  BY <2>1, <2>2
  <1>9. /\ copies' \in SUBSET CopyKeys
        /\ answers' \in [AnswerKeys -> Queries \union {Nothing}]
    BY <1>1, <1>3 DEF KeysTypeOK
  <1>10. Typed'
    BY <1>1, <1>3, <1>6, <1>7, <1>8, <1>9, MovesKeepTypes
  <1> QED  BY <1>1, <1>3, <1>7, <1>8, <1>10 DEF step
LEMMA FindKeysEffect ==
    ASSUME Typed, NEW c \in Cs, FindKeysOf(c)
    PROVE  /\ Active(c) /\ Op(c) \in {"invalidateAll", "invalidateAnswers", "listActive"}
           /\ Typed' /\ UNCHANGED keyspace
           /\ \E ok \in BOOLEAN, next \in {"done", "batches", "delAnswers"} :
                 /\ Does(ok)
                 /\ next = "done" => Selected(c) = {}
                 /\ next = "batches" <=> (Selected(c) # {} /\ Op(c) = "listActive")
                 /\ Moves(c, Otherwise(c, ok, next), run[c].ids, Selected(c), run[c].got)
  <1> DEFINE keys == Selected(c)
             next == IF keys = {} THEN "done"
                     ELSE IF Op(c) = "listActive" THEN "batches" ELSE "delAnswers"
  <1>1. PICK ok \in BOOLEAN :
            /\ Does(ok)
            /\ Becomes(c, [To(c, Otherwise(c, ok, next)) EXCEPT !.keys = keys])
    BY DEF FindKeysOf
  <1>2. At(c, "keys") /\ UNCHANGED keyspace
    BY DEF FindKeysOf
  <1>3. /\ Active(c) /\ Op(c) \in {"invalidateAll", "invalidateAnswers", "listActive"}
        /\ KeysTypeOK
    BY <1>2, OpAtStep DEF At, AtWork
  <1>4. /\ run[c].ids \in SUBSET Uuids
        /\ run[c].got \in SUBSET (Keys \union Queries \union {Nothing})
    BY <1>3, FieldsOfActive
  <1>5. /\ keys \in SUBSET Keys /\ next \in {"done", "batches", "delAnswers"}
        /\ next = "done" => keys = {}
        /\ next = "batches" <=> (keys # {} /\ Op(c) = "listActive")
    BY <1>3, StoredKeysAreKeys DEF Selected
  <1> HIDE DEF keys, next
  <1> DEFINE step == Otherwise(c, ok, next)
  <1>6. step \in {next, "failed"}
    BY OtherwiseSteps
  <1>7. Becomes(c, [To(c, step) EXCEPT !.keys = keys])
    BY <1>1
  <1> HIDE DEF step
  <1>8. /\ step \in AtWork \union {"done", "failed"}
        /\ step \in StepsOf(Op(c)) \union {"failed"}
        /\ step \notin {"setCopy", "addIndex"}
    <2>1. next = "batches" => Op(c) = "listActive"
      BY <1>5
    <2>2. next = "delAnswers" => Op(c) \in {"invalidateAll", "invalidateAnswers"}
      BY <1>3, <1>5 DEF next
    <2> QED  BY <1>3, <1>5, <1>6, <2>1, <2>2, StepsOfOps DEF AtWork
  <1>9. Moves(c, step, run[c].ids, keys, run[c].got)
    BY <1>3, <1>4, <1>5, <1>7, <1>8, ToMoves
  <1>10. /\ copies' \in SUBSET CopyKeys /\ timed' \in SUBSET Users
         /\ answers' \in [AnswerKeys -> Queries \union {Nothing}]
         /\ members' \in [Users -> SUBSET Uuids]
    BY <1>2, <1>3 DEF KeysTypeOK, keyspace
  <1>11. Typed'
    BY <1>1, <1>3, <1>8, <1>9, <1>10, MovesKeepTypes
  <1> QED  BY <1>1, <1>2, <1>3, <1>5, <1>9, <1>11 DEF step, keys

LEMMA DeleteAnswersEffect ==
    ASSUME Typed, NEW c \in Cs, DeleteAnswerKeys(c)
    PROVE  /\ Active(c) /\ Op(c) \in {"invalidateAll", "invalidateAnswers"} /\ Typed'
           /\ members' = members /\ timed' = timed
           /\ \E ok \in BOOLEAN :
                 /\ Does(ok)
                 /\ copies' \in SUBSET copies
                 /\ copies \ run[c].keys \in SUBSET copies'
                 /\ \A key \in AnswerKeys :
                       /\ key \notin run[c].keys => answers'[key] = answers[key]
                       /\ answers'[key] # Nothing => answers[key] # Nothing
                       /\ ok /\ key \in run[c].keys => answers'[key] = Nothing
                 /\ ok => copies' = copies \ run[c].keys
                 /\ Moves(c, Otherwise(c, ok, "done"), run[c].ids, run[c].keys, run[c].got)
  <1>1. PICK ok \in BOOLEAN :
            /\ Does(ok)
            /\ answers' = IF ok THEN [key \in AnswerKeys |-> IF key \in run[c].keys THEN Nothing
                                                             ELSE answers[key]]
                          ELSE answers
            /\ copies' = IF ok THEN copies \ run[c].keys ELSE copies
            /\ Becomes(c, To(c, Otherwise(c, ok, "done")))
    BY DEF DeleteAnswerKeys
  <1>2. At(c, "delAnswers") /\ members' = members /\ timed' = timed
    BY DEF DeleteAnswerKeys
  <1>3. Active(c) /\ Op(c) \in {"invalidateAll", "invalidateAnswers"} /\ KeysTypeOK
    BY <1>2, OpAtStep DEF At, AtWork
  <1>4. /\ run[c].ids \in SUBSET Uuids /\ run[c].keys \in SUBSET Keys
        /\ run[c].got \in SUBSET (Keys \union Queries \union {Nothing})
    BY <1>3, FieldsOfActive
  <1> DEFINE step == Otherwise(c, ok, "done")
  <1>5. step \in {"done", "failed"}
    BY OtherwiseSteps
  <1> HIDE DEF step
  <1>6. /\ step \in AtWork \union {"done", "failed"}
        /\ step \in StepsOf(Op(c)) \union {"failed"}
        /\ step \notin {"setCopy", "addIndex"}
    BY <1>3, <1>5, StepsOfOps
  <1>7. Moves(c, step, run[c].ids, run[c].keys, run[c].got)
    BY <1>1, <1>3, <1>4, <1>6, ToMoves DEF step
  <1>8. /\ copies' \in SUBSET CopyKeys /\ copies' \in SUBSET copies
        /\ copies \ run[c].keys \in SUBSET copies'
        /\ ok => copies' = copies \ run[c].keys
    BY <1>1, <1>3 DEF KeysTypeOK
  <1>9. /\ answers' \in [AnswerKeys -> Queries \union {Nothing}]
        /\ \A key \in AnswerKeys :
              /\ key \notin run[c].keys => answers'[key] = answers[key]
              /\ answers'[key] # Nothing => answers[key] # Nothing
              /\ ok /\ key \in run[c].keys => answers'[key] = Nothing
    <2>1. CASE ok
      <3>1. answers' = [key \in AnswerKeys |-> IF key \in run[c].keys THEN Nothing
                                               ELSE answers[key]]
        BY <1>1, <2>1
      <3> QED  BY <1>3, <3>1 DEF KeysTypeOK
    <2>2. CASE ~ok
      BY <1>1, <1>3, <2>2 DEF KeysTypeOK
    <2> QED  BY <2>1, <2>2
  <1>10. members' \in [Users -> SUBSET Uuids] /\ timed' \in SUBSET Users
    BY <1>2, <1>3 DEF KeysTypeOK
  <1>11. Typed'
    BY <1>1, <1>3, <1>6, <1>7, <1>8, <1>9, <1>10, MovesKeepTypes
  <1> QED  BY <1>1, <1>2, <1>3, <1>7, <1>8, <1>9, <1>11 DEF step

LEMMA GetBatchEffect ==
    ASSUME Typed, NEW c \in Cs, GetBatch(c)
    PROVE  /\ Active(c) /\ Op(c) = "listActive" /\ At(c, "batches") /\ Typed'
           /\ UNCHANGED keyspace
           /\ \E ok \in BOOLEAN, left \in SUBSET run[c].keys, step \in {"done", "batches"},
                 got \in SUBSET (Keys \union Queries \union {Nothing}) :
                 /\ Does(ok)
                 /\ step = "done" => left = {}
                 /\ ok => got = run[c].got \union ((run[c].keys \ left) \intersect StoredKeys)
                 /\ Moves(c, step, run[c].ids, left, got)
  <1>1. PICK ok \in BOOLEAN, batch \in SUBSET run[c].keys :
            /\ Does(ok)
            /\ LET left == run[c].keys \ batch IN
               Becomes(c, [To(c, IF left = {} THEN "done" ELSE "batches") EXCEPT
                              !.keys = left,
                              !.got = IF ok THEN @ \union (batch \intersect StoredKeys) ELSE @])
    BY DEF GetBatch
  <1>2. At(c, "batches") /\ UNCHANGED keyspace
    BY DEF GetBatch
  <1>3. Active(c) /\ Op(c) = "listActive" /\ KeysTypeOK
    BY <1>2, OpAtStep DEF At, AtWork
  <1>4. /\ run[c].ids \in SUBSET Uuids /\ run[c].keys \in SUBSET Keys
        /\ run[c].got \in SUBSET (Keys \union Queries \union {Nothing})
    BY <1>3, FieldsOfActive
  <1> DEFINE left == run[c].keys \ batch
             step == IF left = {} THEN "done" ELSE "batches"
             got == IF ok THEN run[c].got \union (batch \intersect StoredKeys) ELSE run[c].got
  <1>5. Becomes(c, [To(c, step) EXCEPT !.keys = left, !.got = got])
    <2>1. To(c, step).got = run[c].got
      BY <1>3 DEF To, Active, FullRun, RunsAt
    <2>2. [To(c, step) EXCEPT !.keys = left, !.got = got]
          = [To(c, step) EXCEPT !.keys = left,
                                !.got = IF ok THEN @ \union (batch \intersect StoredKeys) ELSE @]
      BY <1>3, <2>1 DEF To, Active, FullRun, RunsAt
    <2> QED  BY <1>1, <2>2
  <1>6. /\ left \in SUBSET run[c].keys /\ left \in SUBSET Keys /\ run[c].keys \ left = batch
        /\ step \in {"done", "batches"} /\ (step = "done" => left = {})
        /\ got \in SUBSET (Keys \union Queries \union {Nothing})
        /\ ok => got = run[c].got \union (batch \intersect StoredKeys)
    BY <1>3, <1>4, StoredKeysAreKeys
  <1> HIDE DEF left, step, got
  <1>7. /\ step \in AtWork \union {"done", "failed"}
        /\ step \in StepsOf(Op(c)) \union {"failed"}
        /\ step \notin {"setCopy", "addIndex"}
    BY <1>3, <1>6, StepsOfOps DEF AtWork
  <1>8. Moves(c, step, run[c].ids, left, got)
    BY <1>3, <1>4, <1>5, <1>6, <1>7, ToMoves
  <1>9. /\ copies' \in SUBSET CopyKeys /\ timed' \in SUBSET Users
        /\ answers' \in [AnswerKeys -> Queries \union {Nothing}]
        /\ members' \in [Users -> SUBSET Uuids]
    BY <1>2, <1>3 DEF KeysTypeOK, keyspace
  <1>10. Typed'
    BY <1>1, <1>3, <1>7, <1>8, <1>9, MovesKeepTypes
  <1> QED  BY <1>1, <1>2, <1>3, <1>6, <1>8, <1>10

LEMMA GetAnswerEffect ==
    ASSUME Typed, NEW c \in Cs, GetAnswer(c)
    PROVE  /\ Active(c) /\ Op(c) = "lookUp" /\ Typed'
           /\ UNCHANGED keyspace
           /\ \E ok, got :
                 /\ ok \in BOOLEAN /\ Does(ok)
                 /\ \A q \in got : /\ q \in Queries
                                   /\ q # Nothing
                                   /\ q = answers[AnswerKey(User(c), run[c].args.query)]
                 /\ AnswerKey(User(c), run[c].args.query) \in AnswerKeys
                 /\ Moves(c, "done", run[c].ids, run[c].keys, got)
  <1> DEFINE answer == answers[AnswerKey(User(c), run[c].args.query)]
  <1>1. PICK ok \in BOOLEAN :
            /\ Does(ok)
            /\ Becomes(c, [To(c, "done") EXCEPT !.got =
                              IF ok /\ answer # Nothing THEN {answer} ELSE {}])
    BY DEF GetAnswer
  <1>2. At(c, "get") /\ UNCHANGED keyspace
    BY DEF GetAnswer
  <1>3. Active(c) /\ Op(c) = "lookUp" /\ KeysTypeOK
    BY <1>2, OpAtStep DEF At, AtWork
  <1>4. /\ run[c].ids \in SUBSET Uuids /\ run[c].keys \in SUBSET Keys
    BY <1>3, FieldsOfActive
  <1> DEFINE got == IF ok /\ answer # Nothing THEN {answer} ELSE {}
  <1>5. Becomes(c, [To(c, "done") EXCEPT !.got = got])
    BY <1>1
  <1>6. /\ AnswerKey(User(c), run[c].args.query) \in AnswerKeys
        /\ got \in SUBSET (Keys \union Queries \union {Nothing})
        /\ \A q \in got : q \in Queries /\ q # Nothing /\ q = answer
    <2>1. InStep(run[c]) /\ User(c) \in Users
      BY <1>3, FieldsOfActive DEF Typed, CallsAreInStep
    <2>2. AnswerKey(User(c), run[c].args.query) \in AnswerKeys
      BY <1>3, <2>1 DEF AnswerKeys, InStep, Op
    <2>3. answer \in Queries \union {Nothing}
      BY <1>3, <2>2 DEF KeysTypeOK
    <2> QED  BY <2>2, <2>3
  <1> HIDE DEF got
  <1>7. /\ "done" \in AtWork \union {"done", "failed"}
        /\ "done" \in StepsOf(Op(c)) \union {"failed"}
    BY <1>3, StepsOfOps
  <1>8. Moves(c, "done", run[c].ids, run[c].keys, got)
    BY <1>3, <1>4, <1>5, <1>6, <1>7, ToMoves
  <1>9. /\ copies' \in SUBSET CopyKeys /\ timed' \in SUBSET Users
        /\ answers' \in [AnswerKeys -> Queries \union {Nothing}]
        /\ members' \in [Users -> SUBSET Uuids]
    BY <1>2, <1>3 DEF KeysTypeOK, keyspace
  <1>10. Typed'
    BY <1>1, <1>3, <1>7, <1>8, <1>9, MovesKeepTypes
  <1> QED  BY <1>1, <1>2, <1>3, <1>6, <1>8, <1>10
(* Each step of a call at work, whichever it is.                           *)
LEMMA EveryStepMoves ==
    ASSUME Typed, NEW c \in Cs, KeysStep(c), ~Call(c)
    PROVE  /\ Active(c) /\ run[c].step \in AtWork /\ Typed'
           /\ \E ok, step, ids, keys, got :
                 ok \in BOOLEAN /\ Does(ok) /\ Moves(c, step, ids, keys, got)
           /\ Op(c) = "listActive" => FindKeysOf(c) \/ GetBatch(c)
           /\ Op(c) = "lookUp" => GetAnswer(c)
           /\ Op(c) = "invalidateAll" =>
                 \/ GetMembers(c) \/ DeleteMembers(c) \/ DeleteIndexKey(c)
                 \/ FindKeysOf(c) \/ DeleteAnswerKeys(c)
  <1>1. ~At(c, "idle") /\ run[c].step \in AtWork
    BY DEF KeysStep, SetAnswerKey, SetCopyKey, AddMember, ExpireIndexKey, DeleteCopy,
           RemoveMember, GetMembers, DeleteMembers, DeleteIndexKey, FindKeysOf,
           DeleteAnswerKeys, GetBatch, GetAnswer, At, AtWork
  <1>2. CASE SetAnswerKey(c)
    BY <1>1, <1>2, SetAnswerEffect
  <1>3. CASE SetCopyKey(c)
    BY <1>1, <1>3, SetCopyEffect
  <1>4. CASE AddMember(c)
    BY <1>1, <1>4, AddMemberEffect
  <1>5. CASE ExpireIndexKey(c)
    BY <1>1, <1>5, ExpireEffect
  <1>6. CASE DeleteCopy(c)
    BY <1>1, <1>6, DeleteCopyEffect
  <1>7. CASE RemoveMember(c)
    BY <1>1, <1>7, RemoveMemberEffect
  <1>8. CASE GetMembers(c)
    BY <1>1, <1>8, GetMembersEffect
  <1>9. CASE DeleteMembers(c)
    BY <1>1, <1>9, DeleteMembersEffect
  <1>10. CASE DeleteIndexKey(c)
    BY <1>1, <1>10, DeleteIndexEffect
  <1>11. CASE FindKeysOf(c)
    BY <1>1, <1>11, FindKeysEffect
  <1>12. CASE DeleteAnswerKeys(c)
    BY <1>1, <1>12, DeleteAnswersEffect
  <1>13. CASE GetBatch(c)
    BY <1>1, <1>13, GetBatchEffect
  <1>14. CASE GetAnswer(c)
    BY <1>1, <1>14, GetAnswerEffect
  <1> QED  BY <1>2, <1>3, <1>4, <1>5, <1>6, <1>7, <1>8, <1>9, <1>10, <1>11, <1>12,
              <1>13, <1>14 DEF KeysStep

(* A new call; it changes nothing of the keys, and no other call.          *)
LEMMA CallEffect ==
    ASSUME KeysAssumption, Typed, NEW c \in Cs, Call(c)
    PROVE  /\ At(c, "idle") /\ Typed' /\ UNCHANGED keyspace /\ keyFaults' = keyFaults
           /\ solo' = IF \E d \in Cs : Running(d) THEN {} ELSE {c}
           /\ \A d \in Cs \ {c} : run'[d] = run[d]
           /\ run'[c] \in FullRun /\ run'[c].step = FirstStep(run'[c].args.op)
           /\ run'[c].step \in StepsOf(run'[c].args.op) \ {"done"}
           /\ run'[c].present = copies /\ run'[c].former = StoredKeys
  <1>1. /\ At(c, "idle") /\ UNCHANGED keyspace /\ keyFaults' = keyFaults
        /\ solo' = IF \E d \in Cs : Running(d) THEN {} ELSE {c}
    BY DEF Call
  <1>2. PICK a \in Callable :
            run' = [run EXCEPT ![c] =
                      [step |-> FirstStep(a.op), args |-> a, ids |-> a.ids, keys |-> {},
                       got |-> {}, present |-> copies, former |-> StoredKeys]]
    BY DEF Call
  <1> DEFINE r == [step |-> FirstStep(a.op), args |-> a, ids |-> a.ids, keys |-> {},
                   got |-> {}, present |-> copies, former |-> StoredKeys]
  <1>3. /\ run' = [run EXCEPT ![c] = r]
        /\ r.step = FirstStep(a.op) /\ r.args = a /\ r.ids = a.ids
        /\ r.present = copies /\ r.former = StoredKeys
    BY <1>2
  <1>4. /\ a \in CallType /\ a.op \in Ops /\ a.ids \in SUBSET Uuids
        /\ a.op = "set" => a.ids # {}
        /\ a.op = "lookUp" => a.query \in Queries
    BY DEF KeysAssumption, CallType
  <1>5. /\ FirstStep(a.op) \in StepsOf(a.op) \ {"done"} /\ FirstStep(a.op) \in AtWork
        /\ FirstStep(a.op) # "addIndex"
        /\ FirstStep(a.op) = "setCopy" => a.op = "set"
    <2>1. a.op \in {"set", "remove", "invalidateAll", "invalidateAnswers", "fill", "lookUp",
                    "listActive"}
      BY <1>4 DEF Ops
    <2>2. /\ FirstStep("set") = "setCopy" /\ FirstStep("remove") = "delCopy"
          /\ FirstStep("invalidateAll") = "members" /\ FirstStep("invalidateAnswers") = "keys"
          /\ FirstStep("listActive") = "keys" /\ FirstStep("fill") = "setAnswer"
          /\ FirstStep("lookUp") = "get"
      BY DEF FirstStep
    <2> QED  BY <2>1, <2>2, StepsOfOps DEF AtWork
  <1>6. copies \in SUBSET CopyKeys /\ StoredKeys \in SUBSET Keys
    BY StoredKeysAreKeys DEF Typed, KeysTypeOK
  <1>7. r \in FullRun
    BY <1>4, <1>5, <1>6 DEF FullRun, RunsAt
  <1> HIDE DEF r
  <1>8. InStep(r)
    BY <1>3, <1>4, <1>5 DEF InStep
  <1>9. /\ run'[c] = r /\ run' \in [Cs -> RunTypes]
        /\ \A d \in Cs \ {c} : run'[d] = run[d]
    BY <1>3, <1>7 DEF Typed, KeysTypeOK, RunTypes
  <1>10. KeysTypeOK'
    BY <1>1, <1>9 DEF Typed, KeysTypeOK, keyspace
  <1>11. CallsAreInStep'
    <2> SUFFICES ASSUME NEW d \in Cs, run'[d] \in FullRun
                 PROVE  InStep(run'[d])
      BY DEF CallsAreInStep, Active
    <2>1. CASE d = c
      BY <1>8, <1>9, <2>1
    <2>2. CASE d # c
      BY <1>9, <2>2 DEF Typed, CallsAreInStep, Active
    <2> QED  BY <2>1, <2>2
  <1> QED  BY <1>1, <1>3, <1>5, <1>7, <1>9, <1>10, <1>11 DEF Typed

(* The process stops: what is over stays as it is, the rest has failed.    *)
LEMMA StopEffect ==
    ASSUME Typed, StopCalls
    PROVE  /\ Typed' /\ UNCHANGED keyspace /\ solo' = solo
           /\ keyFaults' \in Nat /\ keyFaults' # 0
           /\ \A d \in Cs : /\ run'[d].step \notin AtWork
                            /\ run'[d] \in FullRun => run'[d] = run[d] /\ run[d].step = "done"
  <1>1. /\ keyFaults' = keyFaults + 1 /\ UNCHANGED keyspace /\ solo' = solo
        /\ run' = [d \in Cs |-> IF Running(d) THEN Kept(To(d, "failed")) ELSE run[d]]
    BY DEF StopCalls
  <1>2. ASSUME NEW d \in Cs
        PROVE  /\ run'[d] \in RunTypes /\ run'[d].step \notin AtWork
               /\ run'[d] \in FullRun => run'[d] = run[d] /\ run[d].step = "done"
    <2>1. CASE Running(d)
      <3>1. run[d] \in RunsAt(AtWork \union {"done"})
        BY <2>1, RunningIsActive DEF Typed, Active, FullRun
      <3>2. To(d, "failed").step = "failed"
        BY <3>1 DEF To, RunsAt
      <3>3. Kept(To(d, "failed")) = [step |-> "failed"]
        BY <3>2 DEF Kept
      <3>4. run'[d] = [step |-> "failed"]
        BY <1>1, <2>1, <3>3
      <3>5. run'[d] \notin FullRun /\ run'[d].step \notin AtWork
        <4>1. run'[d].step = "failed"
          BY <3>4
        <4> QED  BY <4>1 DEF FullRun, RunsAt, AtWork
      <3> QED  BY <3>4, <3>5 DEF RunTypes
    <2>2. CASE ~Running(d)
      <3>1. run'[d] = run[d] /\ run[d] \in RunTypes
        BY <1>1, <2>2 DEF Typed, KeysTypeOK
      <3>2. run[d].step \notin AtWork
        BY <2>2, RunningIsActive DEF Typed
      <3>3. run[d] \in FullRun => run[d].step = "done"
        BY <2>2, RunningIsActive DEF Typed, Active
      <3> QED  BY <3>1, <3>2, <3>3
    <2> QED  BY <2>1, <2>2
  <1>3. keyFaults' \in Nat /\ keyFaults' # 0
    BY <1>1 DEF Typed, KeysTypeOK
  <1>4. run' \in [Cs -> RunTypes]
    BY <1>1, <1>2
  <1>5. KeysTypeOK'
    BY <1>1, <1>3, <1>4 DEF Typed, KeysTypeOK, keyspace
  <1>6. CallsAreInStep'
    BY <1>2 DEF Typed, CallsAreInStep, Active
  <1> QED  BY <1>1, <1>2, <1>3, <1>5, <1>6 DEF Typed

LEMMA TypedInit == KeysAssumption /\ KeysInit => Typed
  <1> SUFFICES ASSUME KeysAssumption, KeysInit PROVE Typed
    OBVIOUS
  <1>1. ASSUME NEW c \in Cs
        PROVE  run[c] = [step |-> "idle"]
    BY DEF KeysInit
  <1>2. run \in [Cs -> RunTypes]
    BY <1>1 DEF KeysInit, RunTypes
  <1>3. KeysTypeOK
    BY <1>2 DEF KeysInit, KeysTypeOK
  <1>4. ASSUME NEW c \in Cs
        PROVE  ~Active(c)
    <2>1. run[c].step = "idle"
      BY <1>1
    <2> QED  BY <2>1 DEF Active, FullRun, RunsAt, AtWork
  <1> QED  BY <1>3, <1>4 DEF Typed, CallsAreInStep

-----------------------------------------------------------------------------
(* While no command failed, a call is about to give an index without a     *)
(* time to live one.                                                       *)
ToExpire == {"setCopy", "addIndex", "expire"}
WillExpire(c, u) == run[c].step \in ToExpire /\ User(c) = u

IndexWillExpire ==
    keyFaults = 0 =>
        \A u \in Users : members[u] # {} => u \in timed \/ \E c \in Cs : WillExpire(c, u)

LEMMA MovesKeepExpiry ==
    ASSUME Typed, IndexWillExpire, NEW c \in Cs, NEW ok \in BOOLEAN, Does(ok),
           NEW step, NEW ids, NEW keys, NEW got, Moves(c, step, ids, keys, got),
           ASSUME ok, NEW u \in Users, members'[u] # {}, u \notin timed'
           PROVE  \/ step \in ToExpire /\ User(c) = u
                  \/ members[u] # {} /\ u \notin timed /\ ~WillExpire(c, u)
    PROVE  IndexWillExpire'
  <1> SUFFICES ASSUME keyFaults' = 0, NEW u \in Users, members'[u] # {}, u \notin timed'
               PROVE  \E d \in Cs : run'[d].step \in ToExpire /\ run'[d].args.user = u
    BY DEF IndexWillExpire, WillExpire, User
  <1>1. ok /\ keyFaults = 0
    BY DoesCounts DEF Typed
  <1>2. \/ step \in ToExpire /\ User(c) = u
        \/ members[u] # {} /\ u \notin timed /\ ~WillExpire(c, u)
    BY <1>1
  <1>3. CASE step \in ToExpire /\ User(c) = u
    <2>1. run'[c].step = step /\ run'[c].args = run[c].args
      BY <1>3 DEF Moves, ToExpire, AtWork
    <2> QED  BY <1>3, <2>1 DEF User
  <1>4. CASE members[u] # {} /\ u \notin timed /\ ~WillExpire(c, u)
    <2>1. PICK d \in Cs : WillExpire(d, u)
      BY <1>1, <1>4 DEF IndexWillExpire
    <2>2. Follows(d)
      BY <1>4, <2>1 DEF Moves
    <2>3. run[d] \in FullRun
      BY <2>1, RunningIsActive DEF WillExpire, ToExpire, AtWork, Active, Typed
    <2>4. run'[d].step = run[d].step /\ run'[d].args = run[d].args
      BY <2>2, <2>3 DEF Follows
    <2> QED  BY <2>1, <2>4 DEF WillExpire, User
  <1> QED  BY <1>2, <1>3, <1>4
(* A step that only takes indexes away, of a call that was not about to    *)
(* give one a time to live.                                                *)
LEMMA RemovalKeepsExpiry ==
    ASSUME Typed, IndexWillExpire, NEW c \in Cs, run[c].step \notin ToExpire,
           NEW ok \in BOOLEAN, Does(ok),
           NEW step, NEW ids, NEW keys, NEW got, Moves(c, step, ids, keys, got),
           \A u \in Users : members'[u] # {} => members[u] # {} /\ (u \in timed => u \in timed')
    PROVE  IndexWillExpire'
  <1>1. ASSUME ok, NEW u \in Users, members'[u] # {}, u \notin timed'
        PROVE  \/ step \in ToExpire /\ User(c) = u
               \/ members[u] # {} /\ u \notin timed /\ ~WillExpire(c, u)
    BY <1>1 DEF WillExpire
  <1> QED  BY <1>1, MovesKeepExpiry

(* All others leave indexes as they are, or take members away.             *)
LEMMA StepTakesIndexes ==
    ASSUME Typed, NEW c \in Cs, KeysStep(c),
           ~(Call(c) \/ SetCopyKey(c) \/ AddMember(c) \/ ExpireIndexKey(c))
    PROVE  /\ run[c].step \notin ToExpire
           /\ \A u \in Users : members'[u] # {} => members[u] # {} /\ (u \in timed => u \in timed')
  <1>1. run[c].step \notin ToExpire
    BY DEF KeysStep, SetAnswerKey, DeleteCopy, RemoveMember, GetMembers, DeleteMembers,
           DeleteIndexKey, FindKeysOf, DeleteAnswerKeys, GetBatch, GetAnswer, At, ToExpire
  <1>2. CASE RemoveMember(c) \/ DeleteIndexKey(c)
    BY <1>1, <1>2, RemoveMemberEffect, DeleteIndexEffect
  <1>3. CASE ~(RemoveMember(c) \/ DeleteIndexKey(c))
    <2>1. members' = members /\ timed' = timed
      BY <1>3 DEF KeysStep, SetAnswerKey, DeleteCopy, GetMembers, DeleteMembers, FindKeysOf,
                  DeleteAnswerKeys, GetBatch, GetAnswer, keyspace
    <2> QED  BY <1>1, <2>1
  <1> QED  BY <1>2, <1>3

LEMMA StepKeepsExpiry ==
    ASSUME KeysAssumption, Typed, IndexWillExpire, NEW c \in Cs, KeysStep(c)
    PROVE  IndexWillExpire'
  <1>1. CASE Call(c)
    <2>1. /\ At(c, "idle") /\ UNCHANGED keyspace /\ keyFaults' = keyFaults
          /\ \A d \in Cs \ {c} : run'[d] = run[d]
      BY <1>1, CallEffect
    <2>2. ASSUME NEW u \in Users, NEW d \in Cs, WillExpire(d, u)
          PROVE  WillExpire(d, u)'
      <3>1. d # c
        BY <2>1, <2>2 DEF WillExpire, ToExpire, At
      <3> QED  BY <2>1, <2>2, <3>1 DEF WillExpire, User
    <2> QED  BY <2>1, <2>2 DEF IndexWillExpire, keyspace
  <1>2. CASE SetCopyKey(c)
    <2>1. members' = members /\ timed' = timed
      BY <1>2, SetCopyEffect
    <2>2. PICK ok \in BOOLEAN :
              /\ Does(ok)
              /\ Moves(c, Otherwise(c, ok, "addIndex"), run[c].ids, run[c].keys, run[c].got)
      BY <1>2, SetCopyEffect
    <2>3. ASSUME ok, NEW u \in Users, members'[u] # {}, u \notin timed'
          PROVE  \/ Otherwise(c, ok, "addIndex") \in ToExpire /\ User(c) = u
                 \/ members[u] # {} /\ u \notin timed /\ ~WillExpire(c, u)
      BY <2>1, <2>3, OtherwiseSteps DEF WillExpire, ToExpire
    <2> QED  BY <2>2, <2>3, MovesKeepExpiry
  <1>3. CASE AddMember(c)
    <2>1. timed' = timed
      BY <1>3, AddMemberEffect
    <2>2. PICK ok \in BOOLEAN, next \in {"expire", "setCopy"}, left \in SUBSET Uuids :
              /\ Does(ok)
              /\ \A u \in Users \ {User(c)} : members'[u] = members[u]
              /\ Moves(c, Otherwise(c, ok, next), left, run[c].keys, run[c].got)
      BY <1>3, AddMemberEffect
    <2> DEFINE step == Otherwise(c, ok, next)
    <2>3. ok => step = next
      BY OtherwiseSteps
    <2>4. Does(ok) /\ Moves(c, step, left, run[c].keys, run[c].got)
      BY <2>2
    <2> HIDE DEF step
    <2>5. ASSUME ok, NEW u \in Users, members'[u] # {}, u \notin timed'
          PROVE  \/ step \in ToExpire /\ User(c) = u
                 \/ members[u] # {} /\ u \notin timed /\ ~WillExpire(c, u)
      <3>1. CASE u = User(c)
        <4>1. step \in {"expire", "setCopy"}
          BY <2>3, <2>5
        <4> QED  BY <3>1, <4>1 DEF ToExpire
      <3>2. CASE u # User(c)
        <4>1. members'[u] = members[u]
          BY <2>2, <3>2
        <4> QED  BY <2>1, <2>5, <3>2, <4>1 DEF WillExpire
      <3> QED  BY <3>1, <3>2
    <2> QED  BY <2>4, <2>5, MovesKeepExpiry
  <1>4. CASE ExpireIndexKey(c)
    <2>1. members' = members
      BY <1>4, ExpireEffect
    <2>2. PICK ok \in BOOLEAN :
              /\ Does(ok)
              /\ timed' = IF ok /\ members[User(c)] # {} THEN timed \union {User(c)} ELSE timed
              /\ Moves(c, Otherwise(c, ok, "done"), run[c].ids, run[c].keys, run[c].got)
      BY <1>4, ExpireEffect
    <2>3. ASSUME ok, NEW u \in Users, members'[u] # {}, u \notin timed'
          PROVE  \/ Otherwise(c, ok, "done") \in ToExpire /\ User(c) = u
                 \/ members[u] # {} /\ u \notin timed /\ ~WillExpire(c, u)
      <3>1. u # User(c) /\ u \notin timed
        BY <2>1, <2>2, <2>3
      <3> QED  BY <2>1, <2>3, <3>1 DEF WillExpire
    <2> QED  BY <2>2, <2>3, MovesKeepExpiry
  <1>5. CASE ~(Call(c) \/ SetCopyKey(c) \/ AddMember(c) \/ ExpireIndexKey(c))
    <2>1. PICK ok, step, ids, keys, got :
              ok \in BOOLEAN /\ Does(ok) /\ Moves(c, step, ids, keys, got)
      BY <1>5, EveryStepMoves
    <2>2. /\ run[c].step \notin ToExpire
          /\ \A u \in Users : members'[u] # {} => members[u] # {} /\ (u \in timed => u \in timed')
      BY <1>5, StepTakesIndexes
    <2> QED  BY <2>1, <2>2, RemovalKeepsExpiry
  <1> QED  BY <1>1, <1>2, <1>3, <1>4, <1>5

-----------------------------------------------------------------------------
(* The copies a list is to have are there until it is done, and while no   *)
(* command failed, those it found are in its batches or in what it got.    *)
ListIsUnderWay(c) ==
    /\ run[c].step \in {"keys", "batches"} => run[c].present \in SUBSET copies
    /\ keyFaults = 0 /\ run[c].step \in {"batches", "done"} =>
          \A key \in run[c].present :
              \/ key \in run[c].got \/ PassesForIndex(key)
              \/ run[c].step = "batches" /\ key \in run[c].keys

ListsAreUnderWay == \A c \in Cs : Active(c) /\ Op(c) = "listActive" => ListIsUnderWay(c)

(* A step of another call, or of a list itself that keeps what it found.   *)
LEMMA MovesKeepLists ==
    ASSUME Typed, ListsAreUnderWay, NEW c \in Cs, NEW ok \in BOOLEAN, Does(ok),
           NEW step, NEW ids, NEW keys, NEW got, Moves(c, step, ids, keys, got),
           ASSUME Op(c) = "listActive"
           PROVE  /\ step \in {"keys", "batches"} => run[c].present \in SUBSET copies'
                  /\ ok /\ keyFaults = 0 /\ step \in {"batches", "done"} =>
                        \A key \in run[c].present :
                            \/ key \in got \/ PassesForIndex(key)
                            \/ step = "batches" /\ key \in keys
    PROVE  ListsAreUnderWay'
  <1> SUFFICES ASSUME NEW d \in Cs, run'[d] \in FullRun, run'[d].args.op = "listActive"
               PROVE  ListIsUnderWay(d)'
    BY DEF ListsAreUnderWay, Active, Op
  <1>1. keyFaults' = 0 => ok /\ keyFaults = 0
    BY DoesCounts DEF Typed
  <1>2. CASE d = c
    <2>1. /\ run'[c].step = step /\ run'[c].args = run[c].args /\ run'[c].keys = keys
          /\ run'[c].got = got /\ run'[c].present = run[c].present
      BY <1>2 DEF Moves
    <2>2. Op(c) = "listActive"
      BY <1>2, <2>1 DEF Op
    <2> QED  BY <1>1, <1>2, <2>1, <2>2 DEF ListIsUnderWay
  <1>3. CASE d # c
    <2>1. Follows(d)
      BY <1>3 DEF Moves
    <2>2. run[d] \in FullRun
      BY <2>1 DEF Follows
    <2>3. /\ run'[d].step = run[d].step /\ run'[d].args = run[d].args
          /\ run'[d].keys = run[d].keys /\ run'[d].got = run[d].got
          /\ run'[d].present \in SUBSET run[d].present
          /\ run[d].step \in AtWork => run'[d].present \in SUBSET copies'
      BY <2>1, <2>2 DEF Follows
    <2>4. ListIsUnderWay(d)
      BY <2>2, <2>3 DEF ListsAreUnderWay, Active, Op
    <2>5. run'[d].step \in {"keys", "batches"} => run'[d].present \in SUBSET copies'
      BY <2>3 DEF AtWork
    <2>6. keyFaults' = 0 /\ run'[d].step \in {"batches", "done"} =>
             \A key \in run'[d].present :
                 \/ key \in run'[d].got \/ PassesForIndex(key)
                 \/ run'[d].step = "batches" /\ key \in run'[d].keys
      BY <1>1, <2>3, <2>4 DEF ListIsUnderWay
    <2> QED  BY <2>5, <2>6 DEF ListIsUnderWay
  <1> QED  BY <1>2, <1>3

LEMMA OthersKeepLists ==
    ASSUME Typed, ListsAreUnderWay, NEW c \in Cs, NEW ok \in BOOLEAN, Does(ok),
           NEW step, NEW ids, NEW keys, NEW got, Moves(c, step, ids, keys, got),
           Op(c) # "listActive"
    PROVE  ListsAreUnderWay'
  BY MovesKeepLists

(* A key of a copy passes for one of a copy.                               *)
LEMMA CopiesPass ==
    ASSUME KeysAssumption, NEW key \in CopyKeys
    PROVE  PassesForCopy(key)
  <1>1. PICK u \in Users, i \in Uuids : key = <<u, i>>
    BY DEF CopyKeys, CopyKey
  <1>2. Len(key) = 2 /\ key[2] = i /\ i \in UuidLike
    BY <1>1 DEF KeysAssumption
  <1> QED  BY <1>2 DEF PassesForCopy

LEMMA FindKeepsLists ==
    ASSUME KeysAssumption, Typed, ListsAreUnderWay, NEW c \in Cs, FindKeysOf(c)
    PROVE  ListsAreUnderWay'
  <1>1. PICK ok \in BOOLEAN, next \in {"done", "batches", "delAnswers"} :
            /\ Does(ok)
            /\ next = "done" => Selected(c) = {}
            /\ next = "batches" <=> (Selected(c) # {} /\ Op(c) = "listActive")
            /\ Moves(c, Otherwise(c, ok, next), run[c].ids, Selected(c), run[c].got)
    BY FindKeysEffect
  <1>2. Active(c) /\ UNCHANGED keyspace /\ At(c, "keys")
    BY FindKeysEffect DEF FindKeysOf
  <1> DEFINE step == Otherwise(c, ok, next)
  <1>3. step \in {next, "failed"} /\ (ok => step = next)
    BY OtherwiseSteps
  <1> HIDE DEF step
  <1>4. ASSUME Op(c) = "listActive"
        PROVE  /\ step \in {"keys", "batches"} => run[c].present \in SUBSET copies'
               /\ ok /\ keyFaults = 0 /\ step \in {"batches", "done"} =>
                     \A key \in run[c].present :
                         \/ key \in run[c].got \/ PassesForIndex(key)
                         \/ step = "batches" /\ key \in Selected(c)
    <2>1. run[c].present \in SUBSET copies
      BY <1>2, <1>4 DEF ListsAreUnderWay, ListIsUnderWay, At
    <2>2. ASSUME NEW key \in run[c].present
          PROVE  PassesForIndex(key) \/ key \in Selected(c)
      <3>1. key \in CopyKeys /\ key \in StoredKeys
        BY <2>1 DEF StoredKeys, Typed, KeysTypeOK
      <3>2. PassesForCopy(key)
        BY <3>1, CopiesPass
      <3> QED  BY <1>4, <3>1, <3>2 DEF Selected
    <2>3. ok => step = next
      BY <1>3
    <2> QED  BY <1>1, <1>2, <2>1, <2>2, <2>3 DEF keyspace
  <1>5. Moves(c, step, run[c].ids, Selected(c), run[c].got)
    BY <1>1 DEF step
  <1> QED  BY <1>1, <1>4, <1>5, MovesKeepLists

LEMMA BatchKeepsLists ==
    ASSUME Typed, ListsAreUnderWay, NEW c \in Cs, GetBatch(c)
    PROVE  ListsAreUnderWay'
  <1>1. /\ Active(c) /\ Op(c) = "listActive" /\ At(c, "batches") /\ UNCHANGED keyspace
    BY GetBatchEffect
  <1>2. PICK ok \in BOOLEAN, left \in SUBSET run[c].keys, step \in {"done", "batches"},
             got \in SUBSET (Keys \union Queries \union {Nothing}) :
            /\ Does(ok)
            /\ step = "done" => left = {}
            /\ ok => got = run[c].got \union ((run[c].keys \ left) \intersect StoredKeys)
            /\ Moves(c, step, run[c].ids, left, got)
    BY GetBatchEffect
  <1>3. ListIsUnderWay(c)
    BY <1>1 DEF ListsAreUnderWay
  <1>4. run[c].present \in SUBSET copies /\ copies' = copies
    BY <1>1, <1>3 DEF ListIsUnderWay, At, keyspace
  <1>5. ASSUME ok, keyFaults = 0, NEW key \in run[c].present
        PROVE  \/ key \in got \/ PassesForIndex(key)
               \/ step = "batches" /\ key \in left
    <2>1. key \in run[c].got \/ PassesForIndex(key) \/ key \in run[c].keys
      BY <1>1, <1>3, <1>5 DEF ListIsUnderWay, At
    <2>2. key \in StoredKeys
      BY <1>4 DEF StoredKeys
    <2>3. got = run[c].got \union ((run[c].keys \ left) \intersect StoredKeys)
      BY <1>2, <1>5
    <2>4. key \in got \/ PassesForIndex(key) \/ key \in left
      BY <2>1, <2>2, <2>3
    <2> QED  BY <1>2, <2>4
  <1> QED  BY <1>2, <1>4, <1>5, MovesKeepLists

LEMMA StepKeepsLists ==
    ASSUME KeysAssumption, Typed, ListsAreUnderWay, NEW c \in Cs, KeysStep(c)
    PROVE  ListsAreUnderWay'
  <1>1. CASE Call(c)
    <2>1. /\ UNCHANGED keyspace /\ keyFaults' = keyFaults
          /\ \A d \in Cs \ {c} : run'[d] = run[d]
          /\ run'[c].step = FirstStep(run'[c].args.op)
          /\ run'[c].present = copies
      BY <1>1, CallEffect
    <2>2. ASSUME NEW d \in Cs, run'[d] \in FullRun, run'[d].args.op = "listActive"
          PROVE  ListIsUnderWay(d)'
      <3>1. CASE d = c
        <4>1. run'[c].step = "keys"
          BY <2>1, <2>2, <3>1 DEF FirstStep
        <4> QED  BY <2>1, <3>1, <4>1 DEF ListIsUnderWay, keyspace
      <3>2. CASE d # c
        BY <2>1, <2>2, <3>2 DEF ListsAreUnderWay, ListIsUnderWay, Active, Op, keyspace
      <3> QED  BY <3>1, <3>2
    <2> QED  BY <2>2 DEF ListsAreUnderWay, Active, Op
  <1>2. CASE ~Call(c) /\ Op(c) # "listActive"
    <2>1. PICK ok, step, ids, keys, got :
              ok \in BOOLEAN /\ Does(ok) /\ Moves(c, step, ids, keys, got)
      BY <1>2, EveryStepMoves
    <2> QED  BY <1>2, <2>1, OthersKeepLists
  <1>3. CASE ~Call(c) /\ Op(c) = "listActive"
    <2>1. FindKeysOf(c) \/ GetBatch(c)
      BY <1>3, EveryStepMoves
    <2> QED  BY <2>1, FindKeepsLists, BatchKeepsLists
  <1> QED  BY <1>1, <1>2, <1>3
-----------------------------------------------------------------------------
(* A call that has the keys to itself is alone, and an invalidation has    *)
(* done what its earlier steps do.                                         *)
InvalidationIsUnderWay(c) ==
    LET step == run[c].step
        u == run[c].args.user
    IN  /\ \A key \in run[c].former : key[1] # u => key \in StoredKeys
        /\ step \in {"delIndex", "keys", "delAnswers", "done"} =>
              \A i \in run[c].ids : CopyKey(u, i) \notin copies
        /\ step \in {"keys", "delAnswers", "done"} => members[u] = {}
        /\ step = "delAnswers" => \A key \in run[c].keys : key[1] = u
        /\ step \in {"delAnswers", "done"} =>
              \A key \in StoredKeys :
                  key[1] = u /\ Len(key) >= 2 =>
                      \/ PassesForIndex(key) \/ PassesForCopy(key)
                      \/ step = "delAnswers" /\ key \in run[c].keys

InvalidationsAreUnderWay ==
    \A c \in solo :
        /\ \A d \in Cs \ {c} : ~Running(d)
        /\ Active(c) /\ Op(c) = "invalidateAll" => InvalidationIsUnderWay(c)

(* The same of what a step leaves, for a call that is at the step, with    *)
(* the arguments it had.                                                   *)
InvalidationGoesOn(step, u, ids, keys, former) ==
    /\ \A key \in former : key[1] # u => key \in StoredKeys'
    /\ step \in {"delIndex", "keys", "delAnswers", "done"} =>
          \A i \in ids : CopyKey(u, i) \notin copies'
    /\ step \in {"keys", "delAnswers", "done"} => members'[u] = {}
    /\ step = "delAnswers" => \A key \in keys : key[1] = u
    /\ step \in {"delAnswers", "done"} =>
          \A key \in StoredKeys' :
              key[1] = u /\ Len(key) >= 2 =>
                  \/ PassesForIndex(key) \/ PassesForCopy(key)
                  \/ step = "delAnswers" /\ key \in keys

LEMMA MovesKeepInvalidations ==
    ASSUME Typed, InvalidationsAreUnderWay, NEW c \in Cs, run[c].step \in AtWork,
           NEW step, NEW ids, NEW keys, NEW got, Moves(c, step, ids, keys, got),
           c \in solo /\ Op(c) = "invalidateAll" /\ step # "failed"
              => InvalidationGoesOn(step, User(c), ids, keys, run[c].former)
    PROVE  InvalidationsAreUnderWay'
  <1> SUFFICES ASSUME NEW e \in solo
               PROVE  /\ \A d \in Cs \ {e} : ~Running(d)'
                      /\ run'[e] \in FullRun /\ run'[e].args.op = "invalidateAll"
                            => InvalidationIsUnderWay(e)'
    BY DEF InvalidationsAreUnderWay, Active, Op, Moves
  <1>1. e \in Cs /\ \A d \in Cs \ {e} : ~Running(d)
    BY DEF Typed, KeysTypeOK, InvalidationsAreUnderWay
  <1>2. e = c
    BY <1>1, RunningIsActive DEF Typed
  <1>3. ASSUME NEW d \in Cs \ {e}
        PROVE  ~Running(d)'
    <2>1. Follows(d)
      BY <1>2 DEF Moves
    <2> QED  BY <1>1, <2>1 DEF Follows, Running
  <1>4. ASSUME run'[c] \in FullRun, run'[c].args.op = "invalidateAll"
        PROVE  InvalidationIsUnderWay(c)'
    <2>1. /\ run'[c].step = step /\ run'[c].args = run[c].args /\ run'[c].ids = ids
          /\ run'[c].keys = keys /\ run'[c].former = run[c].former
      BY <1>4 DEF Moves
    <2>2. step # "failed"
      BY <1>4, <2>1 DEF FullRun, RunsAt, AtWork
    <2>3. InvalidationGoesOn(step, User(c), ids, keys, run[c].former)
      BY <1>2, <1>4, <2>1, <2>2 DEF Op
    <2> QED  BY <2>1, <2>3 DEF InvalidationGoesOn, InvalidationIsUnderWay, User
  <1> QED  BY <1>2, <1>3, <1>4

(* The steps of an invalidation.                                           *)
LEMMA FirstStepsInvalidate ==
    ASSUME Typed, InvalidationsAreUnderWay, NEW c \in Cs,
           GetMembers(c) \/ DeleteMembers(c) \/ DeleteIndexKey(c)
    PROVE  InvalidationsAreUnderWay'
  <1> DEFINE u == User(c)
  <1>1. /\ run[c].step \in AtWork
        /\ Active(c) /\ Op(c) = "invalidateAll"
    BY GetMembersEffect, DeleteMembersEffect, DeleteIndexEffect
       DEF GetMembers, DeleteMembers, DeleteIndexKey, At, AtWork
  <1>2. c \in solo => InvalidationIsUnderWay(c)
    BY <1>1 DEF InvalidationsAreUnderWay
  <1>3. u = run[c].args.user
    BY DEF User
  <1>4. CASE GetMembers(c)
    <2>1. PICK ok \in BOOLEAN, next \in {"delIndex", "delCopies"} :
              /\ next = "delIndex" => members[u] = {}
              /\ Moves(c, Otherwise(c, ok, next), members[u], run[c].keys, run[c].got)
      BY <1>4, GetMembersEffect
    <2>2. UNCHANGED keyspace
      BY <1>4, GetMembersEffect
    <2>3. StoredKeys' = StoredKeys
      BY <2>2 DEF StoredKeys, keyspace
    <2>4. Otherwise(c, ok, next) \in {next, "failed"}
      BY OtherwiseSteps
    <2>5. ASSUME c \in solo, Otherwise(c, ok, next) # "failed"
          PROVE  InvalidationGoesOn(Otherwise(c, ok, next), u, members[u], run[c].keys,
                                    run[c].former)
      BY <1>2, <1>3, <2>1, <2>3, <2>4, <2>5 DEF InvalidationIsUnderWay, InvalidationGoesOn
    <2> QED  BY <1>1, <2>1, <2>5, MovesKeepInvalidations
  <1>5. CASE DeleteMembers(c)
    <2>1. PICK ok \in BOOLEAN :
              /\ copies' = IF ok THEN copies \ CopiesOf(u, run[c].ids) ELSE copies
              /\ Moves(c, Otherwise(c, ok, "delIndex"), run[c].ids, run[c].keys, run[c].got)
      BY <1>5, DeleteMembersEffect
    <2>2. answers' = answers
      BY <1>5, DeleteMembersEffect
    <2>3. ASSUME c \in solo, Otherwise(c, ok, "delIndex") # "failed"
          PROVE  InvalidationGoesOn(Otherwise(c, ok, "delIndex"), u, run[c].ids, run[c].keys,
                                    run[c].former)
      <3>1. Otherwise(c, ok, "delIndex") = "delIndex" /\ copies' = copies \ CopiesOf(u, run[c].ids)
        BY <1>1, <2>1, <2>3, OtherwiseSteps
      <3>2. \A i \in run[c].ids : CopyKey(u, i) \notin copies'
        BY <3>1 DEF CopiesOf
      <3>3. ASSUME NEW key \in run[c].former, key[1] # u
            PROVE  key \in StoredKeys'
        <4>1. key \in StoredKeys
          BY <1>2, <1>3, <2>3, <3>3 DEF InvalidationIsUnderWay
        <4>2. key \notin CopiesOf(u, run[c].ids)
          BY <3>3 DEF CopiesOf, CopyKey
        <4> QED  BY <2>2, <3>1, <4>1, <4>2 DEF StoredKeys
      <3> QED  BY <3>1, <3>2, <3>3 DEF InvalidationGoesOn
    <2> QED  BY <1>1, <2>1, <2>3, MovesKeepInvalidations
  <1>6. CASE DeleteIndexKey(c)
    <2>1. PICK ok \in BOOLEAN :
              /\ ok => members'[u] = {}
              /\ Moves(c, Otherwise(c, ok, "keys"), run[c].ids, run[c].keys, run[c].got)
      BY <1>6, DeleteIndexEffect
    <2>2. copies' = copies /\ answers' = answers
      BY <1>6, DeleteIndexEffect
    <2>3. StoredKeys' = StoredKeys
      BY <2>2 DEF StoredKeys
    <2>4. ASSUME c \in solo, Otherwise(c, ok, "keys") # "failed"
          PROVE  InvalidationGoesOn(Otherwise(c, ok, "keys"), u, run[c].ids, run[c].keys,
                                    run[c].former)
      <3>1. Otherwise(c, ok, "keys") = "keys" /\ members'[u] = {}
        BY <1>1, <2>1, <2>4, OtherwiseSteps
      <3>2. At(c, "delIndex")
        BY <1>6 DEF DeleteIndexKey
      <3> QED  BY <1>2, <1>3, <2>2, <2>3, <2>4, <3>1, <3>2
               DEF InvalidationIsUnderWay, InvalidationGoesOn, At
    <2> QED  BY <1>1, <2>1, <2>4, MovesKeepInvalidations
  <1> QED  BY <1>4, <1>5, <1>6

LEMMA LastStepsInvalidate ==
    ASSUME Typed, InvalidationsAreUnderWay, NEW c \in Cs, Op(c) = "invalidateAll",
           FindKeysOf(c) \/ DeleteAnswerKeys(c)
    PROVE  InvalidationsAreUnderWay'
  <1> DEFINE u == User(c)
  <1>1. run[c].step \in AtWork /\ Active(c)
    BY FindKeysEffect, DeleteAnswersEffect DEF FindKeysOf, DeleteAnswerKeys, At, AtWork
  <1>2. c \in solo => InvalidationIsUnderWay(c)
    BY <1>1 DEF InvalidationsAreUnderWay
  <1>3. u = run[c].args.user
    BY DEF User
  <1>4. CASE FindKeysOf(c)
    <2>1. PICK ok \in BOOLEAN, next \in {"done", "batches", "delAnswers"} :
              /\ next = "done" => Selected(c) = {}
              /\ next = "batches" <=> (Selected(c) # {} /\ Op(c) = "listActive")
              /\ Moves(c, Otherwise(c, ok, next), run[c].ids, Selected(c), run[c].got)
      BY <1>4, FindKeysEffect
    <2>2. UNCHANGED keyspace /\ At(c, "keys")
      BY <1>4, FindKeysEffect DEF FindKeysOf
    <2>3. StoredKeys' = StoredKeys
      BY <2>2 DEF StoredKeys, keyspace
    <2>4. ASSUME c \in solo, Otherwise(c, ok, next) # "failed"
          PROVE  InvalidationGoesOn(Otherwise(c, ok, next), u, run[c].ids, Selected(c),
                                    run[c].former)
      <3>1. Otherwise(c, ok, next) = next /\ next \in {"done", "delAnswers"}
        BY <2>1, <2>4, OtherwiseSteps
      <3>2. Selected(c) = {key \in StoredKeys : /\ MatchesUser(key, u)
                                                /\ ~PassesForIndex(key)
                                                /\ ~PassesForCopy(key)}
        BY DEF Selected
      <3>3. \A key \in Selected(c) : key[1] = u
        BY <3>2 DEF MatchesUser
      <3>4. ASSUME NEW key \in StoredKeys, key[1] = u, Len(key) >= 2
            PROVE  PassesForIndex(key) \/ PassesForCopy(key) \/ key \in Selected(c)
        BY <3>2, <3>4 DEF MatchesUser
      <3>5. /\ \A key \in run[c].former : key[1] # u => key \in StoredKeys
            /\ \A i \in run[c].ids : CopyKey(u, i) \notin copies
            /\ members[u] = {}
        BY <1>2, <1>3, <2>2, <2>4 DEF InvalidationIsUnderWay, At
      <3>6. next = "done" => Selected(c) = {}
        BY <2>1
      <3>7. copies' = copies /\ members' = members
        BY <2>2 DEF keyspace
      <3> QED  BY <2>3, <3>1, <3>3, <3>4, <3>5, <3>6, <3>7 DEF InvalidationGoesOn
    <2> QED  BY <1>1, <2>1, <2>4, MovesKeepInvalidations
  <1>5. CASE DeleteAnswerKeys(c)
    <2>1. PICK ok \in BOOLEAN :
              /\ copies' \in SUBSET copies
              /\ copies \ run[c].keys \in SUBSET copies'
              /\ \A key \in AnswerKeys :
                    /\ key \notin run[c].keys => answers'[key] = answers[key]
                    /\ answers'[key] # Nothing => answers[key] # Nothing
                    /\ ok /\ key \in run[c].keys => answers'[key] = Nothing
              /\ ok => copies' = copies \ run[c].keys
              /\ Moves(c, Otherwise(c, ok, "done"), run[c].ids, run[c].keys, run[c].got)
      BY <1>5, DeleteAnswersEffect
    <2>2. members' = members /\ At(c, "delAnswers")
      BY <1>5, DeleteAnswersEffect DEF DeleteAnswerKeys
    <2>3. ASSUME c \in solo, Otherwise(c, ok, "done") # "failed"
          PROVE  InvalidationGoesOn(Otherwise(c, ok, "done"), u, run[c].ids, run[c].keys,
                                    run[c].former)
      <3>1. Otherwise(c, ok, "done") = "done" /\ ok
        BY <2>3, OtherwiseSteps
      <3>2. /\ \A key \in run[c].former : key[1] # u => key \in StoredKeys
            /\ \A i \in run[c].ids : CopyKey(u, i) \notin copies
            /\ members[u] = {}
            /\ \A key \in run[c].keys : key[1] = u
            /\ \A key \in StoredKeys :
                  key[1] = u /\ Len(key) >= 2 =>
                      PassesForIndex(key) \/ PassesForCopy(key) \/ key \in run[c].keys
        BY <1>2, <1>3, <2>2, <2>3 DEF InvalidationIsUnderWay, At
      <3>3. StoredKeys' = StoredKeys \ run[c].keys
        BY <2>1, <3>1 DEF StoredKeys
      <3>4. \A i \in run[c].ids : CopyKey(u, i) \notin copies'
        BY <2>1, <3>2
      <3> QED  BY <2>2, <3>1, <3>2, <3>3, <3>4 DEF InvalidationGoesOn
    <2> QED  BY <1>1, <2>1, <2>3, MovesKeepInvalidations
  <1> QED  BY <1>4, <1>5

LEMMA StepKeepsInvalidations ==
    ASSUME KeysAssumption, Typed, InvalidationsAreUnderWay, NEW c \in Cs, KeysStep(c)
    PROVE  InvalidationsAreUnderWay'
  <1>1. CASE Call(c)
    <2>1. /\ At(c, "idle") /\ UNCHANGED keyspace
          /\ solo' = IF \E d \in Cs : Running(d) THEN {} ELSE {c}
          /\ \A d \in Cs \ {c} : run'[d] = run[d]
          /\ run'[c].step = FirstStep(run'[c].args.op)
          /\ run'[c].former = StoredKeys
      BY <1>1, CallEffect
    <2> SUFFICES ASSUME c \in solo', \A d \in Cs : ~Running(d)
                 PROVE  /\ \A d \in Cs \ {c} : ~Running(d)'
                        /\ run'[c].args.op = "invalidateAll" => InvalidationIsUnderWay(c)'
      BY <2>1 DEF InvalidationsAreUnderWay, Active, Op
    <2>2. \A d \in Cs \ {c} : ~Running(d)'
      BY <2>1 DEF Running
    <2>3. ASSUME run'[c].args.op = "invalidateAll"
          PROVE  InvalidationIsUnderWay(c)'
      <3>1. run'[c].step = "members"
        BY <2>1, <2>3 DEF FirstStep
      <3>2. StoredKeys' = StoredKeys
        BY <2>1 DEF StoredKeys, keyspace
      <3> QED  BY <2>1, <3>1, <3>2 DEF InvalidationIsUnderWay
    <2> QED  BY <2>2, <2>3
  <1>2. CASE ~Call(c) /\ Op(c) # "invalidateAll"
    <2>1. PICK ok, step, ids, keys, got :
              ok \in BOOLEAN /\ Does(ok) /\ Moves(c, step, ids, keys, got)
      BY <1>2, EveryStepMoves
    <2>2. run[c].step \in AtWork
      BY <1>2, EveryStepMoves
    <2> QED  BY <1>2, <2>1, <2>2, MovesKeepInvalidations
  <1>3. CASE ~Call(c) /\ Op(c) = "invalidateAll"
    <2>1. \/ GetMembers(c) \/ DeleteMembers(c) \/ DeleteIndexKey(c)
          \/ FindKeysOf(c) \/ DeleteAnswerKeys(c)
      BY <1>3, EveryStepMoves
    <2> QED  BY <1>3, <2>1, FirstStepsInvalidate, LastStepsInvalidate
  <1> QED  BY <1>1, <1>2, <1>3
-----------------------------------------------------------------------------
(* An answer is under the key of its query, be it for whichever user, and  *)
(* so is the one that a look finds.                                        *)
AnswersAreUnderTheirKeys ==
    \A key \in AnswerKeys :
        answers[key] # Nothing => \E u \in Users : key = AnswerKey(u, answers[key])

FoundByKey(c) ==
    \A q \in run[c].got :
        /\ q \in Queries
        /\ \E u \in Users : AnswerKey(u, q) = AnswerKey(run[c].args.user, run[c].args.query)

LookUpsFindByKey ==
    \A c \in Cs : Active(c) /\ Op(c) = "lookUp" /\ At(c, "done") => FoundByKey(c)

LEMMA StepKeepsAnswers ==
    ASSUME KeysAssumption, Typed, AnswersAreUnderTheirKeys, NEW c \in Cs, KeysStep(c)
    PROVE  AnswersAreUnderTheirKeys'
  <1>1. CASE SetAnswerKey(c)
    <2> DEFINE q == run[c].args.query
               k == AnswerKey(User(c), q)
    <2>1. answers' \in {answers, [answers EXCEPT ![k] = q]}
      BY <1>1 DEF SetAnswerKey
    <2>2. User(c) \in Users
      BY <1>1, SetAnswerEffect, FieldsOfActive
    <2> SUFFICES ASSUME NEW key \in AnswerKeys, answers'[key] # Nothing
                 PROVE  \E u \in Users : key = AnswerKey(u, answers'[key])
      BY DEF AnswersAreUnderTheirKeys
    <2>3. CASE answers'[key] = answers[key]
      BY <2>3 DEF AnswersAreUnderTheirKeys
    <2>4. CASE answers'[key] # answers[key]
      <3>1. key = k /\ answers'[key] = q
        BY <2>1, <2>4 DEF Typed, KeysTypeOK
      <3> QED  BY <2>2, <3>1
    <2> QED  BY <2>3, <2>4
  <1>2. CASE DeleteAnswerKeys(c)
    <2> SUFFICES ASSUME NEW key \in AnswerKeys, answers'[key] # Nothing
                 PROVE  answers'[key] = answers[key]
      BY DEF AnswersAreUnderTheirKeys
    <2>1. PICK ok \in BOOLEAN :
              answers' = IF ok THEN [key_1 \in AnswerKeys |->
                                        IF key_1 \in run[c].keys THEN Nothing ELSE answers[key_1]]
                         ELSE answers
      BY <1>2 DEF DeleteAnswerKeys
    <2> QED  BY <2>1
  <1>3. CASE ~(SetAnswerKey(c) \/ DeleteAnswerKeys(c))
    <2>1. answers' = answers
      BY <1>3 DEF KeysStep, Call, SetCopyKey, AddMember, ExpireIndexKey, DeleteCopy,
                  RemoveMember, GetMembers, DeleteMembers, DeleteIndexKey, FindKeysOf,
                  GetBatch, GetAnswer, keyspace
    <2> QED  BY <2>1 DEF AnswersAreUnderTheirKeys
  <1> QED  BY <1>1, <1>2, <1>3

LEMMA StepKeepsLookUps ==
    ASSUME KeysAssumption, Typed, AnswersAreUnderTheirKeys, LookUpsFindByKey, NEW c \in Cs,
           KeysStep(c)
    PROVE  LookUpsFindByKey'
  <1> SUFFICES ASSUME NEW d \in Cs, run'[d] \in FullRun, run'[d].args.op = "lookUp",
                      run'[d].step = "done"
               PROVE  FoundByKey(d)'
    BY DEF LookUpsFindByKey, Active, Op, At
  <1>1. CASE Call(c)
    <2>1. /\ \A e \in Cs \ {c} : run'[e] = run[e]
          /\ run'[c].step = FirstStep(run'[c].args.op)
      BY <1>1, CallEffect
    <2>2. d # c
      BY <2>1 DEF FirstStep
    <2> QED  BY <2>1, <2>2 DEF LookUpsFindByKey, FoundByKey, Active, Op, At
  <1>2. CASE ~Call(c) /\ d # c
    <2>1. PICK ok, step, ids, keys, got :
              ok \in BOOLEAN /\ Does(ok) /\ Moves(c, step, ids, keys, got)
      BY <1>2, EveryStepMoves
    <2>2. Follows(d)
      BY <1>2, <2>1 DEF Moves
    <2>3. /\ run[d] \in FullRun /\ run'[d].step = run[d].step
          /\ run'[d].args = run[d].args /\ run'[d].got = run[d].got
      BY <2>2 DEF Follows
    <2> QED  BY <2>3 DEF LookUpsFindByKey, FoundByKey, Active, Op, At
  <1>3. CASE ~Call(c) /\ d = c
    <2>1. PICK ok, step, ids, keys, got :
              ok \in BOOLEAN /\ Does(ok) /\ Moves(c, step, ids, keys, got)
      BY <1>3, EveryStepMoves
    <2>2. Op(c) = "lookUp"
      BY <1>3, <2>1 DEF Moves, Op
    <2>3. GetAnswer(c)
      BY <1>3, <2>2, EveryStepMoves
    <2> DEFINE k == AnswerKey(User(c), run[c].args.query)
    <2>4. PICK got_1 :
              /\ \A q \in got_1 : q \in Queries /\ q # Nothing /\ q = answers[k]
              /\ k \in AnswerKeys
              /\ Moves(c, "done", run[c].ids, run[c].keys, got_1)
      BY <2>3, GetAnswerEffect
    <2>5. run'[c].got = got_1 /\ run'[c].args = run[c].args
      BY <1>3, <2>4 DEF Moves
    <2>6. ASSUME NEW q \in got_1
          PROVE  q \in Queries /\ \E u \in Users : AnswerKey(u, q) = k
      BY <2>4 DEF AnswersAreUnderTheirKeys
    <2>7. k = AnswerKey(run[c].args.user, run[c].args.query)
      BY DEF User
    <2> HIDE DEF k
    <2> QED  BY <1>3, <2>5, <2>6, <2>7 DEF FoundByKey
  <1> QED  BY <1>1, <1>2, <1>3

-----------------------------------------------------------------------------
(* The inductive invariant: types, and what every call under way has done, *)
(* got or is still to do.                                                  *)
KeysInvariant ==
    /\ Typed
    /\ IndexWillExpire
    /\ ListsAreUnderWay
    /\ InvalidationsAreUnderWay
    /\ AnswersAreUnderTheirKeys
    /\ LookUpsFindByKey

LEMMA KeysInvariantInit == KeysAssumption /\ KeysInit => KeysInvariant
  <1> SUFFICES ASSUME KeysAssumption, KeysInit PROVE KeysInvariant
    OBVIOUS
  <1>1. Typed
    BY TypedInit
  <1>2. ASSUME NEW c \in Cs
        PROVE  ~Active(c)
    <2>1. run[c].step = "idle"
      BY DEF KeysInit
    <2> QED  BY <2>1 DEF Active, FullRun, RunsAt, AtWork
  <1>3. /\ \A u \in Users : members[u] = {}
        /\ solo = {}
        /\ \A key \in AnswerKeys : answers[key] = Nothing
    BY DEF KeysInit
  <1> QED  BY <1>1, <1>2, <1>3 DEF KeysInvariant, IndexWillExpire, ListsAreUnderWay,
                                   InvalidationsAreUnderWay, AnswersAreUnderTheirKeys,
                                   LookUpsFindByKey

LEMMA StopKeepsInvariant ==
    ASSUME KeysInvariant, StopCalls
    PROVE  KeysInvariant'
  <1>1. /\ Typed' /\ UNCHANGED keyspace /\ solo' = solo
        /\ keyFaults' \in Nat /\ keyFaults' # 0
        /\ \A d \in Cs : /\ run'[d].step \notin AtWork
                         /\ run'[d] \in FullRun => run'[d] = run[d] /\ run[d].step = "done"
    BY StopEffect DEF KeysInvariant
  <1>2. IndexWillExpire'
    BY <1>1 DEF IndexWillExpire
  <1>3. ListsAreUnderWay'
    <2> SUFFICES ASSUME NEW d \in Cs, run'[d] \in FullRun
                 PROVE  ListIsUnderWay(d)'
      BY DEF ListsAreUnderWay, Active
    <2> QED  BY <1>1 DEF ListIsUnderWay
  <1>4. InvalidationsAreUnderWay'
    <2> SUFFICES ASSUME NEW e \in solo
                 PROVE  /\ \A d \in Cs \ {e} : ~Running(d)'
                        /\ run'[e] \in FullRun /\ run'[e].args.op = "invalidateAll"
                              => InvalidationIsUnderWay(e)'
      BY <1>1 DEF InvalidationsAreUnderWay, Active, Op
    <2>1. e \in Cs
      BY DEF KeysInvariant, Typed, KeysTypeOK
    <2>2. ASSUME NEW d \in Cs
          PROVE  ~Running(d)'
      <3>1. run'[d].step \notin AtWork /\ run'[d] \in RunTypes
        BY <1>1 DEF Typed, KeysTypeOK
      <3>2. run'[d].step \in {"idle", "failed", "done"} \union AtWork
        BY <3>1, StepsOfRuns
      <3> QED  BY <3>1, <3>2 DEF Running
    <2>3. ASSUME run'[e] \in FullRun, run'[e].args.op = "invalidateAll"
          PROVE  InvalidationIsUnderWay(e)'
      <3>1. run'[e] = run[e]
        BY <1>1, <2>1, <2>3
      <3>2. InvalidationIsUnderWay(e)
        BY <2>3, <3>1 DEF KeysInvariant, InvalidationsAreUnderWay, Active, Op
      <3>3. StoredKeys' = StoredKeys /\ copies' = copies /\ members' = members
        BY <1>1 DEF StoredKeys, keyspace
      <3> QED  BY <3>1, <3>2, <3>3 DEF InvalidationIsUnderWay
    <2> QED  BY <2>2, <2>3
  <1>5. AnswersAreUnderTheirKeys'
    BY <1>1 DEF KeysInvariant, AnswersAreUnderTheirKeys, keyspace
  <1>6. LookUpsFindByKey'
    <2> SUFFICES ASSUME NEW d \in Cs, run'[d] \in FullRun, run'[d].args.op = "lookUp"
                 PROVE  FoundByKey(d)'
      BY DEF LookUpsFindByKey, Active, Op
    <2>1. run'[d] = run[d] /\ run[d].step = "done"
      BY <1>1
    <2> QED  BY <2>1 DEF KeysInvariant, LookUpsFindByKey, FoundByKey, Active, Op, At
  <1> QED  BY <1>1, <1>2, <1>3, <1>4, <1>5, <1>6 DEF KeysInvariant

LEMMA KeysInvariantNext ==
    ASSUME KeysAssumption, KeysInvariant, [KeysNext]_keyVars
    PROVE  KeysInvariant'
  <1>1. CASE StopCalls
    BY <1>1, StopKeepsInvariant
  <1>2. ASSUME NEW c \in Cs, KeysStep(c)
        PROVE  KeysInvariant'
    <2>1. Typed'
      BY <1>2, CallEffect, EveryStepMoves DEF KeysInvariant
    <2>2. IndexWillExpire'
      BY <1>2, StepKeepsExpiry DEF KeysInvariant
    <2>3. ListsAreUnderWay'
      BY <1>2, StepKeepsLists DEF KeysInvariant
    <2>4. InvalidationsAreUnderWay'
      BY <1>2, StepKeepsInvalidations DEF KeysInvariant
    <2>5. AnswersAreUnderTheirKeys'
      BY <1>2, StepKeepsAnswers DEF KeysInvariant
    <2>6. LookUpsFindByKey'
      BY <1>2, StepKeepsLookUps DEF KeysInvariant
    <2> QED  BY <2>1, <2>2, <2>3, <2>4, <2>5, <2>6 DEF KeysInvariant
  <1>3. CASE UNCHANGED keyVars
    <2>1. UNCHANGED <<copies, answers, members, timed, run, solo, keyFaults>>
      BY <1>3 DEF keyVars, keyspace
    <2> QED  BY <2>1 DEF KeysInvariant, Typed, KeysTypeOK, CallsAreInStep, Active,
                         IndexWillExpire, WillExpire, User, ListsAreUnderWay, ListIsUnderWay,
                         Op, InvalidationsAreUnderWay, InvalidationIsUnderWay, Running,
                         StoredKeys, AnswersAreUnderTheirKeys, LookUpsFindByKey,
                         FoundByKey, At
  <1> QED  BY <1>1, <1>2, <1>3 DEF KeysNext

(* However calls overlap and commands fail, the invariant holds.           *)
THEOREM KeysAreConsistent == KeysSpec => []KeysInvariant
  <1>1. KeysInit => KeysInvariant
    BY KeysAssumption, KeysInvariantInit
  <1>2. KeysInvariant /\ [KeysNext]_keyVars => KeysInvariant'
    BY KeysAssumption, KeysInvariantNext
  <1> QED  BY <1>1, <1>2, PTL DEF KeysSpec

(* When no call is at work and no command failed, every index has a time   *)
(* to live: whatever SAdds and Expires of fills, re-caches and             *)
(* invalidations overlapped (AddCampaignToUserIndex).                      *)
THEOREM IndexesExpire == KeysSpec => []IndexExpires
  <1>1. KeysInvariant => IndexExpires
    <2> SUFFICES ASSUME KeysInvariant, \A c \in Cs : ~Running(c), keyFaults = 0,
                        NEW u \in Users, members[u] # {}
                 PROVE  u \in timed
      BY DEF IndexExpires
    <2>1. ASSUME NEW c \in Cs
          PROVE  ~WillExpire(c, u)
      BY DEF WillExpire, ToExpire, Running
    <2> QED  BY <2>1 DEF KeysInvariant, IndexWillExpire
  <1> QED  BY <1>1, KeysAreConsistent, PTL

(* A list of active campaigns that went without errors has every copy that *)
(* was there all along, but for keys that look like an index's, for any    *)
(* size of a batch (GetActiveCampaignsFromRedis).                          *)
THEOREM ActiveListsAreComplete == KeysSpec => []ActiveListIsComplete
  <1>1. KeysInvariant => ActiveListIsComplete
    <2> SUFFICES ASSUME KeysInvariant, NEW c \in Cs, run[c].step = "done", keyFaults = 0,
                        run[c].args.op = "listActive", NEW key \in run[c].present
                 PROVE  key \in run[c].got \/ PassesForIndex(key)
      BY DEF ActiveListIsComplete, Over, At, Op
    <2>1. Active(c)
      BY DoneHasFields DEF KeysInvariant, Typed
    <2>2. ListIsUnderWay(c)
      BY <2>1 DEF KeysInvariant, ListsAreUnderWay, Op
    <2> QED  BY <2>2 DEF ListIsUnderWay
  <1> QED  BY <1>1, KeysAreConsistent, PTL

(* An invalidation that nothing overlapped and that returned no error      *)
(* leaves its user no index, no copy the index named, and no key but those *)
(* that pass for an index or a copy, and leaves other users what they had  *)
(* (InvalidateAllCampaignUserCache).                                       *)
THEOREM InvalidationsAreExact == KeysSpec => []InvalidationIsExact
  <1>1. KeysInvariant => InvalidationIsExact
    <2> SUFFICES ASSUME KeysInvariant, NEW c \in solo, run[c].step = "done",
                        run[c].args.op = "invalidateAll"
                 PROVE  /\ members[User(c)] = {}
                        /\ \A i \in run[c].ids : CopyKey(User(c), i) \notin copies
                        /\ \A key \in StoredKeys :
                              key[1] = User(c) /\ Len(key) >= 2
                                 => PassesForIndex(key) \/ PassesForCopy(key)
                        /\ \A key \in run[c].former : key[1] # User(c) => key \in StoredKeys
      BY DEF InvalidationIsExact, Over, At, Op
    <2>1. c \in Cs
      BY DEF KeysInvariant, Typed, KeysTypeOK
    <2>2. Active(c)
      BY <2>1, DoneHasFields DEF KeysInvariant, Typed
    <2>3. InvalidationIsUnderWay(c)
      BY <2>2 DEF KeysInvariant, InvalidationsAreUnderWay, Op
    <2> QED  BY <2>3 DEF InvalidationIsUnderWay, User
  <1> QED  BY <1>1, KeysAreConsistent, PTL

(* A look finds answers under its own key only: none is put, or left by a  *)
(* deletion, under the key of another query (the fill and the read of      *)
(* get.go).                                                                *)
FoundUnderTheirKey ==
    \A c \in Cs :
        Over(c, "lookUp") =>
            \A q \in run[c].got :
                /\ q \in Queries
                /\ \E u \in Users : AnswerKey(u, q) = AnswerKey(User(c), run[c].args.query)

THEOREM AnswersAreFoundByKey == KeysSpec => []FoundUnderTheirKey
  <1>1. KeysInvariant => FoundUnderTheirKey
    <2> SUFFICES ASSUME KeysInvariant, NEW c \in Cs, run[c].step = "done",
                        run[c].args.op = "lookUp"
                 PROVE  FoundByKey(c)
      BY DEF FoundUnderTheirKey, FoundByKey, Over, At, Op, User
    <2>1. Active(c)
      BY DoneHasFields DEF KeysInvariant, Typed
    <2> QED  BY <2>1 DEF KeysInvariant, LookUpsFindByKey, Op, At
  <1> QED  BY <1>1, KeysAreConsistent, PTL
=============================================================================
