---------------------------- MODULE ListenersProofs ----------------------------
(***************************************************************************)
(* Proofs about Listeners for any number of control blocks and hosts and   *)
(* every choice of commands and faults: the list is sound, a stop finds    *)
(* every listener, and it cancels none but listeners.                      *)
(***************************************************************************)
EXTENDS Listeners, TLAPS

\* No block twice in the list.
Unique == \A i, j \in 1..Len(list) : list[i] = list[j] => i = j

\* A pointer to no block or to one that was made.
Made(x) == x \in Blocks => block[x] # "none"

\* What is in the list is live, and nothing that a thread or a sweep has taken
\* out comes back.
ListInv ==
  /\ Unique
  /\ \A l \in Blocks : InList(l) => block[l] = "live"
  /\ \A l \in Blocks : lth[l] \in {"free", "tail", "ended"} => ~InList(l)
  /\ \A a \in Waiters : pc[a] = "free" => cur[a] \in Blocks /\ ~InList(cur[a])

\* Whatever still points at a block points at one that was made.
MadeInv ==
  /\ \A a \in Actors : Made(cur[a]) /\ Made(nx[a])
  /\ \A l \in Blocks : Made(left[l])
  /\ \A l \in Blocks : block[l] = "none" => lth[l] = "none"

\* Between mas_lcontrol_make and pthread_create a block has no thread.
CreateInv ==
  /\ \A l \in Blocks : lth[l] = "none" => ~handle[l]
  /\ \A a \in Actors : pc[a] = "create" => cur[a] \in Blocks /\ lth[cur[a]] = "none"
  /\ \A a, b \in Actors : pc[a] = "create" /\ pc[b] = "create" /\ cur[a] = cur[b] => a = b
  /\ pc["client"] \in {"idle", "create", "cancel"}
  /\ pc["client"] = "cancel" => cur["client"] \in Blocks

\* A live block is in the list or in the hands of the one who frees it, and a
\* listener keeps its thread in its block.
FoundInv ==
  /\ \A l \in Blocks :
       block[l] = "live" => InList(l) \/ lth[l] = "free" \/ Swept(l)
  /\ \A l \in Blocks : lth[l] \in {"run", "cleanup"} /\ ~Swept(l) => handle[l]

IInv == TypeOK /\ ListInv /\ MadeInv /\ CreateInv /\ FoundInv

\* Without commands of clients and once the listeners run, nothing enters the list.
Calm == Commands = {} /\ ~EarlyStop
Starting == pc["master"] \in {"start", "create"}
CalmInv ==
  /\ pc["client"] = "idle"
  /\ Starting => pc["handler"] = "idle" /\ stage = "main"
  /\ \A l \in Blocks : lth[l] \in {"run", "cleanup"} => InList(l) /\ handle[l]
  /\ \A a \in Waiters : pc[a] = "return" => last[a]
  /\ \A a \in Waiters : last[a] => list = <<>> /\ ~Starting
  /\ stage \in {"force", "end"} => list = <<>>
  /\ stage = "force" => last["master"] /\ pc["master"] \in {"sweep", "look", "return"}
  /\ stage = "force" /\ pc["master"] = "look" => cur["master"] = NoBlock
  /\ stage = "end" => pc["master"] = "end"

-----------------------------------------------------------------------------
(* The list *)

LEMMA AppendIn ==
  ASSUME list \in Seq(Blocks), NEW l \in Blocks, Unique, ~InList(l), list' = Append(list, l)
  PROVE  /\ list' \in Seq(Blocks) /\ Unique'
         /\ \A m : InList(m)' <=> InList(m) \/ m = l
<1>1. list' \in Seq(Blocks) /\ Len(list') = Len(list) + 1 /\ Len(list) \in Nat
      /\ list'[Len(list) + 1] = l /\ \A i \in 1..Len(list) : list'[i] = list[i]
  OBVIOUS
<1>2. Unique'
  BY <1>1 DEF Unique, InList
<1>3. \A m : InList(m)' <=> InList(m) \/ m = l
  BY <1>1 DEF InList
<1> QED BY <1>1, <1>2, <1>3

LEMMA RemovedIn ==
  ASSUME list \in Seq(Blocks), NEW l, Unique, list' = Removed(l)
  PROVE  /\ list' \in Seq(Blocks) /\ Unique'
         /\ \A m : InList(m)' <=> InList(m) /\ m # l
<1>1. CASE ~InList(l)
  BY <1>1 DEF Removed, Unique, InList
<1>2. CASE InList(l)
  <2> DEFINE i == CHOOSE i \in 1..Len(list) : list[i] = l
  <2>1. i \in 1..Len(list) /\ list[i] = l /\ Len(list) \in Nat
    BY <1>2 DEF InList
  <2>2. list' = SubSeq(list, 1, i - 1) \o SubSeq(list, i + 1, Len(list))
    BY <1>2 DEF Removed
  <2> HIDE DEF i
  <2>3. /\ SubSeq(list, 1, i - 1) \in Seq(Blocks) /\ Len(SubSeq(list, 1, i - 1)) = i - 1
        /\ \A j \in 1..i - 1 : SubSeq(list, 1, i - 1)[j] = list[j]
    BY <2>1
  <2>4. /\ SubSeq(list, i + 1, Len(list)) \in Seq(Blocks)
        /\ Len(SubSeq(list, i + 1, Len(list))) = Len(list) - i
        /\ \A j \in 1..Len(list) - i : SubSeq(list, i + 1, Len(list))[j] = list[j + i]
    BY <2>1
  <2>5. /\ list' \in Seq(Blocks) /\ Len(list') = Len(list) - 1
        /\ \A j \in 1..i - 1 : list'[j] = list[j]
        /\ \A j \in i..Len(list) - 1 : list'[j] = list[j + 1]
    <3>1. PICK s, t : s = SubSeq(list, 1, i - 1) /\ t = SubSeq(list, i + 1, Len(list))
      OBVIOUS
    <3>2. s \in Seq(Blocks) /\ t \in Seq(Blocks) /\ list' = s \o t
      BY <2>2, <2>3, <2>4, <3>1, Zenon
    <3>3. Len(s) = i - 1 /\ Len(t) = Len(list) - i
      BY <2>3, <2>4, <3>1, Zenon
    <3>4. list' \in Seq(Blocks) /\ Len(list') = Len(list) - 1
      <4>1. s \o t \in Seq(Blocks) /\ Len(s \o t) = Len(s) + Len(t)
        BY <3>2, SMTT(20)
      <4>2. Len(list') = (i - 1) + (Len(list) - i)
        BY <3>2, <3>3, <4>1, Zenon
      <4>3. i \in Int /\ Len(list) \in Int
        BY <2>1
      <4>4. (i - 1) + (Len(list) - i) = Len(list) - 1
        BY <4>3
      <4> QED BY <3>2, <4>1, <4>2, <4>4, Zenon
    <3>5. ASSUME NEW j \in 1..i - 1 PROVE list'[j] = list[j]
      <4>1. list'[j] = s[j]
        BY <2>1, <3>2, <3>3
      <4>2. s[j] = list[j]
        BY <2>3, <3>1, Zenon
      <4> QED BY <4>1, <4>2
    <3>6. ASSUME NEW j \in i..Len(list) - 1 PROVE list'[j] = list[j + 1]
      <4>1. list'[j] = t[j - (i - 1)]
        BY <2>1, <3>2, <3>3
      <4>2. j - (i - 1) \in 1..Len(list) - i /\ (j - (i - 1)) + i = j + 1
        BY <2>1
      <4>3. t[j - (i - 1)] = list[(j - (i - 1)) + i]
        BY <2>4, <3>1, <4>2, Zenon
      <4> QED BY <4>1, <4>2, <4>3
    <3> QED BY <3>4, <3>5, <3>6
  <2>6. Unique'
    BY <2>1, <2>5 DEF Unique
  <2>7. ASSUME NEW m PROVE InList(m)' <=> InList(m) /\ m # l
    <3>1. ASSUME InList(m)' PROVE InList(m) /\ m # l
      <4>1. PICK k \in 1..Len(list) - 1 : list'[k] = m
        BY <2>5, <3>1 DEF InList
      <4>2. CASE k < i
        BY <2>1, <2>5, <4>1, <4>2 DEF InList, Unique
      <4>3. CASE k >= i
        BY <2>1, <2>5, <4>1, <4>3 DEF InList, Unique
      <4> QED BY <2>1, <4>2, <4>3
    <3>2. ASSUME InList(m), m # l PROVE InList(m)'
      <4>1. PICK k \in 1..Len(list) : list[k] = m
        BY <3>2 DEF InList
      <4>2. CASE k < i
        BY <2>1, <2>5, <4>1, <4>2 DEF InList
      <4>3. CASE k > i
        <5>1. k - 1 \in i..Len(list) - 1 /\ (k - 1) + 1 = k
          BY <2>1, <4>3
        <5>2. list'[k - 1] = m
          BY <2>5, <4>1, <5>1
        <5> QED BY <2>1, <2>5, <5>1, <5>2 DEF InList
      <4> QED BY <2>1, <3>2, <4>1, <4>2, <4>3
    <3> QED BY <3>1, <3>2
  <2> QED BY <2>5, <2>6, <2>7
<1> QED BY <1>1, <1>2

LEMMA RemovedType == ASSUME list \in Seq(Blocks), NEW l PROVE Removed(l) \in Seq(Blocks)
<1>1. CASE ~InList(l)
  BY <1>1 DEF Removed
<1>2. CASE InList(l)
  <2> DEFINE i == CHOOSE i \in 1..Len(list) : list[i] = l
  <2>1. i \in 1..Len(list) /\ Len(list) \in Nat
    BY <1>2 DEF InList
  <2>2. Removed(l) = SubSeq(list, 1, i - 1) \o SubSeq(list, i + 1, Len(list))
    BY <1>2 DEF Removed
  <2> HIDE DEF i
  <2>3. /\ SubSeq(list, 1, i - 1) \in Seq(Blocks)
        /\ SubSeq(list, i + 1, Len(list)) \in Seq(Blocks)
    BY <2>1
  <2> QED BY <2>2, <2>3
<1> QED BY <1>1, <1>2

LEMMA NextOfIn ==
  ASSUME TypeOK, NEW l \in Blocks
  PROVE  /\ NextOf(l) \in Blocks \cup {NoBlock}
         /\ NextOf(l) = NoBlock \/ NextOf(l) = left[l] \/ InList(NextOf(l))
<1>1. list \in Seq(Blocks) /\ Len(list) \in Nat /\ left[l] \in Blocks \cup {NoBlock}
  BY DEF TypeOK
<1>2. CASE \E i \in 1..Len(list) - 1 : list[i] = l
  <2> DEFINE i == CHOOSE i \in 2..Len(list) : list[i - 1] = l
  <2>1. i \in 2..Len(list)
    <3>1. PICK j \in 1..Len(list) - 1 : list[j] = l
      BY <1>2
    <3>2. j + 1 \in 2..Len(list) /\ list[(j + 1) - 1] = l
      BY <1>1, <3>1
    <3> QED BY <3>2
  <2>2. NextOf(l) = list[i]
    BY <1>2, Zenon DEF NextOf
  <2> HIDE DEF i
  <2>3. i \in 1..Len(list)
    BY <1>1, <2>1
  <2> QED BY <1>1, <2>2, <2>3 DEF InList
<1>3. CASE ~\E i \in 1..Len(list) - 1 : list[i] = l
  BY <1>1, <1>3, Zenon DEF NextOf
<1> QED BY <1>2, <1>3

LEMMA HeadIn ==
  ASSUME TypeOK, list # <<>>
  PROVE  Head(list) \in Blocks /\ InList(Head(list))
<1>1. list \in Seq(Blocks) /\ Len(list) \in Nat /\ Len(list) >= 1
  BY DEF TypeOK
<1>2. Head(list) = list[1] /\ 1 \in 1..Len(list)
  BY <1>1
<1> QED BY <1>1, <1>2 DEF InList

-----------------------------------------------------------------------------
(* The types of the variables *)

Places == {"idle", "start", "create", "first", "wait", "join", "sweep", "look",
           "free", "return", "past", "done", "end", "cancel"}
Lives == {"none", "failed", "run", "cleanup", "free", "tail", "ended"}

BlockTypes ==
  /\ block \in [Blocks -> {"none", "live", "freed"}] /\ handle \in [Blocks -> BOOLEAN]
  /\ list \in Seq(Blocks) /\ left \in [Blocks -> Blocks \cup {NoBlock}]
ThreadTypes ==
  /\ lth \in [Blocks -> Lives] /\ lcancel \in [Blocks -> BOOLEAN]
  /\ joiner \in [Blocks -> Waiters \cup {"nobody"}]
ActorTypes ==
  /\ pc \in [Actors -> Places] /\ cur \in [Actors -> Blocks \cup {NoBlock}]
  /\ nx \in [Actors -> Blocks \cup {NoBlock}] /\ last \in [Actors -> BOOLEAN]
FlagTypes ==
  /\ hosts \in Nat /\ stage \in {"main", "destroy", "force", "end"}
  /\ keep_listening \in BOOLEAN /\ stop_listeners \in BOOLEAN
  /\ watcher \in {"on", "stopping", "off"} /\ crashed \in BOOLEAN

LEMMA TypesOf == TypeOK <=> BlockTypes /\ ThreadTypes /\ ActorTypes /\ FlagTypes
BY Zenon DEF TypeOK, BlockTypes, ThreadTypes, ActorTypes, FlagTypes, Places, Lives

LEMMA TypesNext == ASSUME BlockTypes', ThreadTypes', ActorTypes', FlagTypes' PROVE TypeOK'
BY Zenon DEF TypeOK, BlockTypes, ThreadTypes, ActorTypes, FlagTypes, Places, Lives

LEMMA CancelTypes == ASSUME ThreadTypes, CancelAll
                     PROVE  lcancel' \in [Blocks -> BOOLEAN]
BY Zenon DEF ThreadTypes, CancelAll

LEMMA GoTypes == ASSUME ActorTypes, NEW a \in Actors, NEW p \in Places, Go(a, p)
                 PROVE  /\ pc' \in [Actors -> Places] /\ pc'[a] = p
                        /\ \A b \in Actors \ {a} : pc'[b] = pc[b]
BY DEF ActorTypes, Go

LEMMA WaiterTypes ==
  ASSUME TypeOK, NEW a \in Waiters, WaiterStep(a),
         pc[a] = "free" => cur[a] \in Blocks
  PROVE  TypeOK'
<1>0. /\ BlockTypes /\ ThreadTypes /\ ActorTypes /\ FlagTypes /\ a \in Actors
      /\ {"first", "wait", "join", "sweep", "look", "free", "return"} \subseteq Places
  BY TypesOf DEF Waiters, Actors, Places
<1>1. CASE First(a)
  <2>1. BlockTypes' /\ ThreadTypes' /\ FlagTypes'
    BY <1>0, <1>1 DEF First, BlockTypes, ThreadTypes, FlagTypes, blockVars, lthVars, mainVars, flagVars
  <2>2. pc' \in [Actors -> Places] /\ nx' = nx
    BY <1>0, <1>1, GoTypes DEF First
  <2>3. cur' \in [Actors -> Blocks \cup {NoBlock}]
    BY <1>0, <1>1, HeadIn DEF First, ActorTypes
  <2>4. last' \in [Actors -> BOOLEAN]
    BY <1>0, <1>1, Zenon DEF First, ActorTypes
  <2> QED BY <1>0, <2>1, <2>2, <2>3, <2>4, TypesNext, Zenon DEF ActorTypes
<1>2. CASE Wait(a)
  <2>1. BlockTypes' /\ FlagTypes'
    BY <1>0, <1>2 DEF Wait, BlockTypes, FlagTypes, blockVars, mainVars, flagVars
  <2>2. ThreadTypes'
    BY <1>0, <1>2 DEF Wait, ThreadTypes
  <2>3. pc' \in [Actors -> Places]
    BY <1>0, <1>2, GoTypes DEF Wait
  <2>4. cur' = cur /\ nx' = nx /\ last' = last
    BY <1>2 DEF Wait
  <2> QED BY <1>0, <2>1, <2>2, <2>3, <2>4, TypesNext, Zenon DEF ActorTypes
<1>3. CASE Join(a)
  <2>1. ThreadTypes' /\ FlagTypes'
    BY <1>0, <1>3 DEF Join, ThreadTypes, FlagTypes, lthVars, mainVars, flagVars
  <2>2. handle' \in [Blocks -> BOOLEAN]
    BY <1>0, <1>3, Zenon DEF Join, BlockTypes
  <2>3. pc' \in [Actors -> Places]
    BY <1>0, <1>3, GoTypes DEF Join
  <2>4. /\ cur' = cur /\ nx' = nx /\ last' = last
        /\ list' = list /\ block' = block /\ left' = left
    BY <1>3 DEF Join
  <2> QED BY <1>0, <2>1, <2>2, <2>3, <2>4, TypesNext, Zenon DEF ActorTypes, BlockTypes
<1>4. CASE Sweep(a)
  <2>1. BlockTypes' /\ ThreadTypes' /\ FlagTypes'
    BY <1>0, <1>4 DEF Sweep, BlockTypes, ThreadTypes, FlagTypes, blockVars, lthVars, mainVars, flagVars
  <2>2. pc' \in [Actors -> Places] /\ nx' = nx /\ last' = last
    BY <1>0, <1>4, GoTypes DEF Sweep
  <2>3. cur' \in [Actors -> Blocks \cup {NoBlock}]
    BY <1>0, <1>4, HeadIn DEF Sweep, ActorTypes
  <2> QED BY <1>0, <2>1, <2>2, <2>3, TypesNext, Zenon DEF ActorTypes
<1>5. CASE SweepPass(a)
  <2>1. BlockTypes' /\ ThreadTypes' /\ FlagTypes'
    BY <1>0, <1>5 DEF SweepPass, BlockTypes, ThreadTypes, FlagTypes, blockVars, lthVars, mainVars, flagVars
  <2>2. pc' = pc /\ nx' = nx /\ last' = last
    BY <1>5 DEF SweepPass
  <2>3. cur' \in [Actors -> Blocks \cup {NoBlock}]
    BY <1>0, <1>5, NextOfIn DEF SweepPass, ActorTypes
  <2> QED BY <1>0, <2>1, <2>2, <2>3, TypesNext, Zenon DEF ActorTypes
<1>6. CASE SweepUnlink(a)
  <2>1. ThreadTypes' /\ FlagTypes'
    BY <1>0, <1>6 DEF SweepUnlink, ThreadTypes, FlagTypes, lthVars, mainVars, flagVars
  <2>2. NextOf(cur[a]) \in Blocks \cup {NoBlock}
    BY <1>0, <1>6, NextOfIn DEF SweepUnlink, ActorTypes
  <2>3. left' \in [Blocks -> Blocks \cup {NoBlock}] /\ nx' \in [Actors -> Blocks \cup {NoBlock}]
    BY <1>0, <1>6, <2>2 DEF SweepUnlink, BlockTypes, ActorTypes
  <2>4. list' \in Seq(Blocks)
    BY <1>0, <1>6, RemovedType DEF SweepUnlink, BlockTypes
  <2>5. pc' \in [Actors -> Places]
    BY <1>0, <1>6, GoTypes DEF SweepUnlink
  <2>6. block' = block /\ handle' = handle /\ cur' = cur /\ last' = last
    BY <1>6 DEF SweepUnlink
  <2> QED BY <1>0, <2>1, <2>3, <2>4, <2>5, <2>6, TypesNext, Zenon DEF ActorTypes, BlockTypes
<1>7. CASE SweepFree(a)
  <2>1. ThreadTypes'
    BY <1>0, <1>7 DEF SweepFree, ThreadTypes, lthVars
  <2>2. FlagTypes'
    BY <1>0, <1>7, Zenon DEF SweepFree, FlagTypes, mainVars, flagVars
  <2>3. block' \in [Blocks -> {"none", "live", "freed"}]
    BY <1>0, <1>7 DEF SweepFree, BlockTypes
  <2>4. handle' \in [Blocks -> BOOLEAN]
    BY <1>0, <1>7, Zenon DEF SweepFree, BlockTypes
  <2>5. /\ cur' \in [Actors -> Blocks \cup {NoBlock}]
        /\ nx' \in [Actors -> Blocks \cup {NoBlock}]
    BY <1>0, <1>7 DEF SweepFree, ActorTypes
  <2>6. pc' \in [Actors -> Places]
    BY <1>0, <1>7, GoTypes DEF SweepFree
  <2>7. list' = list /\ left' = left /\ last' = last
    BY <1>7 DEF SweepFree
  <2> QED BY <1>0, <2>1, <2>2, <2>3, <2>4, <2>5, <2>6, <2>7, TypesNext, Zenon DEF ActorTypes, BlockTypes
<1>8. CASE SweepEnd(a)
  <2>1. BlockTypes' /\ ThreadTypes' /\ FlagTypes'
    BY <1>0, <1>8 DEF SweepEnd, BlockTypes, ThreadTypes, FlagTypes, blockVars, lthVars, mainVars, flagVars
  <2>2. pc' \in [Actors -> Places]
    BY <1>0, <1>8, GoTypes DEF SweepEnd
  <2>3. cur' = cur /\ nx' = nx /\ last' = last
    BY <1>8 DEF SweepEnd
  <2> QED BY <1>0, <2>1, <2>2, <2>3, TypesNext, Zenon DEF ActorTypes
<1> QED BY <1>1, <1>2, <1>3, <1>4, <1>5, <1>6, <1>7, <1>8 DEF WaiterStep

\* The steps of the others.
OtherStep ==
  \/ StartEnd \/ MainReturn \/ Destroy \/ DeleteList \/ SignalEnd \/ SignalBegin
  \/ StopCommand \/ WatcherCancel \/ WatcherEnd \/ ClientCancel
  \/ \E a \in {"master", "client"} : Create(a) \/ CreateFail(a) \/ CreateCrash(a)
  \/ \E l \in Blocks : \/ StartNext(l) \/ ClientAdd(l) \/ ClientRemove(l)
                       \/ Cancelled(l) \/ Leave(l) \/ Unlink(l) \/ Free(l) \/ ThreadEnd(l)

LEMMA MakeTypes ==
  ASSUME TypeOK, NEW a \in Actors, NEW l \in Blocks, Make(a, l), hosts' \in Nat
  PROVE  TypeOK'
<1>0. BlockTypes /\ ThreadTypes /\ ActorTypes /\ FlagTypes /\ "create" \in Places
  BY TypesOf DEF Places
<1>1. ThreadTypes' /\ FlagTypes'
  BY <1>0 DEF Make, ThreadTypes, FlagTypes, lthVars, flagVars
<1>2. block' \in [Blocks -> {"none", "live", "freed"}] /\ list' \in Seq(Blocks)
  BY <1>0 DEF Make, BlockTypes
<1>3. pc' \in [Actors -> Places] /\ cur' \in [Actors -> Blocks \cup {NoBlock}]
  BY <1>0, GoTypes DEF Make, ActorTypes
<1>4. handle' = handle /\ left' = left /\ nx' = nx /\ last' = last
  BY DEF Make
<1> QED BY <1>0, <1>1, <1>2, <1>3, <1>4, TypesNext, Zenon DEF BlockTypes, ActorTypes

LEMMA CreateTypes ==
  ASSUME TypeOK, NEW a \in {"master", "client"}, Create(a) \/ CreateFail(a) PROVE TypeOK'
<1>0. /\ BlockTypes /\ ThreadTypes /\ ActorTypes /\ FlagTypes /\ a \in Actors
      /\ {"start", "idle"} \subseteq Places
  BY TypesOf DEF Places, Actors
<1>1. FlagTypes'
  BY <1>0 DEF Create, CreateFail, FlagTypes, mainVars, flagVars
<1>2. handle' \in [Blocks -> BOOLEAN]
  BY <1>0, Zenon DEF Create, CreateFail, BlockTypes
<1>3. lth' \in [Blocks -> Lives]
  BY <1>0 DEF Create, CreateFail, ThreadTypes, Lives
<1>4. pc' \in [Actors -> Places] /\ cur' \in [Actors -> Blocks \cup {NoBlock}]
  BY <1>0, GoTypes DEF Create, CreateFail, ActorTypes
<1>5. /\ list' = list /\ block' = block /\ left' = left /\ nx' = nx /\ last' = last
      /\ lcancel' = lcancel /\ joiner' = joiner
  BY DEF Create, CreateFail
<1> QED BY <1>0, <1>1, <1>2, <1>3, <1>4, <1>5, TypesNext, Zenon
        DEF BlockTypes, ThreadTypes, ActorTypes

LEMMA ThreadStepTypes ==
  ASSUME TypeOK, NEW l \in Blocks,
         Cancelled(l) \/ Leave(l) \/ Unlink(l) \/ Free(l) \/ ThreadEnd(l)
  PROVE  TypeOK'
<1>0. BlockTypes /\ ThreadTypes /\ ActorTypes /\ FlagTypes
  BY TypesOf
<1>1. ActorTypes' /\ lcancel' = lcancel /\ joiner' = joiner
  BY <1>0 DEF Cancelled, Leave, Unlink, Free, ThreadEnd, ActorTypes, actorVars
<1>2. lth' \in [Blocks -> Lives]
  BY <1>0 DEF Cancelled, Leave, Unlink, Free, ThreadEnd, ThreadTypes, Lives
<1>3. FlagTypes'
  BY <1>0, Zenon DEF Cancelled, Leave, Unlink, Free, ThreadEnd, FlagTypes, mainVars, flagVars
<1>4. CASE Cancelled(l) \/ Leave(l) \/ ThreadEnd(l)
  <2>1. BlockTypes'
    BY <1>0, <1>4 DEF Cancelled, Leave, ThreadEnd, BlockTypes, blockVars
  <2> QED BY <1>0, <1>1, <1>2, <1>3, <2>1, TypesNext, Zenon DEF ThreadTypes
<1>5. CASE Unlink(l)
  <2>1. left' \in [Blocks -> Blocks \cup {NoBlock}]
    BY <1>0, <1>5, NextOfIn DEF Unlink, BlockTypes
  <2>2. list' \in Seq(Blocks)
    BY <1>0, <1>5, RemovedType DEF Unlink, BlockTypes
  <2>3. block' = block /\ handle' = handle
    BY <1>5 DEF Unlink
  <2> QED BY <1>0, <1>1, <1>2, <1>3, <2>1, <2>2, <2>3, TypesNext, Zenon DEF BlockTypes, ThreadTypes
<1>6. CASE Free(l)
  <2>1. block' \in [Blocks -> {"none", "live", "freed"}]
    BY <1>0, <1>6 DEF Free, BlockTypes
  <2>2. handle' \in [Blocks -> BOOLEAN]
    BY <1>0, <1>6, Zenon DEF Free, BlockTypes
  <2>3. list' = list /\ left' = left
    BY <1>6 DEF Free
  <2> QED BY <1>0, <1>1, <1>2, <1>3, <2>1, <2>2, <2>3, TypesNext, Zenon DEF BlockTypes, ThreadTypes
<1> QED BY <1>4, <1>5, <1>6

LEMMA StopTypes ==
  ASSUME TypeOK, pc["client"] = "cancel" => cur["client"] \in Blocks,
         \/ StartEnd \/ MainReturn \/ Destroy \/ DeleteList \/ SignalEnd \/ SignalBegin
         \/ StopCommand \/ WatcherCancel \/ WatcherEnd \/ ClientCancel
         \/ \E a \in {"master", "client"} : CreateCrash(a)
         \/ \E l \in Blocks : ClientRemove(l)
  PROVE  TypeOK'
<1>0. BlockTypes /\ ThreadTypes /\ ActorTypes /\ FlagTypes
  BY TypesOf
<1>1. BlockTypes' /\ lth' = lth /\ joiner' = joiner
  BY <1>0 DEF StartEnd, MainReturn, Destroy, DeleteList, SignalEnd, SignalBegin, StopCommand,
     WatcherCancel, WatcherEnd, ClientCancel, CreateCrash, ClientRemove, blockVars, lthVars, BlockTypes
<1>2. lcancel' \in [Blocks -> BOOLEAN]
  <2>1. CASE lcancel' = lcancel
    BY <1>0, <2>1 DEF ThreadTypes
  <2>2. CASE CancelAll
    BY <1>0, <2>2, CancelTypes
  <2>3. CASE ClientCancel
    <3>1. cur["client"] \in Blocks
      BY <2>3 DEF ClientCancel
    <3>2. lcancel[cur["client"]] \in BOOLEAN /\ handle[cur["client"]] \in BOOLEAN
      BY <1>0, <3>1 DEF ThreadTypes, BlockTypes
    <3> QED BY <1>0, <2>3, <3>1, <3>2, Zenon DEF ClientCancel, ThreadTypes
  <2> QED BY <2>1, <2>2, <2>3 DEF StartEnd, MainReturn, Destroy, DeleteList, SignalEnd, SignalBegin,
     StopCommand, WatcherCancel, WatcherEnd, CreateCrash, ClientRemove, lthVars
<1>3. ThreadTypes'
  BY <1>0, <1>1, <1>2, Zenon DEF ThreadTypes
<1>4. pc' \in [Actors -> Places]
  <2>1. {"first", "start", "past", "sweep", "end", "done", "idle", "cancel"} \subseteq Places
        /\ {"master", "handler", "client"} \subseteq Actors
    BY DEF Places, Actors
  <2> QED BY <1>0, <2>1 DEF ActorTypes, Go, StartEnd, MainReturn, Destroy, DeleteList, SignalEnd,
     SignalBegin, StopCommand, WatcherCancel, WatcherEnd, ClientCancel, CreateCrash, ClientRemove, actorVars
<1>5. cur' \in [Actors -> Blocks \cup {NoBlock}] /\ nx' = nx
  BY <1>0 DEF ActorTypes, StartEnd, MainReturn, Destroy, DeleteList, SignalEnd,
     SignalBegin, StopCommand, WatcherCancel, WatcherEnd, ClientCancel, CreateCrash, ClientRemove, actorVars
<1>6. last' \in [Actors -> BOOLEAN]
  BY <1>0, Zenon DEF ActorTypes, StartEnd, MainReturn, Destroy, DeleteList, SignalEnd,
     SignalBegin, StopCommand, WatcherCancel, WatcherEnd, ClientCancel, CreateCrash, ClientRemove, actorVars
<1>7. hosts' \in Nat /\ stage' \in {"main", "destroy", "force", "end"}
      /\ watcher' \in {"on", "stopping", "off"}
  BY <1>0, HostsAssumption DEF FlagTypes, StartEnd, MainReturn, Destroy, DeleteList, SignalEnd,
     SignalBegin, StopCommand, WatcherCancel, WatcherEnd, ClientCancel, CreateCrash, ClientRemove,
     mainVars, flagVars
<1>8. keep_listening' \in BOOLEAN /\ stop_listeners' \in BOOLEAN /\ crashed' \in BOOLEAN
  BY <1>0, Zenon DEF FlagTypes, StartEnd, MainReturn, Destroy, DeleteList, SignalEnd,
     SignalBegin, StopCommand, WatcherCancel, WatcherEnd, ClientCancel, CreateCrash, ClientRemove,
     mainVars, flagVars
<1>9. ActorTypes'
  BY <1>0, <1>4, <1>5, <1>6, Zenon DEF ActorTypes
<1>10. FlagTypes'
  BY <1>7, <1>8, Zenon DEF FlagTypes
<1> QED BY <1>1, <1>3, <1>9, <1>10, TypesNext

LEMMA OtherTypes ==
  ASSUME TypeOK, pc["client"] = "cancel" => cur["client"] \in Blocks, OtherStep
  PROVE  TypeOK'
<1>1. ASSUME NEW l \in Blocks, StartNext(l) \/ ClientAdd(l) PROVE TypeOK'
  <2>1. hosts \in Nat
    BY DEF TypeOK
  <2>2. hosts' \in Nat /\ (Make("master", l) \/ Make("client", l))
    BY <1>1, <2>1 DEF StartNext, ClientAdd
  <2> QED BY <2>2, MakeTypes DEF Actors
<1> QED BY <1>1, CreateTypes, ThreadStepTypes, StopTypes DEF OtherStep

-----------------------------------------------------------------------------
(* The invariant, step by step *)

Rest == ListInv /\ MadeInv /\ CreateInv /\ FoundInv

LEMMA InitOK == Init => IInv
<1> SUFFICES ASSUME Init PROVE IInv
  OBVIOUS
<1>1. TypeOK
  <2>1. BlockTypes /\ ThreadTypes /\ ActorTypes
    BY DEF Init, BlockTypes, ThreadTypes, ActorTypes, Places, Lives, Waiters
  <2>2. FlagTypes
    BY HostsAssumption DEF Init, FlagTypes
  <2> QED BY <2>1, <2>2, TypesOf
<1>2. \A l : ~InList(l)
  <2>1. list = <<>> /\ Len(<<>>) = 0
    BY DEF Init
  <2> QED BY <2>1 DEF InList
<1>3. ListInv
  BY <1>2 DEF Init, ListInv, Unique, Waiters, Actors
<1>4. MadeInv /\ CreateInv /\ FoundInv
  BY <1>2, BlocksAssumption DEF Init, MadeInv, CreateInv, FoundInv, Made, Actors
<1> QED BY <1>1, <1>3, <1>4 DEF IInv

\* A step that only moves actors about, none of them into or out of a free or
\* into a make.
LEMMA MoveOK ==
  ASSUME IInv,
         list' = list, block' = block, handle' = handle, left' = left, lth' = lth, nx' = nx,
         \A a \in Actors : Made(cur[a])',
         \A a \in Waiters : pc[a] = "free" \/ pc'[a] = "free"
                             => pc[a] = pc'[a] /\ cur[a] = cur'[a],
         \A a \in Actors : pc'[a] = "create" => pc[a] = "create" /\ cur'[a] = cur[a],
         pc'["client"] \in {"idle", "create", "cancel"},
         pc'["client"] = "cancel" => cur'["client"] \in Blocks
  PROVE  Rest'
<1>1. \A l : InList(l)' <=> InList(l)
  BY DEF InList
<1>2. \A l : Swept(l)' <=> Swept(l)
  BY DEF Swept
<1>3. ListInv'
  BY <1>1 DEF IInv, ListInv, Unique
<1>4. MadeInv'
  BY DEF IInv, MadeInv, Made
<1>5. CreateInv'
  BY DEF IInv, CreateInv
<1>6. FoundInv'
  BY <1>1, <1>2 DEF IInv, FoundInv
<1> QED BY <1>3, <1>4, <1>5, <1>6 DEF Rest

LEMMA WalkOK ==
  ASSUME IInv, NEW a \in Waiters,
         First(a) \/ Wait(a) \/ Sweep(a) \/ SweepPass(a) \/ SweepEnd(a)
  PROVE  Rest'
<1>0. TypeOK /\ a \in Actors /\ a # "client"
  BY DEF IInv, Waiters, Actors
<1>1. /\ list' = list /\ block' = block /\ handle' = handle /\ left' = left
      /\ lth' = lth /\ nx' = nx
  BY DEF First, Wait, Sweep, SweepPass, SweepEnd, blockVars, lthVars
<1>2. /\ pc[a] \notin {"free", "create"} /\ pc'[a] \notin {"free", "create"}
      /\ \A b \in Actors \ {a} : pc'[b] = pc[b]
  BY <1>0 DEF TypeOK, First, Wait, Sweep, SweepPass, SweepEnd, Go
<1>3. cur' = cur \/ \E x : cur' = [cur EXCEPT ![a] = x] /\ Made(x)
  <2>1. \A x : InList(x) => Made(x)
    BY DEF IInv, ListInv, Made
  <2>2. CASE First(a)
    BY <1>0, <2>1, <2>2, HeadIn DEF First
  <2>3. CASE Sweep(a)
    BY <1>0, <2>1, <2>3, HeadIn, BlocksAssumption DEF Sweep, Made
  <2>4. CASE SweepPass(a)
    <3>1. cur[a] \in Blocks
      BY <1>0, <2>4 DEF SweepPass, TypeOK
    <3>2. Made(NextOf(cur[a]))
      BY <1>0, <2>1, <3>1, NextOfIn, BlocksAssumption DEF IInv, MadeInv, Made
    <3> QED BY <2>4, <3>2 DEF SweepPass
  <2>5. CASE Wait(a) \/ SweepEnd(a)
    BY <2>5 DEF Wait, SweepEnd
  <2> QED BY <2>2, <2>3, <2>4, <2>5
<1>4. /\ \A b \in Actors \ {a} : cur'[b] = cur[b]
      /\ Made(cur'[a])
  BY <1>0, <1>3 DEF IInv, TypeOK, MadeInv
<1>5. \A b \in Actors : Made(cur[b])'
  BY <1>1, <1>4 DEF IInv, MadeInv, Made
<1>6. /\ "client" \in Actors \ {a} /\ pc["client"] \in {"idle", "create", "cancel"}
      /\ pc["client"] = "cancel" => cur["client"] \in Blocks
  BY <1>0 DEF Actors, IInv, CreateInv
<1>7. \A b \in Waiters : pc[b] = "free" \/ pc'[b] = "free" => pc[b] = pc'[b] /\ cur[b] = cur'[b]
  BY <1>2, <1>4 DEF Waiters, Actors
<1>8. \A b \in Actors : pc'[b] = "create" => pc[b] = "create" /\ cur'[b] = cur[b]
  BY <1>2, <1>4
<1> QED BY <1>1, <1>2, <1>4, <1>5, <1>6, <1>7, <1>8, MoveOK, Zenon

LEMMA StopOK ==
  ASSUME IInv,
         \/ StartEnd \/ MainReturn \/ Destroy \/ DeleteList \/ SignalEnd \/ SignalBegin
         \/ StopCommand \/ WatcherCancel \/ WatcherEnd \/ ClientCancel
         \/ \E a \in {"master", "client"} : CreateCrash(a)
         \/ \E l \in Blocks : ClientRemove(l)
  PROVE  Rest'
<1>1. /\ list' = list /\ block' = block /\ handle' = handle /\ left' = left
      /\ lth' = lth /\ nx' = nx
  BY DEF StartEnd, MainReturn, Destroy, DeleteList, SignalEnd, SignalBegin, StopCommand,
     WatcherCancel, WatcherEnd, ClientCancel, CreateCrash, ClientRemove, blockVars, lthVars, actorVars
<1>2. TypeOK /\ Actors = {"master", "handler", "client"} /\ Waiters = {"master", "handler"}
  BY DEF IInv, Actors, Waiters
<1>3. CASE pc' = pc /\ cur' = cur
  BY <1>1, <1>3, MoveOK DEF IInv, MadeInv, CreateInv, Made
<1>4. ASSUME NEW a \in Actors, NEW p \in {"first", "start", "past", "sweep", "end", "done"},
             a # "client", pc[a] \notin {"free", "create"}, pc' = [pc EXCEPT ![a] = p], cur' = cur
      PROVE  Rest'
  <2>1. pc'[a] = p /\ \A b \in Actors \ {a} : pc'[b] = pc[b]
    BY <1>2, <1>4 DEF TypeOK
  <2>2. \A b \in Actors : Made(cur[b])'
    BY <1>1, <1>4 DEF IInv, MadeInv, Made
  <2>3. /\ pc'["client"] \in {"idle", "create", "cancel"}
        /\ pc'["client"] = "cancel" => cur'["client"] \in Blocks
    BY <1>2, <1>4, <2>1 DEF IInv, CreateInv
  <2> QED BY <1>1, <1>2, <1>4, <2>1, <2>2, <2>3, MoveOK
<1>5. CASE StartEnd \/ MainReturn \/ Destroy \/ DeleteList \/ SignalEnd \/ SignalBegin
  <2>1. PICK a \in {"master", "handler"},
              p \in {"first", "start", "past", "sweep", "end", "done"} :
           pc[a] \notin {"free", "create"} /\ pc' = [pc EXCEPT ![a] = p] /\ cur' = cur
    BY <1>5 DEF StartEnd, MainReturn, Destroy, DeleteList, SignalEnd, SignalBegin, Go
  <2> QED BY <1>2, <1>4, <2>1
<1>6. CASE ClientCancel
  <2>1. /\ pc'["client"] = "idle" /\ cur'["client"] = NoBlock
        /\ \A b \in Waiters : pc'[b] = pc[b] /\ cur'[b] = cur[b]
    BY <1>2, <1>6 DEF ClientCancel, Go, TypeOK
  <2>2. \A b \in Actors : Made(cur[b])'
    BY <1>1, <1>2, <2>1, BlocksAssumption DEF IInv, MadeInv, Made
  <2> QED BY <1>1, <1>2, <2>1, <2>2, MoveOK
<1>7. ASSUME NEW l \in Blocks, ClientRemove(l) PROVE Rest'
  <2>1. /\ pc'["client"] = "cancel" /\ cur'["client"] = l
        /\ \A b \in Waiters : pc'[b] = pc[b] /\ cur'[b] = cur[b]
    BY <1>2, <1>7 DEF ClientRemove, Go, TypeOK
  <2>2. block[l] = "live"
    BY <1>7 DEF ClientRemove, IInv, ListInv
  <2>3. \A b \in Actors : Made(cur[b])'
    BY <1>1, <1>2, <2>1, <2>2 DEF IInv, MadeInv, Made
  <2> QED BY <1>1, <1>2, <2>1, <2>3, MoveOK
<1>8. CASE StopCommand \/ WatcherCancel \/ WatcherEnd \/ \E a \in {"master", "client"} : CreateCrash(a)
  BY <1>3, <1>8 DEF StopCommand, WatcherCancel, WatcherEnd, CreateCrash, actorVars
<1> QED BY <1>5, <1>6, <1>7, <1>8

LEMMA MakeOK ==
  ASSUME IInv, NEW a \in {"master", "client"}, NEW l \in Blocks, Make(a, l),
         pc[a] \notin {"free", "create"}
  PROVE  Rest'
<1>0. TypeOK /\ Actors = {"master", "handler", "client"} /\ Waiters = {"master", "handler"}
  BY DEF IInv, Actors, Waiters
<1>1. /\ handle' = handle /\ left' = left /\ lth' = lth /\ nx' = nx
      /\ block[l] = "none" /\ block'[l] = "live" /\ \A m \in Blocks \ {l} : block'[m] = block[m]
      /\ list' = Append(list, l)
  BY <1>0 DEF Make, lthVars, TypeOK
<1>2. /\ pc'[a] = "create" /\ cur'[a] = l
      /\ \A b \in Actors \ {a} : pc'[b] = pc[b] /\ cur'[b] = cur[b]
  BY <1>0 DEF Make, Go, TypeOK
<1>3. ~InList(l) /\ lth[l] = "none" /\ ~handle[l]
  BY <1>1 DEF IInv, ListInv, MadeInv, CreateInv
<1>4. Unique' /\ \A m : InList(m)' <=> InList(m) \/ m = l
  BY <1>0, <1>1, <1>3, AppendIn DEF IInv, ListInv, TypeOK
<1>5. \A b \in Actors : cur[b] # l
  BY <1>1 DEF IInv, MadeInv, Made
<1>6. \A m \in Blocks : Swept(m)' <=> Swept(m)
  BY <1>0, <1>1, <1>2, <1>5 DEF Swept
<1>7. ListInv'
  BY <1>0, <1>1, <1>2, <1>3, <1>4, <1>5 DEF IInv, ListInv
<1>8. MadeInv'
  BY <1>0, <1>1, <1>2 DEF IInv, MadeInv, Made
<1>9. CreateInv'
  <2>1. \A b \in Actors : pc'[b] = "create" => cur'[b] \in Blocks /\ lth'[cur'[b]] = "none"
    BY <1>0, <1>1, <1>2, <1>3 DEF IInv, CreateInv
  <2>2. \A b, c \in Actors : pc'[b] = "create" /\ pc'[c] = "create" /\ cur'[b] = cur'[c] => b = c
    BY <1>0, <1>2, <1>5 DEF IInv, CreateInv
  <2>3. /\ pc'["client"] \in {"idle", "create", "cancel"}
        /\ pc'["client"] = "cancel" => cur'["client"] \in Blocks
    BY <1>0, <1>2 DEF IInv, CreateInv
  <2> QED BY <1>1, <2>1, <2>2, <2>3 DEF IInv, CreateInv
<1>10. FoundInv'
  BY <1>1, <1>3, <1>4, <1>6 DEF IInv, FoundInv
<1> QED BY <1>7, <1>8, <1>9, <1>10 DEF Rest

LEMMA CreateOK ==
  ASSUME IInv, NEW a \in {"master", "client"}, Create(a) \/ CreateFail(a)
  PROVE  Rest'
<1>0. TypeOK /\ Actors = {"master", "handler", "client"} /\ Waiters = {"master", "handler"}
  BY DEF IInv, Actors, Waiters
<1>1. PICK l \in Blocks : l = cur[a] /\ pc[a] = "create" /\ lth[l] = "none" /\ block[l] = "live"
  BY <1>0 DEF IInv, CreateInv, Create, CreateFail
<1>2. /\ list' = list /\ block' = block /\ left' = left /\ nx' = nx
      /\ \A m \in Blocks \ {l} : handle'[m] = handle[m] /\ lth'[m] = lth[m]
      /\ lth'[l] = "failed" \/ (lth'[l] = "run" /\ handle'[l])
  <2>1. CASE Create(a)
    BY <1>0, <1>1, <2>1 DEF Create, TypeOK
  <2>2. CASE CreateFail(a)
    BY <1>0, <1>1, <2>2 DEF CreateFail, TypeOK
  <2> QED BY <2>1, <2>2
<1>3. /\ pc'[a] \in {"start", "idle"} /\ (a = "client" => pc'[a] = "idle") /\ cur'[a] = NoBlock
      /\ \A b \in Actors \ {a} : pc'[b] = pc[b] /\ cur'[b] = cur[b]
  BY <1>0 DEF Create, CreateFail, Go, TypeOK
<1>4. \A m : InList(m)' <=> InList(m)
  BY <1>2 DEF InList
<1>5. \A m \in Blocks : Swept(m)' <=> Swept(m)
  BY <1>0, <1>1, <1>2, <1>3 DEF Swept
<1>6. ListInv'
  BY <1>0, <1>1, <1>2, <1>3, <1>4 DEF IInv, ListInv, Unique
<1>7. MadeInv'
  BY <1>0, <1>1, <1>2, <1>3, BlocksAssumption DEF IInv, MadeInv, Made
<1>8. CreateInv'
  <2>1. \A m \in Blocks : lth'[m] = "none" => ~handle'[m]
    BY <1>2 DEF IInv, CreateInv
  <2>2. \A b \in Actors : pc'[b] = "create" => b # a /\ cur[b] # l
    BY <1>0, <1>1, <1>3 DEF IInv, CreateInv
  <2>3. \A b \in Actors : pc'[b] = "create" => cur'[b] \in Blocks /\ lth'[cur'[b]] = "none"
    BY <1>2, <1>3, <2>2 DEF IInv, CreateInv
  <2>4. \A b, c \in Actors : pc'[b] = "create" /\ pc'[c] = "create" /\ cur'[b] = cur'[c] => b = c
    BY <1>3, <2>2 DEF IInv, CreateInv
  <2>5. /\ pc'["client"] \in {"idle", "create", "cancel"}
        /\ pc'["client"] = "cancel" => cur'["client"] \in Blocks
    BY <1>0, <1>3 DEF IInv, CreateInv
  <2> QED BY <2>1, <2>3, <2>4, <2>5 DEF CreateInv
<1>9. FoundInv'
  BY <1>1, <1>2, <1>4, <1>5 DEF IInv, FoundInv
<1> QED BY <1>6, <1>7, <1>8, <1>9 DEF Rest

LEMMA ThreadOK ==
  ASSUME IInv, NEW l \in Blocks, Cancelled(l) \/ Leave(l) \/ Unlink(l) \/ Free(l) \/ ThreadEnd(l)
  PROVE  Rest'
<1>0. TypeOK /\ Actors = {"master", "handler", "client"} /\ Waiters = {"master", "handler"}
  BY DEF IInv, Actors, Waiters
<1>1. pc' = pc /\ cur' = cur /\ nx' = nx
  BY DEF Cancelled, Leave, Unlink, Free, ThreadEnd, actorVars
<1>2. CASE Cancelled(l) \/ Leave(l) \/ ThreadEnd(l)
  <2>1. /\ list' = list /\ block' = block /\ handle' = handle /\ left' = left
        /\ \A m \in Blocks \ {l} : lth'[m] = lth[m]
        /\ \/ lth[l] = "run" /\ lth'[l] = "cleanup"
           \/ lth[l] = "tail" /\ lth'[l] = "ended"
    BY <1>0, <1>2 DEF Cancelled, Leave, ThreadEnd, TypeOK, blockVars
  <2>2. (\A m : InList(m)' <=> InList(m)) /\ \A m : Swept(m)' <=> Swept(m)
    BY <1>1, <2>1 DEF InList, Swept
  <2>3. ListInv'
    BY <1>1, <2>1, <2>2 DEF IInv, ListInv, Unique
  <2>4. MadeInv' /\ CreateInv'
    BY <1>1, <2>1 DEF IInv, MadeInv, CreateInv, Made
  <2>5. FoundInv'
    BY <2>1, <2>2 DEF IInv, FoundInv
  <2> QED BY <2>3, <2>4, <2>5 DEF Rest
<1>3. CASE Unlink(l)
  <2>1. /\ block' = block /\ handle' = handle /\ list' = Removed(l)
        /\ \A m \in Blocks \ {l} : lth'[m] = lth[m] /\ left'[m] = left[m]
        /\ lth[l] = "cleanup" /\ lth'[l] = "free" /\ left'[l] = NextOf(l)
    BY <1>0, <1>3 DEF Unlink, TypeOK
  <2>2. Unique' /\ \A m : InList(m)' <=> InList(m) /\ m # l
    BY <1>0, <2>1, RemovedIn DEF IInv, ListInv, TypeOK
  <2>3. \A m : Swept(m)' <=> Swept(m)
    BY <1>1, <2>1 DEF Swept
  <2>4. Made(NextOf(l))
    BY <1>0, NextOfIn, BlocksAssumption DEF IInv, ListInv, MadeInv, Made
  <2>5. ListInv'
    BY <1>1, <2>1, <2>2 DEF IInv, ListInv
  <2>6. MadeInv'
    BY <1>1, <2>1, <2>4 DEF IInv, MadeInv, Made
  <2>7. CreateInv'
    BY <1>1, <2>1 DEF IInv, CreateInv
  <2>8. FoundInv'
    BY <2>1, <2>2, <2>3 DEF IInv, FoundInv
  <2> QED BY <2>5, <2>6, <2>7, <2>8 DEF Rest
<1>4. CASE Free(l)
  <2>1. /\ list' = list /\ left' = left /\ ~handle'[l] /\ block'[l] = "freed"
        /\ \A m \in Blocks \ {l} : lth'[m] = lth[m] /\ block'[m] = block[m] /\ handle'[m] = handle[m]
        /\ lth[l] = "free" /\ lth'[l] = "tail"
    BY <1>0, <1>4 DEF Free, TypeOK
  <2>2. \A m : InList(m)' <=> InList(m)
    BY <2>1 DEF InList
  <2>3. Swept(l)' /\ \A m \in Blocks \ {l} : Swept(m)' <=> Swept(m)
    BY <1>1, <2>1 DEF Swept
  <2>4. ListInv'
    BY <1>1, <2>1, <2>2 DEF IInv, ListInv, Unique
  <2>5. MadeInv' /\ CreateInv'
    BY <1>1, <2>1 DEF IInv, MadeInv, CreateInv, Made
  <2>6. FoundInv'
    BY <2>1, <2>2, <2>3 DEF IInv, FoundInv
  <2> QED BY <2>4, <2>5, <2>6 DEF Rest
<1> QED BY <1>2, <1>3, <1>4

LEMMA SweepOK ==
  ASSUME IInv, NEW a \in Waiters, Join(a) \/ SweepUnlink(a) \/ SweepFree(a)
  PROVE  Rest'
<1>0. /\ TypeOK /\ Actors = {"master", "handler", "client"} /\ Waiters = {"master", "handler"}
      /\ a \in Actors /\ a # "client"
  BY DEF IInv, Actors, Waiters
<1>1. lth' = lth
  BY DEF Join, SweepUnlink, SweepFree, lthVars
<1>2. /\ \A b \in Actors \ {a} : pc'[b] = pc[b] /\ cur'[b] = cur[b] /\ nx'[b] = nx[b]
      /\ pc[a] # "create" /\ pc'[a] # "create"
  BY <1>0 DEF Join, SweepUnlink, SweepFree, Go, TypeOK
<1>3. /\ \A b \in Actors : pc'[b] = "create" => pc[b] = "create" /\ b # a
      /\ pc'["client"] = pc["client"] /\ cur'["client"] = cur["client"]
  BY <1>0, <1>2
<1>4. (\A m \in Blocks : handle'[m] => handle[m]) => CreateInv'
  BY <1>0, <1>1, <1>2, <1>3 DEF IInv, CreateInv
<1>5. CASE Join(a)
  <2>1. /\ list' = list /\ block' = block /\ left' = left /\ nx' = nx /\ cur' = cur
        /\ pc[a] = "join" /\ pc'[a] = "sweep" /\ lth[cur[a]] = "ended"
        /\ \A m \in Blocks : handle'[m] => handle[m]
        /\ \A m \in Blocks : m # cur[a] => handle'[m] = handle[m]
    BY <1>0, <1>5 DEF Join, Go, TypeOK
  <2>2. (\A m : InList(m)' <=> InList(m)) /\ \A m : Swept(m)' <=> Swept(m)
    BY <1>0, <1>2, <2>1 DEF InList, Swept
  <2>3. ListInv'
    BY <1>0, <1>1, <1>2, <2>1, <2>2 DEF IInv, ListInv, Unique
  <2>4. MadeInv'
    BY <1>1, <2>1 DEF IInv, MadeInv, Made
  <2>5. FoundInv'
    BY <1>1, <2>1, <2>2 DEF IInv, FoundInv
  <2> QED BY <1>4, <2>1, <2>3, <2>4, <2>5 DEF Rest
<1>6. CASE SweepUnlink(a)
  <2>1. PICK l \in Blocks : l = cur[a]
    BY <1>0, <1>6 DEF SweepUnlink, TypeOK
  <2>2. /\ block' = block /\ handle' = handle /\ cur' = cur /\ list' = Removed(l)
        /\ \A m \in Blocks \ {l} : left'[m] = left[m]
        /\ left'[l] = NextOf(l) /\ nx'[a] = NextOf(l)
        /\ pc[a] = "look" /\ pc'[a] = "free"
    BY <1>0, <1>6, <2>1 DEF SweepUnlink, Go, TypeOK
  <2>3. Unique' /\ \A m : InList(m)' <=> InList(m) /\ m # l
    BY <1>0, <2>2, RemovedIn DEF IInv, ListInv, TypeOK
  <2>4. Swept(l)' /\ \A m \in Blocks \ {l} : Swept(m)' <=> Swept(m)
    BY <1>0, <1>2, <2>1, <2>2 DEF Swept
  <2>5. Made(NextOf(l))
    BY <1>0, NextOfIn, BlocksAssumption DEF IInv, ListInv, MadeInv, Made
  <2>6. ListInv'
    BY <1>0, <1>1, <1>2, <2>1, <2>2, <2>3 DEF IInv, ListInv
  <2>7. MadeInv'
    <3>1. \A b \in Actors : Made(cur[b])' /\ Made(nx[b])'
      BY <1>0, <1>2, <2>2, <2>5 DEF IInv, MadeInv, Made
    <3>2. \A m \in Blocks : Made(left[m])'
      BY <2>2, <2>5 DEF IInv, MadeInv, Made
    <3> QED BY <1>1, <2>2, <3>1, <3>2 DEF IInv, MadeInv
  <2>8. FoundInv'
    BY <1>1, <2>2, <2>3, <2>4 DEF IInv, FoundInv
  <2> QED BY <1>4, <2>2, <2>6, <2>7, <2>8 DEF Rest
<1>7. CASE SweepFree(a)
  <2>1. PICK l \in Blocks : l = cur[a] /\ pc[a] = "free" /\ ~InList(l)
    BY <1>7 DEF SweepFree, IInv, ListInv
  <2>2. /\ list' = list /\ left' = left /\ ~handle'[l] /\ block'[l] = "freed"
        /\ \A m \in Blocks \ {l} : block'[m] = block[m] /\ handle'[m] = handle[m]
        /\ cur'[a] = nx[a] /\ nx'[a] = NoBlock /\ pc'[a] = "look"
    BY <1>0, <1>7, <2>1 DEF SweepFree, Go, TypeOK
  <2>3. \A m : InList(m)' <=> InList(m)
    BY <2>2 DEF InList
  <2>4. Swept(l)' /\ \A m \in Blocks \ {l} : Swept(m)' <=> Swept(m)
    BY <1>0, <1>2, <2>1, <2>2 DEF Swept
  <2>5. ListInv'
    BY <1>0, <1>1, <1>2, <2>1, <2>2, <2>3 DEF IInv, ListInv, Unique
  <2>6. MadeInv'
    <3>1. \A x : Made(x) => Made(x)'
      BY <2>2 DEF Made
    <3>2. \A b \in Actors : Made(cur[b])' /\ Made(nx[b])'
      BY <1>0, <1>2, <2>2, BlocksAssumption DEF IInv, MadeInv, Made
    <3>3. \A m \in Blocks : Made(left[m])'
      BY <2>2 DEF IInv, MadeInv, Made
    <3> QED BY <1>1, <2>2, <3>2, <3>3 DEF IInv, MadeInv
  <2>7. FoundInv'
    BY <1>1, <2>2, <2>3, <2>4 DEF IInv, FoundInv
  <2> QED BY <1>4, <2>2, <2>5, <2>6, <2>7 DEF Rest
<1> QED BY <1>5, <1>6, <1>7

LEMMA StepOK == IInv /\ [Next]_vars => IInv'
<1> SUFFICES ASSUME IInv, [Next]_vars PROVE IInv'
  OBVIOUS
<1>0. /\ TypeOK
      /\ pc["client"] = "cancel" => cur["client"] \in Blocks
      /\ \A a \in Waiters : pc[a] = "free" => cur[a] \in Blocks
      /\ IInv' <=> TypeOK' /\ Rest'
  BY Zenon DEF IInv, ListInv, CreateInv, Rest
<1>1. ASSUME NEW a \in Waiters, WaiterStep(a) PROVE IInv'
  <2>1. TypeOK'
    BY <1>0, <1>1, WaiterTypes, Zenon
  <2>2. Rest'
    BY <1>1, WalkOK, SweepOK, Zenon DEF WaiterStep
  <2> QED BY <1>0, <2>1, <2>2
<1>2. CASE OtherStep
  <2>1. ASSUME NEW l \in Blocks, StartNext(l) \/ ClientAdd(l) PROVE Rest'
    <3>1. CASE StartNext(l)
      <4>1. Make("master", l) /\ pc["master"] \notin {"free", "create"}
        BY <3>1 DEF StartNext
      <4> QED BY <4>1, MakeOK
    <3>2. CASE ClientAdd(l)
      <4>1. Make("client", l) /\ pc["client"] \notin {"free", "create"}
        BY <3>2 DEF ClientAdd
      <4> QED BY <4>1, MakeOK
    <3> QED BY <2>1, <3>1, <3>2
  <2>2. ASSUME NEW a \in {"master", "client"}, Create(a) \/ CreateFail(a) PROVE Rest'
    BY <2>2, CreateOK, Zenon
  <2>3. ASSUME NEW l \in Blocks,
               Cancelled(l) \/ Leave(l) \/ Unlink(l) \/ Free(l) \/ ThreadEnd(l)
        PROVE  Rest'
    BY <2>3, ThreadOK, Zenon
  <2>4. Rest'
    BY <1>2, <2>1, <2>2, <2>3, StopOK, Zenon DEF OtherStep
  <2> QED BY <1>0, <1>2, <2>4, OtherTypes, Zenon
<1>3. CASE UNCHANGED vars
  <2>1. TypeOK'
    <3>1. BlockTypes /\ ThreadTypes /\ ActorTypes /\ FlagTypes
      BY <1>0, TypesOf
    <3>2. BlockTypes' /\ ThreadTypes'
      BY <1>3, <3>1 DEF BlockTypes, ThreadTypes, vars, blockVars, lthVars
    <3>3. ActorTypes' /\ FlagTypes'
      BY <1>3, <3>1, Zenon DEF ActorTypes, FlagTypes, vars, actorVars, mainVars, flagVars
    <3> QED BY <3>2, <3>3, TypesNext
  <2>2. Rest'
    BY <1>3, MoveOK DEF IInv, MadeInv, CreateInv, Made, vars, blockVars, lthVars, actorVars
  <2> QED BY <1>0, <2>1, <2>2
<1>4. Next => OtherStep \/ \E a \in Waiters : WaiterStep(a)
  BY Zenon DEF Next, MasterStep, HandlerStep, ListenerStep, OtherStep, Waiters
<1> QED BY <1>1, <1>2, <1>3, <1>4

\* The invariant that the theorems rest on.
THEOREM Invariant == Spec => []IInv
<1>1. Init => IInv
  BY InitOK
<1>2. IInv /\ [Next]_vars => IInv'
  BY StepOK
<1> QED BY <1>1, <1>2, PTL DEF Spec

\* Every variable keeps its type, whatever the threads, the waiters and the
\* clients of the listeners do.
THEOREM TypeCorrect == Spec => []TypeOK
<1>1. IInv => TypeOK
  BY DEF IInv
<1> QED BY <1>1, Invariant, PTL

\* However many threads end and waiters sweep at a time, what is in
\* ctrl.lcontrols_list was never freed and is in it once.
THEOREM ListCorrect == Spec => []ListIsLive
<1>1. IInv => ListIsLive
  BY DEF IInv, TypeOK, ListInv, ListIsLive, Unique, InList
<1> QED BY <1>1, Invariant, PTL

\* mas_listeners_cancel finds every listener that may accept a client, but for
\* those whose block was swept before pthread_create filled it.
THEOREM ReachCorrect == Spec => []ListenersReachable
<1>1. IInv => ListenersReachable
  <2>1. ASSUME IInv, NEW l \in Blocks, lth[l] \in {"run", "cleanup"}, ~Swept(l)
        PROVE  InList(l) /\ handle[l]
    <3>1. block[l] = "live"
      BY <2>1 DEF IInv, MadeInv, TypeOK, Swept
    <3> QED BY <2>1, <3>1 DEF IInv, FoundInv
  <2> QED BY <2>1 DEF ListenersReachable
<1> QED BY <1>1, Invariant, PTL

\* What mas_listeners_cancel and a remove command cancel is the thread of a
\* listener that has not ended, or what a failed pthread_create left.
THEOREM HandlesCorrect == Spec => []HandlesCurrent
<1>1. IInv => HandlesCurrent
  BY DEF IInv, TypeOK, ListInv, CreateInv, HandlesCurrent
<1> QED BY <1>1, Invariant, PTL

-----------------------------------------------------------------------------
(* The end of the process, when no client adds or removes a listener and no *)
(* stop comes before the listeners run *)

LEMMA EmptyRemoved == ASSUME list = <<>>, NEW l PROVE Removed(l) = <<>>
<1>1. Len(<<>>) = 0
  OBVIOUS
<1> QED BY <1>1 DEF Removed, InList

LEMMA CalmWalk ==
  ASSUME IInv, CalmInv, NEW a \in Waiters,
         First(a) \/ Wait(a) \/ Sweep(a) \/ SweepPass(a) \/ SweepEnd(a)
  PROVE  CalmInv'
<1>0. /\ TypeOK /\ Actors = {"master", "handler", "client"} /\ Waiters = {"master", "handler"}
      /\ a \in Actors /\ a # "client"
  BY DEF IInv, Actors, Waiters
<1>1. /\ list' = list /\ handle' = handle /\ lth' = lth /\ stage' = stage
      /\ \A b \in Actors \ {a} : pc'[b] = pc[b] /\ cur'[b] = cur[b] /\ last'[b] = last[b]
  BY <1>0 DEF First, Wait, Sweep, SweepPass, SweepEnd, blockVars, lthVars, mainVars, Go, TypeOK
<1>2. \A l : InList(l)' <=> InList(l)
  BY <1>1 DEF InList
<1>3. /\ pc[a] \in {"first", "wait", "sweep", "look"}
      /\ pc'[a] \in {"wait", "sweep", "join", "look", "return", "first"}
      /\ last[a] => last'[a]
      /\ last'[a] => last[a] \/ list = <<>>
      /\ pc'[a] = "return" => last[a]
  BY <1>0 DEF First, Wait, Sweep, SweepPass, SweepEnd, Go, TypeOK
<1>4. /\ stage = "force" /\ a = "master" => pc'[a] \in {"look", "return"}
      /\ stage = "force" /\ a = "master" /\ pc'[a] = "look" => cur'[a] = NoBlock
  <2>1. CASE First(a) \/ Wait(a)
    BY <2>1 DEF First, Wait, CalmInv
  <2>2. CASE Sweep(a)
    BY <1>0, <2>2 DEF Sweep, Go, TypeOK, CalmInv
  <2>3. CASE SweepPass(a)
    BY <2>3 DEF SweepPass, CalmInv
  <2>4. CASE SweepEnd(a)
    BY <1>0, <2>4 DEF SweepEnd, Go, TypeOK, CalmInv
  <2> QED BY <2>1, <2>2, <2>3, <2>4
<1>5. a = "handler" => ~Starting
  BY <1>3 DEF CalmInv
<1>6. Starting' => Starting /\ a = "handler"
  BY <1>0, <1>1, <1>3 DEF Starting
<1>7. ~Starting'
  BY <1>0, <1>5, <1>6
<1>8. pc'["client"] = "idle"
  BY <1>0, <1>1 DEF CalmInv
<1>9. \A l \in Blocks : lth'[l] \in {"run", "cleanup"} => InList(l)' /\ handle'[l]
  BY <1>1, <1>2 DEF CalmInv
<1>10. \A b \in Waiters : pc'[b] = "return" => last'[b]
  BY <1>0, <1>1, <1>3 DEF CalmInv
<1>11. \A b \in Waiters : last'[b] => list' = <<>>
  BY <1>0, <1>1, <1>3 DEF CalmInv
<1>12. /\ stage' \in {"force", "end"} => list' = <<>>
       /\ stage' = "force" => last'["master"] /\ pc'["master"] \in {"sweep", "look", "return"}
       /\ stage' = "force" /\ pc'["master"] = "look" => cur'["master"] = NoBlock
       /\ stage' = "end" => pc'["master"] = "end"
  BY <1>0, <1>1, <1>3, <1>4 DEF CalmInv
<1> QED BY <1>7, <1>8, <1>9, <1>10, <1>11, <1>12 DEF CalmInv

LEMMA CalmSweep ==
  ASSUME IInv, CalmInv, NEW a \in Waiters, Join(a) \/ SweepUnlink(a) \/ SweepFree(a)
  PROVE  CalmInv'
<1>0. /\ TypeOK /\ Actors = {"master", "handler", "client"} /\ Waiters = {"master", "handler"}
      /\ a \in Actors /\ a # "client"
  BY DEF IInv, Actors, Waiters
<1>1. /\ lth' = lth /\ stage' = stage /\ last' = last
      /\ \A b \in Actors \ {a} : pc'[b] = pc[b] /\ cur'[b] = cur[b]
      /\ pc[a] \in {"join", "look", "free"} /\ pc'[a] \in {"sweep", "look", "free"}
  BY <1>0 DEF Join, SweepUnlink, SweepFree, lthVars, mainVars, Go, TypeOK
<1>2. list = <<>> => list' = <<>>
  BY EmptyRemoved DEF Join, SweepUnlink, SweepFree
<1>3. \A l \in Blocks : lth[l] \in {"run", "cleanup"} => InList(l)' /\ handle'[l]
  <2>1. CASE Join(a)
    <3>1. /\ list' = list /\ lth[cur[a]] = "ended"
          /\ \A l \in Blocks : l # cur[a] => handle'[l] = handle[l]
      BY <1>0, <2>1 DEF Join, TypeOK
    <3> QED BY <3>1 DEF CalmInv, InList
  <2>2. CASE SweepUnlink(a)
    <3>1. /\ list' = Removed(cur[a]) /\ handle' = handle
          /\ ~handle[cur[a]] \/ (a = "master" /\ stage = "force")
          /\ pc[a] = "look" /\ cur[a] # NoBlock
      BY <2>2 DEF SweepUnlink, Unwanted
    <3>2. ~handle[cur[a]]
      BY <3>1 DEF CalmInv
    <3>3. \A m : InList(m)' <=> InList(m) /\ m # cur[a]
      BY <1>0, <3>1, RemovedIn DEF IInv, ListInv, TypeOK
    <3> QED BY <3>1, <3>2, <3>3 DEF CalmInv
  <2>3. CASE SweepFree(a)
    <3>1. /\ list' = list /\ pc[a] = "free"
          /\ \A l \in Blocks : l # cur[a] => handle'[l] = handle[l]
      BY <1>0, <2>3 DEF SweepFree, TypeOK
    <3>2. ~InList(cur[a])
      BY <3>1 DEF IInv, ListInv
    <3> QED BY <3>1, <3>2 DEF CalmInv, InList
  <2> QED BY <2>1, <2>2, <2>3
<1>4. stage = "force" => a = "handler"
  <2>1. stage = "force" /\ a = "master" => pc[a] = "look" /\ cur[a] = NoBlock
    BY <1>1 DEF CalmInv
  <2>2. pc[a] = "look" => cur[a] # NoBlock
    BY DEF Join, SweepUnlink, SweepFree
  <2> QED BY <1>0, <2>1, <2>2
<1>5. ~Starting'
  BY <1>0, <1>1 DEF Starting, CalmInv
<1>6. pc'["client"] = "idle" /\ \A b \in Waiters : pc'[b] = "return" => last'[b]
  BY <1>0, <1>1 DEF CalmInv
<1>7. \A b \in Waiters : last'[b] => list' = <<>>
  BY <1>1, <1>2 DEF CalmInv
<1>8. /\ stage' \in {"force", "end"} => list' = <<>>
      /\ stage' = "force" => last'["master"] /\ pc'["master"] \in {"sweep", "look", "return"}
      /\ stage' = "force" /\ pc'["master"] = "look" => cur'["master"] = NoBlock
      /\ stage' = "end" => pc'["master"] = "end"
  BY <1>0, <1>1, <1>2, <1>4 DEF CalmInv
<1> QED BY <1>1, <1>3, <1>5, <1>6, <1>7, <1>8 DEF CalmInv

LEMMA CalmMaster ==
  ASSUME Calm, IInv, CalmInv,
         \/ \E l \in Blocks : StartNext(l)
         \/ Create("master") \/ CreateFail("master")
  PROVE  CalmInv'
<1>0. TypeOK /\ Actors = {"master", "handler", "client"} /\ Waiters = {"master", "handler"}
  BY DEF IInv, Actors, Waiters
<1>1. /\ pc["master"] \in {"start", "create"} /\ pc'["master"] \in {"start", "create"}
      /\ stage' = stage /\ last' = last
      /\ \A b \in Actors \ {"master"} : pc'[b] = pc[b]
  BY <1>0 DEF StartNext, Make, Create, CreateFail, Go, TypeOK, mainVars
<1>2. /\ pc["handler"] = "idle" /\ stage = "main"
      /\ \A b \in Waiters : ~last[b]
  BY <1>1 DEF CalmInv, Starting
<1>3. \A l \in Blocks : lth'[l] \in {"run", "cleanup"} => InList(l)' /\ handle'[l]
  <2>1. ASSUME NEW m \in Blocks, StartNext(m)
        PROVE  \A l \in Blocks : lth'[l] \in {"run", "cleanup"} => InList(l)' /\ handle'[l]
    <3>1. /\ list' = Append(list, m) /\ lth' = lth /\ handle' = handle /\ block[m] = "none"
      BY <2>1 DEF StartNext, Make, lthVars
    <3>2. \A l : InList(l)' <=> InList(l) \/ l = m
      BY <1>0, <3>1, AppendIn DEF IInv, ListInv, TypeOK
    <3> QED BY <3>1, <3>2 DEF CalmInv
  <2>2. CASE Create("master") \/ CreateFail("master")
    <3>1. PICK m \in Blocks : /\ m = cur["master"] /\ lth[m] = "none" /\ block[m] = "live"
                              /\ pc["master"] = "create"
      BY <1>0, <2>2 DEF IInv, CreateInv, Create, CreateFail
    <3>2. InList(m)
      <4>1. ~Swept(m)
        BY <1>0, <1>2, <3>1 DEF Swept
      <4> QED BY <3>1, <4>1 DEF IInv, FoundInv
    <3>3. /\ list' = list
          /\ \A l \in Blocks \ {m} : lth'[l] = lth[l] /\ handle'[l] = handle[l]
          /\ lth'[m] = "failed" \/ (lth'[m] = "run" /\ handle'[m])
      <4>1. CASE Create("master")
        BY <1>0, <3>1, <4>1 DEF Create, TypeOK
      <4>2. CASE CreateFail("master")
        BY <1>0, <3>1, <4>2 DEF CreateFail, TypeOK
      <4> QED BY <2>2, <4>1, <4>2
    <3> QED BY <3>2, <3>3 DEF CalmInv, InList
  <2> QED BY <2>1, <2>2
<1>4. pc'["client"] = "idle" /\ pc'["handler"] = "idle" /\ stage' = "main"
  BY <1>0, <1>1, <1>2 DEF CalmInv
<1> QED BY <1>0, <1>1, <1>2, <1>3, <1>4 DEF CalmInv

LEMMA CalmThread ==
  ASSUME IInv, CalmInv, NEW l \in Blocks,
         Cancelled(l) \/ Leave(l) \/ Unlink(l) \/ Free(l) \/ ThreadEnd(l)
  PROVE  CalmInv'
<1>0. TypeOK
  BY DEF IInv
<1>1. pc' = pc /\ cur' = cur /\ last' = last /\ stage' = stage
  BY DEF Cancelled, Leave, Unlink, Free, ThreadEnd, actorVars, mainVars
<1>2. list = <<>> => list' = <<>>
  BY EmptyRemoved DEF Cancelled, Leave, Unlink, Free, ThreadEnd, blockVars
<1>3. \A m \in Blocks : lth'[m] \in {"run", "cleanup"} => InList(m)' /\ handle'[m]
  <2>1. CASE Cancelled(l) \/ Leave(l) \/ ThreadEnd(l)
    <3>1. /\ list' = list /\ handle' = handle /\ \A m \in Blocks \ {l} : lth'[m] = lth[m]
          /\ lth[l] = "run" \/ lth'[l] = "ended"
      BY <1>0, <2>1 DEF Cancelled, Leave, ThreadEnd, TypeOK, blockVars
    <3> QED BY <3>1 DEF CalmInv, InList
  <2>2. CASE Unlink(l)
    <3>1. /\ list' = Removed(l) /\ handle' = handle /\ lth'[l] = "free"
          /\ \A m \in Blocks \ {l} : lth'[m] = lth[m]
      BY <1>0, <2>2 DEF Unlink, TypeOK
    <3>2. \A m : InList(m)' <=> InList(m) /\ m # l
      BY <1>0, <3>1, RemovedIn DEF IInv, ListInv, TypeOK
    <3> QED BY <3>1, <3>2 DEF CalmInv
  <2>3. CASE Free(l)
    <3>1. /\ list' = list /\ lth'[l] = "tail"
          /\ \A m \in Blocks \ {l} : lth'[m] = lth[m] /\ handle'[m] = handle[m]
      BY <1>0, <2>3 DEF Free, TypeOK
    <3> QED BY <3>1 DEF CalmInv, InList
  <2> QED BY <2>1, <2>2, <2>3
<1> QED BY <1>1, <1>2, <1>3 DEF CalmInv, Starting

LEMMA CalmStop ==
  ASSUME Calm, IInv, CalmInv,
         \/ StartEnd \/ MainReturn \/ Destroy \/ DeleteList \/ SignalEnd \/ SignalBegin
         \/ StopCommand \/ WatcherCancel \/ WatcherEnd
         \/ CreateCrash("master")
         \/ UNCHANGED vars
  PROVE  CalmInv'
<1>0. TypeOK /\ Actors = {"master", "handler", "client"} /\ Waiters = {"master", "handler"}
  BY DEF IInv, Actors, Waiters
<1>1. list' = list /\ handle' = handle /\ lth' = lth /\ cur' = cur
  BY DEF StartEnd, MainReturn, Destroy, DeleteList, SignalEnd, SignalBegin, StopCommand,
     WatcherCancel, WatcherEnd, CreateCrash, vars, blockVars, lthVars, actorVars
<1>2. \A m \in Blocks : lth'[m] \in {"run", "cleanup"} => InList(m)' /\ handle'[m]
  BY <1>1 DEF CalmInv, InList
<1>3. CASE StopCommand \/ WatcherCancel \/ WatcherEnd \/ CreateCrash("master") \/ UNCHANGED vars
  <2>1. pc' = pc /\ last' = last /\ stage' = stage
    BY <1>3 DEF StopCommand, WatcherCancel, WatcherEnd, CreateCrash, vars, actorVars, mainVars
  <2> QED BY <1>1, <1>2, <2>1 DEF CalmInv, Starting
<1>4. CASE StartEnd
  <2>1. /\ pc["master"] = "start" /\ pc'["master"] = "first" /\ last' = last /\ stage' = stage
        /\ pc'["handler"] = pc["handler"] /\ pc'["client"] = pc["client"]
    BY <1>0, <1>4 DEF StartEnd, Go, TypeOK, mainVars
  <2> QED BY <1>0, <1>1, <1>2, <2>1 DEF CalmInv, Starting
<1>5. CASE MainReturn
  <2>1. list = <<>>
    BY <1>0, <1>5 DEF MainReturn, CalmInv
  <2>2. /\ pc["master"] = "return" /\ pc'["master"] = "past" /\ ~last'["master"]
        /\ last'["handler"] = last["handler"] /\ stage = "main" /\ stage' = stage
        /\ pc'["handler"] = pc["handler"] /\ pc'["client"] = pc["client"]
    BY <1>0, <1>5, <2>1 DEF MainReturn, Go, TypeOK
  <2> QED BY <1>0, <1>1, <1>2, <2>1, <2>2 DEF CalmInv, Starting
<1>6. CASE Destroy
  <2>1. /\ pc["master"] = "past" /\ pc'["master"] = "first" /\ last' = last
        /\ stage' = "destroy"
        /\ pc'["handler"] = pc["handler"] /\ pc'["client"] = pc["client"]
    BY <1>0, <1>6 DEF Destroy, Go, TypeOK
  <2> QED BY <1>0, <1>1, <1>2, <2>1 DEF CalmInv, Starting
<1>7. CASE DeleteList
  <2>1. /\ pc["master"] = "return" /\ last' = last
        /\ \/ stage' = "force" /\ pc'["master"] = "sweep"
           \/ stage' = "end" /\ pc'["master"] = "end"
        /\ pc'["handler"] = pc["handler"] /\ pc'["client"] = pc["client"]
    BY <1>0, <1>7 DEF DeleteList, Go, TypeOK
  <2>2. last["master"] /\ list = <<>>
    BY <1>0, <2>1 DEF CalmInv
  <2> QED BY <1>0, <1>1, <1>2, <2>1, <2>2 DEF CalmInv, Starting
<1>8. CASE SignalBegin \/ SignalEnd
  <2>1. /\ pc'["handler"] \in {"first", "done"} /\ last' = last /\ stage' = stage
        /\ pc'["master"] = pc["master"] /\ pc'["client"] = pc["client"]
        /\ pc["handler"] = "return" \/ ~Starting
    BY <1>0, <1>8 DEF SignalBegin, SignalEnd, Go, TypeOK, mainVars, Calm, Starting
  <2>2. ~Starting /\ ~Starting'
    BY <2>1 DEF CalmInv, Starting
  <2> QED BY <1>0, <1>1, <1>2, <2>1, <2>2 DEF CalmInv
<1> QED BY <1>3, <1>4, <1>5, <1>6, <1>7, <1>8

\* When mas_server_destroy is through, no listener runs any more, provided no
\* client adds or removes a listener and no stop comes while the master still
\* starts its listeners.
THEOREM DestroyCorrect == ASSUME Calm PROVE Spec => []DestroyedClean
<1>1. Init => CalmInv
  BY DEF Init, CalmInv, Starting, Actors, Waiters
<1>2. IInv /\ CalmInv /\ [Next]_vars => CalmInv'
  <2> SUFFICES ASSUME IInv, CalmInv, [Next]_vars PROVE CalmInv'
    OBVIOUS
  <2>1. ASSUME NEW a \in Waiters, WaiterStep(a) PROVE CalmInv'
    BY <2>1, CalmWalk, CalmSweep, Zenon DEF WaiterStep
  <2>2. ASSUME NEW a \in {"master", "client"}, Create(a) \/ CreateFail(a) \/ CreateCrash(a)
        PROVE  CalmInv'
    <3>1. a = "master"
      BY <2>2 DEF Create, CreateFail, CreateCrash, CalmInv
    <3> QED BY <2>2, <3>1, CalmMaster, CalmStop
  <2>3. ASSUME NEW l \in Blocks, StartNext(l) \/ ClientAdd(l) \/ ClientRemove(l) PROVE CalmInv'
    <3>1. StartNext(l)
      BY <2>3 DEF Calm, ClientAdd, ClientRemove
    <3> QED BY <3>1, CalmMaster
  <2>4. ~ClientCancel
    BY DEF ClientCancel, CalmInv
  <2>5. ASSUME NEW l \in Blocks,
               Cancelled(l) \/ Leave(l) \/ Unlink(l) \/ Free(l) \/ ThreadEnd(l)
        PROVE  CalmInv'
    BY <2>5, CalmThread, Zenon
  <2>6. Next => OtherStep \/ \E a \in Waiters : WaiterStep(a)
    BY Zenon DEF Next, MasterStep, HandlerStep, ListenerStep, OtherStep, Waiters
  <2> QED BY <2>1, <2>2, <2>3, <2>4, <2>5, <2>6, CalmStop, Zenon DEF OtherStep
<1>3. IInv /\ CalmInv => DestroyedClean
  <2>1. ASSUME CalmInv, stage = "end", NEW l \in Blocks PROVE lth[l] \notin {"run", "cleanup"}
    <3>1. list = <<>> /\ Len(<<>>) = 0
      BY <2>1 DEF CalmInv
    <3>2. ~InList(l)
      BY <3>1 DEF InList
    <3> QED BY <2>1, <3>2 DEF CalmInv
  <2> QED BY <2>1 DEF DestroyedClean
<1> QED BY <1>1, <1>2, <1>3, Invariant, PTL DEF Spec

================================================================================
