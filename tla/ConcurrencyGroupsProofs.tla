---------------------- MODULE ConcurrencyGroupsProofs ----------------------
(***************************************************************************)
(* Proofs about ConcurrencyGroups, for any set of calls, any number of     *)
(* groups and any declaration of groups: type correctness, mutual          *)
(* exclusion, first-come first-served granting, soundness of the garbage   *)
(* collection of map entries, and absence of circular waits.               *)
(***************************************************************************)
EXTENDS ConcurrencyGroups, NatMinMax, TLAPS

-----------------------------------------------------------------------------
(* The inductive invariant *)

\* Sorted acquisition: a waiting call holds exactly its groups below the one
\* it waits for, a running one holds all of them, any other holds none.
HeldShape ==
  \A c \in Call :
    /\ st[c] = "waiting" => /\ at[c] \in Groups[c]
                            /\ held[c] = {h \in Groups[c] : h < at[c]}
    /\ st[c] = "running" => held[c] = Groups[c]
    /\ ~Active(c) => held[c] = {}

\* A call has a ticket of a group only once it has reached that group.
TicketShape ==
  \A c \in Call, g \in Group :
    /\ ticket[c][g] <= issued[g]
    /\ ticket[c][g] # 0 => /\ st[c] # "new"
                           /\ g \in Groups[c]
                           /\ st[c] = "waiting" => g <= at[c]
    /\ InChain(c, g) => ticket[c][g] # 0

\* No two calls have the same ticket of a group.
TicketUnique ==
  \A c, d \in Call, g \in Group :
    ticket[c][g] # 0 /\ ticket[c][g] = ticket[d][g] => c = d

\* A call that is still in the chain of g is not overtaken by one that has
\* been granted g, whether that one holds g still or has left.
NotOvertaken ==
  \A c, d \in Call, g \in Group :
    InChain(c, g) /\ (Released(d) \/ g \in held[d]) => ticket[d][g] <= ticket[c][g]

\* p is the promise that precedes call d in the chain of g: everybody in the
\* chain came before p or after d, and p is in the chain or released.
Precedes(p, d, g) ==
  /\ p = NoCall => \A e \in Call : InChain(e, g) => ticket[d][g] <= ticket[e][g]
  /\ p # NoCall =>
       /\ InChain(p, g) \/ Released(p)
       /\ ticket[p][g] # 0
       /\ ticket[p][g] < ticket[d][g]
       /\ \A e \in Call : InChain(e, g) =>
            ticket[e][g] <= ticket[p][g] \/ ticket[d][g] <= ticket[e][g]

\* The promise a call awaits is the one that precedes it in the chain.
PrevIsPredecessor ==
  \A c \in Call : st[c] = "waiting" => Precedes(prev[c], c, at[c])

IndInv ==
  /\ TypeOK
  /\ HeldShape
  /\ TicketShape
  /\ TicketUnique
  /\ NotOvertaken
  /\ PrevIsPredecessor
  /\ TailIsLatest

-----------------------------------------------------------------------------
(* Lemmas *)

\* The least member of a nonempty set of groups.
LEMMA LeastIsMember ==
  ASSUME NEW S \in SUBSET Group, S # {}
  PROVE  Least(S) \in S /\ \A h \in S : Least(S) <= h
<1>1. S \in SUBSET Nat
  BY DEF Group
<1>2. \E m \in S : \A k \in S : m <= k
  BY <1>1, NatMin
<1> QED BY <1>2 DEF Least

\* The inductive invariant holds initially.
LEMMA InitIndInv == Init => IndInv
<1> SUFFICES ASSUME Init PROVE IndInv
  OBVIOUS
<1> USE GroupsAssumption DEF Init
<1>1. TypeOK
  BY DEF TypeOK, Group
<1>2. HeldShape
  BY DEF HeldShape, Active
<1>3. TicketShape
  BY DEF TicketShape, InChain, Active
<1>4. TicketUnique
  BY DEF TicketUnique
<1>5. NotOvertaken
  BY DEF NotOvertaken, InChain, Active
<1>6. PrevIsPredecessor
  BY DEF PrevIsPredecessor
<1>7. TailIsLatest
  BY DEF TailIsLatest, IsLatest, InChain, Active
<1> QED BY <1>1, <1>2, <1>3, <1>4, <1>5, <1>6, <1>7 DEF IndInv

\* A step that adds nobody to the chain of g, removes nobody unreleased from
\* it and gives no ticket leaves predecessors as they are.
LEMMA PrecedesStable ==
  ASSUME NEW d \in Call, NEW g \in Group, NEW p \in Call \union {NoCall},
         Precedes(p, d, g), ticket' = ticket,
         \A e \in Call : InChain(e, g)' => InChain(e, g),
         p # NoCall => (InChain(p, g) \/ Released(p) => InChain(p, g)' \/ Released(p)')
  PROVE  Precedes(p, d, g)'
BY DEF Precedes

\* A call without groups keeps it.
LEMMA EnterFreeIndInv ==
  ASSUME NEW c \in Call, IndInv, EnterFree(c)
  PROVE  IndInv'
<1> USE GroupsAssumption DEF IndInv, TypeOK, EnterFree
<1>1. TypeOK'
  OBVIOUS
<1>2. \A d \in Call, g \in Group : InChain(d, g)' <=> InChain(d, g)
  BY DEF InChain, Active, HeldShape
<1>3. HeldShape'
  BY DEF HeldShape, Active
<1>4. TicketShape'
  BY <1>2 DEF TicketShape
<1>5. TicketUnique'
  BY DEF TicketUnique
<1>6. NotOvertaken'
  BY <1>2 DEF NotOvertaken, Released
<1>7. PrevIsPredecessor'
  <2>1. \A d \in Call : /\ Released(d)' <=> Released(d)
                        /\ st'[d] = "waiting" => st[d] = "waiting" /\ at[d] \in Group
    BY DEF Released, HeldShape
  <2>2. /\ at' = at /\ prev' = prev /\ ticket' = ticket
        /\ PrevIsPredecessor
        /\ prev \in [Call -> Call \union {NoCall}]
    OBVIOUS
  <2>3. ASSUME NEW d \in Call, st'[d] = "waiting"
        PROVE  Precedes(prev[d], d, at[d])'
    <3>1. Precedes(prev[d], d, at[d])
      BY <2>1, <2>2, <2>3 DEF PrevIsPredecessor
    <3> HIDE DEF IndInv, TypeOK, EnterFree
    <3> QED BY <1>2, <2>1, <2>2, <2>3, <3>1, PrecedesStable
  <2> QED BY <2>3 DEF PrevIsPredecessor
<1>8. TailIsLatest'
  BY <1>2 DEF TailIsLatest, IsLatest
<1> QED BY <1>1, <1>3, <1>4, <1>5, <1>6, <1>7, <1>8

\* Joining the chain of h keeps tickets unique, links the new call to its
\* predecessor, and makes it the tail; this is common to entering the first
\* group and to going on to a further one.
LEMMA JoinKeepsChains ==
  ASSUME NEW c \in Call, NEW h \in Group, IndInv, JoinChain(c, h),
         st[c] \in {"new", "waiting"}, ticket[c][h] = 0,
         \A d \in Call, g \in Group :
            InChain(d, g)' <=> InChain(d, g) \/ (d = c /\ g = h)
  PROVE  /\ TicketUnique'
         /\ PrevIsPredecessor'
         /\ TailIsLatest'
<1> USE GroupsAssumption DEF IndInv, TypeOK
<1>1. /\ issued'[h] = issued[h] + 1
      /\ \A g \in Group : g # h => issued'[g] = issued[g] /\ tail'[g] = tail[g]
      /\ tail'[h] = c
  BY DEF JoinChain
<1>2. /\ ticket'[c][h] = issued[h] + 1
      /\ \A d \in Call, g \in Group :
            d # c \/ g # h => ticket'[d][g] = ticket[d][g]
  BY DEF JoinChain
<1>3. /\ at'[c] = h /\ prev'[c] = tail[h]
      /\ \A d \in Call : d # c => at'[d] = at[d] /\ prev'[d] = prev[d] /\ st'[d] = st[d]
  BY DEF JoinChain
<1>4. \A d \in Call, g \in Group :
        /\ ticket[d][g] \in Nat /\ issued[g] \in Nat
        /\ ticket[d][g] <= issued[g]
        /\ InChain(d, g) => ticket[d][g] # 0
  BY DEF TicketShape
<1>5. TicketUnique'
  BY <1>2, <1>4 DEF TicketUnique
<1>6. TailIsLatest'
  <2>1. IsLatest(c, h)'
    <3>1. InChain(c, h)' /\ c # NoCall
      OBVIOUS
    <3>2. \A d \in Call : InChain(d, h)' => ticket'[d][h] <= ticket'[c][h]
      BY <1>2, <1>4
    <3> QED BY <3>1, <3>2 DEF IsLatest
  <2>2. ASSUME NEW g \in Group, g # h, NEW t \in Call \union {NoCall}, IsLatest(t, g)
        PROVE  IsLatest(t, g)'
    <3>1. \A d \in Call : /\ ticket'[d][g] = ticket[d][g]
                          /\ InChain(d, g)' <=> InChain(d, g)
      BY <2>2, <1>2
    <3> HIDE DEF IndInv, TypeOK
    <3> QED BY <2>2, <3>1 DEF IsLatest
  <2>3. ASSUME NEW g \in Group PROVE IsLatest(tail[g], g)'
    <3>1. CASE g = h
      BY <3>1, <1>1, <2>1
    <3>2. CASE g # h
      <4>1. tail'[g] = tail[g] /\ IsLatest(tail[g], g)
        BY <3>2, <1>1 DEF TailIsLatest
      <4> QED BY <4>1, <3>2, <2>2
    <3> QED BY <3>1, <3>2
  <2> QED BY <2>3 DEF TailIsLatest
<1>7. \A d \in Call : Released(d)' <=> Released(d)
  BY DEF Released, JoinChain
<1>8. PrevIsPredecessor'
  <2>1. ASSUME NEW p \in Call \union {NoCall}, p = tail[h]
        PROVE  Precedes(p, c, h)'
    <3>1. p = NoCall => \A e \in Call : ~InChain(e, h)
      BY <2>1 DEF TailIsLatest, IsLatest
    <3>2. p # NoCall => /\ InChain(p, h) /\ p # c
                        /\ \A e \in Call : InChain(e, h) => ticket[e][h] <= ticket[p][h]
      BY <2>1, <1>4 DEF TailIsLatest, IsLatest
    <3>3. \A e \in Call : InChain(e, h)' <=> InChain(e, h) \/ e = c
      OBVIOUS
    <3> HIDE DEF IndInv, TypeOK
    <3> QED BY <3>1, <3>2, <3>3, <1>2, <1>4 DEF Precedes
  <2>2. ASSUME NEW d \in Call, d # c, NEW g \in Group,
               NEW p \in Call \union {NoCall}, Precedes(p, d, g)
        PROVE  Precedes(p, d, g)'
    <3>1. /\ ticket'[d][g] = ticket[d][g]
          /\ p # NoCall => ticket'[p][g] = ticket[p][g]
      BY <2>2, <1>2 DEF Precedes
    <3>2. \A e \in Call : InChain(e, g)' => \/ ticket'[e][g] = ticket[e][g] /\ InChain(e, g)
                                           \/ ticket[d][g] <= ticket'[e][g]
      BY <1>2, <1>4
    <3>3. p # NoCall => (InChain(p, g) => InChain(p, g)')
      BY <2>2
    <3> HIDE DEF IndInv, TypeOK
    <3> QED BY <2>2, <3>1, <3>2, <3>3, <1>7 DEF Precedes
  <2>3. ASSUME NEW d \in Call, st'[d] = "waiting"
        PROVE  Precedes(prev[d], d, at[d])'
    <3>1. CASE d = c
      BY <3>1, <2>1, <1>3
    <3>2. CASE d # c
      <4>1. Precedes(prev[d], d, at[d]) /\ at[d] \in Group
        BY <3>2, <2>3, <1>3 DEF PrevIsPredecessor, HeldShape
      <4>2. at'[d] = at[d] /\ prev'[d] = prev[d]
        BY <3>2, <1>3
      <4> QED BY <4>1, <4>2, <2>2, <3>2
    <3> QED BY <3>1, <3>2
  <2> QED BY <2>3 DEF PrevIsPredecessor
<1> QED BY <1>5, <1>6, <1>8

\* Joining the first chain keeps it.
LEMMA EnterGroupsIndInv ==
  ASSUME NEW c \in Call, IndInv, EnterGroups(c)
  PROVE  IndInv'
<1> DEFINE h == Least(Groups[c])
<1> USE GroupsAssumption DEF IndInv, TypeOK
<1>1. h \in Groups[c] /\ h \in Group /\ \A k \in Groups[c] : h <= k
  BY LeastIsMember DEF EnterGroups
<1>2. st[c] = "new" /\ JoinChain(c, h) /\ held' = held
  BY DEF EnterGroups
<1> HIDE DEF h
<1>3. /\ st' = [st EXCEPT ![c] = "waiting"]
      /\ at' = [at EXCEPT ![c] = h]
      /\ issued' = [issued EXCEPT ![h] = @ + 1]
      /\ ticket' = [ticket EXCEPT ![c][h] = issued[h] + 1]
  BY <1>2 DEF JoinChain
<1>4. held[c] = {} /\ \A g \in Group : ticket[c][g] = 0
  BY <1>2 DEF HeldShape, TicketShape, Active
<1>5. TypeOK'
  BY <1>1, <1>2 DEF Group, JoinChain
<1>6. \A d \in Call, g \in Group :
        InChain(d, g)' <=> InChain(d, g) \/ (d = c /\ g = h)
  BY <1>1, <1>2, <1>3, <1>4 DEF InChain, Active
<1>7. HeldShape'
  BY <1>1, <1>2, <1>3, <1>4 DEF HeldShape, Active, Group
<1>8. TicketShape'
  <2>1. ASSUME NEW d \in Call, NEW g \in Group
        PROVE  /\ ticket'[d][g] <= issued'[g]
               /\ ticket'[d][g] # 0 => /\ st'[d] # "new"
                                       /\ g \in Groups[d]
                                       /\ st'[d] = "waiting" => g <= at'[d]
               /\ InChain(d, g)' => ticket'[d][g] # 0
    <3>1. CASE d = c /\ g = h
      BY <3>1, <1>1, <1>3 DEF Group
    <3>2. CASE ~(d = c /\ g = h)
      <4>1. /\ ticket'[d][g] = ticket[d][g] /\ ticket[d][g] <= issued[g]
            /\ issued[g] <= issued'[g]
            /\ ticket[d][g] \in Nat /\ issued[g] \in Nat /\ issued'[g] \in Nat
        BY <3>2, <1>3 DEF TicketShape
      <4>2. d # c => st'[d] = st[d] /\ at'[d] = at[d]
        BY <1>3
      <4> QED BY <3>2, <4>1, <4>2, <1>4, <1>6 DEF TicketShape
    <3> QED BY <3>1, <3>2
  <2> QED BY <2>1 DEF TicketShape
<1>9. NotOvertaken'
  <2>1. ASSUME NEW e \in Call, NEW d \in Call, NEW g \in Group,
               InChain(e, g)', Released(d)' \/ g \in held'[d]
        PROVE  ticket'[d][g] <= ticket'[e][g]
    <3>1. d # c /\ (Released(d) \/ g \in held[d])
      BY <2>1, <1>2, <1>3, <1>4 DEF Released
    <3>2. ticket'[d][g] = ticket[d][g] /\ ticket[d][g] \in Nat /\ ticket[d][g] <= issued[g]
      BY <3>1, <1>3 DEF TicketShape
    <3>3. CASE e = c /\ g = h
      BY <3>2, <3>3, <1>3
    <3>4. CASE ~(e = c /\ g = h)
      BY <2>1, <3>1, <3>2, <3>4, <1>3, <1>6 DEF NotOvertaken
    <3> QED BY <3>3, <3>4
  <2> QED BY <2>1 DEF NotOvertaken
<1>10. TicketUnique' /\ PrevIsPredecessor' /\ TailIsLatest'
  BY <1>1, <1>2, <1>4, <1>6, JoinKeepsChains
<1> QED BY <1>5, <1>7, <1>8, <1>9, <1>10

\* What being granted the awaited group means for the order of the chain:
\* everybody who is still in it came later.
LEMMA GrantedIsFirst ==
  ASSUME NEW c \in Call, IndInv, st[c] = "waiting", Granted(c),
         NEW e \in Call, InChain(e, at[c])
  PROVE  ticket[c][at[c]] <= ticket[e][at[c]]
<1> USE GroupsAssumption DEF IndInv, TypeOK
<1>1. Precedes(prev[c], c, at[c]) /\ at[c] \in Group
  BY DEF PrevIsPredecessor, HeldShape
<1>2. CASE prev[c] = NoCall
  BY <1>1, <1>2 DEF Precedes
<1>3. CASE prev[c] # NoCall
  <2>1. prev[c] \in Call /\ Released(prev[c])
    BY <1>3 DEF Granted
  <2>2. ticket[prev[c]][at[c]] <= ticket[e][at[c]]
    BY <2>1, <1>1 DEF NotOvertaken
  <2>3. prev[c] # e
    BY <2>1 DEF InChain, Active, Released
  <2>4. ticket[prev[c]][at[c]] # ticket[e][at[c]]
    BY <2>1, <2>3, <1>1, <1>3 DEF TicketUnique, Precedes
  <2>5. /\ ticket[prev[c]][at[c]] \in Nat /\ ticket[e][at[c]] \in Nat
        /\ ticket[c][at[c]] \in Nat
    BY <2>1, <1>1
  <2>6. ticket[e][at[c]] <= ticket[prev[c]][at[c]] \/ ticket[c][at[c]] <= ticket[e][at[c]]
    BY <1>1, <1>3 DEF Precedes
  <2> HIDE DEF IndInv, TypeOK
  <2> QED BY <2>2, <2>4, <2>5, <2>6
<1> QED BY <1>2, <1>3

\* Being granted the last group keeps it.
LEMMA AcquireLastIndInv ==
  ASSUME NEW c \in Call, IndInv, AcquireLast(c)
  PROVE  IndInv'
<1> USE GroupsAssumption DEF IndInv, TypeOK
<1>1. /\ st[c] = "waiting" /\ Granted(c)
      /\ st' = [st EXCEPT ![c] = "running"]
      /\ held' = [held EXCEPT ![c] = held[c] \union {at[c]}]
      /\ at' = at /\ prev' = prev /\ tail' = tail /\ ticket' = ticket /\ issued' = issued
  BY DEF AcquireLast
<1>2. at[c] \in Groups[c] /\ at[c] \in Group /\ held[c] \union {at[c]} = Groups[c]
  <2>1. at[c] \in Groups[c] /\ held[c] = {g \in Groups[c] : g < at[c]} /\ Groups[c] \subseteq Group
    BY <1>1 DEF HeldShape
  <2>2. Groups[c] \ (held[c] \union {at[c]}) = {}
    BY DEF AcquireLast, Rest
  <2> HIDE DEF IndInv, TypeOK
  <2> QED BY <2>1, <2>2
<1>3. TypeOK'
  BY <1>1, <1>2
<1>4. \A d \in Call, g \in Group : InChain(d, g)' <=> InChain(d, g)
  BY <1>1, <1>2 DEF InChain, Active
<1>5. \A d \in Call : Released(d)' <=> Released(d)
  BY <1>1 DEF Released
<1>6. HeldShape'
  BY <1>1, <1>2 DEF HeldShape, Active
<1>7. TicketShape'
  <2>1. \A d \in Call : (st'[d] = "new" => st[d] = "new") /\ (st'[d] = "waiting" => st[d] = "waiting")
    BY <1>1
  <2> QED BY <1>1, <1>4, <2>1 DEF TicketShape
<1>8. TicketUnique'
  BY <1>1 DEF TicketUnique
<1>9. NotOvertaken'
  <2>1. ASSUME NEW e \in Call, NEW d \in Call, NEW g \in Group,
               InChain(e, g), Released(d) \/ g \in held'[d]
        PROVE  ticket[d][g] <= ticket[e][g]
    <3>1. CASE Released(d) \/ g \in held[d]
      BY <2>1, <3>1 DEF NotOvertaken
    <3>2. CASE d = c /\ g = at[c]
      BY <2>1, <3>2, <1>1, GrantedIsFirst
    <3> QED BY <2>1, <3>1, <3>2, <1>1
  <2> QED BY <2>1, <1>1, <1>4, <1>5 DEF NotOvertaken
<1>10. PrevIsPredecessor'
  <2>1. ASSUME NEW d \in Call, st'[d] = "waiting"
        PROVE  Precedes(prev[d], d, at[d])'
    <3>1. st[d] = "waiting" /\ at[d] \in Group /\ Precedes(prev[d], d, at[d])
      BY <2>1, <1>1 DEF PrevIsPredecessor, HeldShape
    <3>2. prev'[d] = prev[d] /\ at'[d] = at[d] /\ prev[d] \in Call \union {NoCall}
      BY <1>1
    <3>3. ASSUME NEW p \in Call \union {NoCall}, NEW g \in Group, Precedes(p, d, g)
          PROVE  Precedes(p, d, g)'
      <4>1. p # NoCall =>
              (InChain(p, g) \/ Released(p) => InChain(p, g)' \/ Released(p)')
        BY <1>4, <1>5
      <4> QED BY <3>3, <4>1, <1>1, <1>4, PrecedesStable
    <3> QED BY <3>1, <3>2, <3>3
  <2> QED BY <2>1 DEF PrevIsPredecessor
<1>11. TailIsLatest'
  BY <1>1, <1>4 DEF TailIsLatest, IsLatest
<1> QED BY <1>3, <1>6, <1>7, <1>8, <1>9, <1>10, <1>11

\* Being granted a group and joining the next chain keeps it.
LEMMA AcquireMoreIndInv ==
  ASSUME NEW c \in Call, IndInv, AcquireMore(c)
  PROVE  IndInv'
<1> DEFINE h == Least(Rest(c, at[c]))
<1> USE GroupsAssumption DEF IndInv, TypeOK
<1>1. /\ st[c] = "waiting" /\ Granted(c) /\ JoinChain(c, h)
      /\ held' = [held EXCEPT ![c] = held[c] \union {at[c]}]
      /\ Rest(c, at[c]) # {}
  BY DEF AcquireMore
<1>2. /\ at[c] \in Groups[c] /\ at[c] \in Group
      /\ held[c] = {g \in Groups[c] : g < at[c]}
  BY <1>1 DEF HeldShape
<1>3. /\ h \in Groups[c] /\ h \in Group /\ at[c] < h
      /\ held[c] \union {at[c]} = {g \in Groups[c] : g < h}
  <2>1. Rest(c, at[c]) = {g \in Groups[c] : at[c] < g} /\ Groups[c] \subseteq Group
    BY <1>2 DEF Rest, Group
  <2>2. h \in Rest(c, at[c]) /\ \A k \in Rest(c, at[c]) : h <= k
    BY <1>1, <2>1, LeastIsMember
  <2> HIDE DEF h
  <2>3. h \in Groups[c] /\ h \in Group /\ at[c] < h
    BY <2>1, <2>2
  <2>4. \A g \in Groups[c] : at[c] < g => h <= g
    BY <2>1, <2>2
  <2>5. \A g \in Groups[c] : (g < at[c] \/ g = at[c]) <=> g < h
    BY <2>1, <2>3, <2>4, <1>2 DEF Group
  <2> HIDE DEF IndInv, TypeOK
  <2> QED BY <2>3, <2>5, <1>2
<1> HIDE DEF h
<1>4. /\ st' = [st EXCEPT ![c] = "waiting"]
      /\ at' = [at EXCEPT ![c] = h]
      /\ issued' = [issued EXCEPT ![h] = @ + 1]
      /\ ticket' = [ticket EXCEPT ![c][h] = issued[h] + 1]
  BY <1>1 DEF JoinChain
<1>5. \A g \in Group : ticket[c][g] # 0 => g <= at[c]
  BY <1>1 DEF TicketShape
<1>6. ticket[c][h] = 0
  BY <1>3, <1>5, <1>2 DEF Group
<1>7. TypeOK'
  <2>1. held' \in [Call -> SUBSET Group]
    BY <1>1, <1>2
  <2>2. st' \in [Call -> {"new", "waiting", "running", "done", "lost"}]
    BY <1>4
  <2>3. at' \in [Call -> 0 .. NumGroups]
    BY <1>3, <1>4 DEF Group
  <2>4. prev' \in [Call -> Call \union {NoCall}] /\ tail' \in [Group -> Call \union {NoCall}]
    BY <1>1, <1>3 DEF JoinChain
  <2>5. ticket' \in [Call -> [Group -> Nat]] /\ issued' \in [Group -> Nat]
    BY <1>3, <1>4
  <2> QED BY <2>1, <2>2, <2>3, <2>4, <2>5
<1>8. \A d \in Call, g \in Group :
        InChain(d, g)' <=> InChain(d, g) \/ (d = c /\ g = h)
  BY <1>1, <1>2, <1>3, <1>4 DEF InChain, Active
<1>9. HeldShape'
  BY <1>1, <1>3, <1>4 DEF HeldShape, Active
<1>10. TicketShape'
  <2>1. ASSUME NEW d \in Call, NEW g \in Group
        PROVE  /\ ticket'[d][g] <= issued'[g]
               /\ ticket'[d][g] # 0 => /\ st'[d] # "new"
                                       /\ g \in Groups[d]
                                       /\ st'[d] = "waiting" => g <= at'[d]
               /\ InChain(d, g)' => ticket'[d][g] # 0
    <3>1. CASE d = c /\ g = h
      BY <3>1, <1>3, <1>4 DEF Group
    <3>2. CASE ~(d = c /\ g = h)
      <4>1. /\ ticket'[d][g] = ticket[d][g] /\ ticket[d][g] <= issued[g]
            /\ issued[g] <= issued'[g]
            /\ ticket[d][g] \in Nat /\ issued[g] \in Nat /\ issued'[g] \in Nat
        BY <3>2, <1>4 DEF TicketShape
      <4>2. /\ d # c => st'[d] = st[d] /\ at'[d] = at[d]
            /\ d = c => st'[d] = "waiting" /\ at'[d] = h
        BY <1>4
      <4>3. d = c /\ ticket[d][g] # 0 => g <= h
        BY <1>2, <1>3, <1>5 DEF Group
      <4> QED BY <3>2, <4>1, <4>2, <4>3, <1>8 DEF TicketShape
    <3> QED BY <3>1, <3>2
  <2> QED BY <2>1 DEF TicketShape
<1>11. NotOvertaken'
  <2>1. ASSUME NEW e \in Call, NEW d \in Call, NEW g \in Group,
               InChain(e, g)', Released(d)' \/ g \in held'[d]
        PROVE  ticket'[d][g] <= ticket'[e][g]
    <3>1. /\ Released(d) \/ g \in held[d] \/ (d = c /\ g = at[c])
          /\ ~(d = c /\ g = h)
      <4>1. Released(d)' => Released(d) /\ d # c
        BY <1>1, <1>4 DEF Released
      <4>2. d # c => held'[d] = held[d]
        BY <1>1
      <4>3. held'[c] = held[c] \union {at[c]} /\ h \notin held'[c]
        <5>1. ~(h < h)
          BY <1>3 DEF Group
        <5> QED BY <1>1, <1>3, <5>1
      <4> HIDE DEF IndInv, TypeOK
      <4> QED BY <2>1, <4>1, <4>2, <4>3
    <3>2. ticket'[d][g] = ticket[d][g] /\ ticket[d][g] \in Nat /\ ticket[d][g] <= issued[g]
      BY <3>1, <1>4 DEF TicketShape
    <3>3. CASE e = c /\ g = h
      BY <3>2, <3>3, <1>4
    <3>4. CASE ~(e = c /\ g = h)
      <4>1. InChain(e, g) /\ ticket'[e][g] = ticket[e][g]
        BY <3>4, <2>1, <1>4, <1>8
      <4>2. ticket[d][g] <= ticket[e][g]
        BY <4>1, <3>1, <1>1, GrantedIsFirst DEF NotOvertaken
      <4> QED BY <4>1, <4>2, <3>2
    <3> QED BY <3>3, <3>4
  <2> QED BY <2>1 DEF NotOvertaken
<1>12. TicketUnique' /\ PrevIsPredecessor' /\ TailIsLatest'
  BY <1>1, <1>3, <1>6, <1>8, JoinKeepsChains
<1> QED BY <1>7, <1>9, <1>10, <1>11, <1>12

\* The release of all groups keeps it.
LEMMA FinishIndInv ==
  ASSUME NEW c \in Call, IndInv, Finish(c)
  PROVE  IndInv'
<1> USE GroupsAssumption DEF IndInv, TypeOK
<1>1. /\ st[c] = "running"
      /\ st' = [st EXCEPT ![c] = "done"]
      /\ held' = [held EXCEPT ![c] = {}]
      /\ tail' = [g \in Group |-> IF g \in held[c] /\ tail[g] = c THEN NoCall ELSE tail[g]]
      /\ at' = at /\ prev' = prev /\ ticket' = ticket /\ issued' = issued
  BY DEF Finish
<1>2. held[c] = Groups[c]
  BY <1>1 DEF HeldShape
<1>3. TypeOK'
  BY <1>1
<1>4. \A d \in Call, g \in Group : InChain(d, g)' <=> InChain(d, g) /\ d # c
  BY <1>1 DEF InChain, Active
<1>5. \A d \in Call : Released(d)' <=> Released(d) \/ d = c
  BY <1>1 DEF Released
<1>6. HeldShape'
  BY <1>1 DEF HeldShape, Active
<1>7. TicketShape'
  <2>1. \A d \in Call : (st'[d] = "new" => st[d] = "new") /\ (st'[d] = "waiting" => st[d] = "waiting")
    BY <1>1
  <2> QED BY <1>1, <1>4, <2>1 DEF TicketShape
<1>8. TicketUnique'
  BY <1>1 DEF TicketUnique
<1>9. NotOvertaken'
  <2>1. ASSUME NEW e \in Call, NEW d \in Call, NEW g \in Group,
               InChain(e, g), Released(d)' \/ g \in held'[d]
        PROVE  ticket[d][g] <= ticket[e][g]
    <3>1. CASE Released(d) \/ g \in held[d]
      BY <2>1, <3>1 DEF NotOvertaken
    <3>2. CASE d = c
      <4>1. g \notin Groups[c] => ticket[c][g] = 0
        BY DEF TicketShape
      <4>2. ticket[e][g] \in Nat
        OBVIOUS
      <4> QED BY <2>1, <3>2, <4>1, <4>2, <1>2 DEF NotOvertaken
    <3> QED BY <2>1, <3>1, <3>2, <1>1, <1>5
  <2> QED BY <2>1, <1>1, <1>4 DEF NotOvertaken
<1>10. PrevIsPredecessor'
  <2>1. ASSUME NEW d \in Call, st'[d] = "waiting"
        PROVE  Precedes(prev[d], d, at[d])'
    <3>1. st[d] = "waiting" /\ at[d] \in Group /\ Precedes(prev[d], d, at[d])
      BY <2>1, <1>1 DEF PrevIsPredecessor, HeldShape
    <3>2. prev'[d] = prev[d] /\ at'[d] = at[d] /\ prev[d] \in Call \union {NoCall}
      BY <1>1
    <3>3. ASSUME NEW p \in Call \union {NoCall}, NEW g \in Group, Precedes(p, d, g)
          PROVE  Precedes(p, d, g)'
      <4>1. p # NoCall =>
              (InChain(p, g) \/ Released(p) => InChain(p, g)' \/ Released(p)')
        BY <1>4, <1>5
      <4> QED BY <3>3, <4>1, <1>1, <1>4, PrecedesStable
    <3> QED BY <3>1, <3>2, <3>3
  <2> QED BY <2>1 DEF PrevIsPredecessor
<1>11. TailIsLatest'
  <2>1. ASSUME NEW g \in Group PROVE IsLatest(tail[g], g)'
    <3>1. IsLatest(tail[g], g)
      BY DEF TailIsLatest
    <3>2. CASE g \in held[c] /\ tail[g] = c
      <4>1. tail'[g] = NoCall
        BY <3>2, <1>1
      <4>2. \A d \in Call : InChain(d, g) => d = c
        <5> SUFFICES ASSUME NEW d \in Call, InChain(d, g) PROVE d = c
          OBVIOUS
        <5>1. ticket[d][g] <= ticket[c][g]
          BY <3>1, <3>2 DEF IsLatest
        <5>2. ticket[c][g] <= ticket[d][g]
          BY <3>2 DEF NotOvertaken
        <5>3. ticket[d][g] # 0 /\ ticket[d][g] \in Nat /\ ticket[c][g] \in Nat
          BY DEF TicketShape
        <5>4. TicketUnique
          OBVIOUS
        <5> HIDE DEF IndInv, TypeOK
        <5>5. ticket[d][g] = ticket[c][g]
          BY <5>1, <5>2, <5>3
        <5> QED BY <5>3, <5>4, <5>5 DEF TicketUnique
      <4> HIDE DEF IndInv, TypeOK
      <4> QED BY <4>1, <4>2, <1>4 DEF IsLatest
    <3>3. CASE ~(g \in held[c] /\ tail[g] = c)
      <4>1. tail'[g] = tail[g] /\ tail[g] \in Call \union {NoCall}
        BY <3>3, <1>1
      <4>2. tail[g] # c
        BY <3>1, <3>3, <1>1 DEF IsLatest, InChain
      <4> HIDE DEF IndInv, TypeOK
      <4> QED BY <3>1, <4>1, <4>2, <1>1, <1>4 DEF IsLatest
    <3> QED BY <3>2, <3>3
  <2> QED BY <2>1 DEF TailIsLatest
<1> QED BY <1>3, <1>6, <1>7, <1>8, <1>9, <1>10, <1>11

\* A crash keeps it: all chains become empty at once.
LEMMA CrashIndInv ==
  ASSUME IndInv, Crash
  PROVE  IndInv'
<1> USE GroupsAssumption DEF IndInv, TypeOK
<1>1. /\ st' = [c \in Call |-> IF Active(c) THEN "lost" ELSE st[c]]
      /\ held' = [c \in Call |-> {}]
      /\ tail' = [g \in Group |-> NoCall]
      /\ at' = at /\ prev' = prev /\ ticket' = ticket /\ issued' = issued
  BY DEF Crash
<1>2. TypeOK'
  BY <1>1
<1>3. \A c \in Call : ~Active(c)' /\ (st'[c] = "new" => st[c] = "new")
  BY <1>1 DEF Active
<1>4. \A c \in Call, g \in Group : ~InChain(c, g)'
  BY <1>3 DEF InChain
<1>5. HeldShape'
  BY <1>1, <1>3 DEF HeldShape, Active
<1>6. TicketShape'
  BY <1>1, <1>3, <1>4 DEF TicketShape, Active
<1>7. TicketUnique'
  BY <1>1 DEF TicketUnique
<1>8. NotOvertaken'
  BY <1>4 DEF NotOvertaken
<1>9. PrevIsPredecessor'
  BY <1>3 DEF PrevIsPredecessor, Active
<1>10. TailIsLatest'
  BY <1>1, <1>4 DEF TailIsLatest, IsLatest
<1> QED BY <1>2, <1>5, <1>6, <1>7, <1>8, <1>9, <1>10

\* Every step keeps the inductive invariant.
LEMMA NextIndInv == IndInv /\ [Next]_vars => IndInv'
<1> SUFFICES ASSUME IndInv, [Next]_vars PROVE IndInv'
  OBVIOUS
<1>1. CASE Crash
  BY <1>1, CrashIndInv
<1>2. ASSUME NEW c \in Call, Step(c) PROVE IndInv'
  BY <1>2, EnterFreeIndInv, EnterGroupsIndInv, AcquireMoreIndInv, AcquireLastIndInv,
     FinishIndInv DEF Step
<1>3. CASE UNCHANGED vars
  BY <1>3 DEF vars, IndInv, TypeOK, HeldShape, TicketShape, TicketUnique, NotOvertaken,
     PrevIsPredecessor, Precedes, TailIsLatest, IsLatest, InChain, Active, Released
<1> QED BY <1>1, <1>2, <1>3 DEF Next

-----------------------------------------------------------------------------
(* Theorems *)

\* The inductive invariant behind the theorems below: chains are sound,
\* and every call holds a sorted prefix of its groups (withGroups).
THEOREM IndInvIsInvariant == Spec => []IndInv
BY InitIndInv, NextIndInv, PTL DEF Spec

\* Type correctness of the lock chains, for all constants.
THEOREM TypeCorrect == Spec => []TypeOK
BY IndInvIsInvariant, PTL DEF IndInv

\* The arrival order of every group is respected (withGroups' promise chain):
\* a call that is granted a group has no earlier arrival left in the chain.
THEOREM FirstComeFirstServed == Spec => []FifoGrant
<1>1. IndInv => FifoGrant
  <2> SUFFICES ASSUME IndInv, NEW c \in Call, NEW d \in Call, NEW g \in Group,
                      InChain(c, g), ticket[c][g] < ticket[d][g], g \in held[d]
               PROVE  FALSE
    BY DEF FifoGrant
  <2>1. ticket[d][g] <= ticket[c][g]
    BY DEF IndInv, NotOvertaken
  <2>2. ticket[c][g] \in Nat /\ ticket[d][g] \in Nat
    BY DEF IndInv, TypeOK
  <2> QED BY <2>1, <2>2
<1> QED BY <1>1, IndInvIsInvariant, PTL

\* Skills that share a concurrency group never run at the same time.
THEOREM Exclusion == Spec => []MutualExclusion
<1>1. IndInv => MutualExclusion
  <2> SUFFICES ASSUME IndInv, NEW c \in Call, NEW d \in Call,
                      st[c] = "running", st[d] = "running",
                      NEW g \in Groups[c] \cap Groups[d]
               PROVE  c = d
    BY DEF MutualExclusion
  <2>1. g \in Group
    BY GroupsAssumption
  <2>2. g \in held[c] /\ g \in held[d] /\ InChain(c, g) /\ InChain(d, g)
    BY DEF IndInv, HeldShape, InChain, Active
  <2>3. ticket[c][g] <= ticket[d][g] /\ ticket[d][g] <= ticket[c][g]
    BY <2>1, <2>2 DEF IndInv, NotOvertaken
  <2>4. ticket[c][g] \in Nat /\ ticket[d][g] \in Nat
    BY <2>1 DEF IndInv, TypeOK
  <2>5. ticket[c][g] = ticket[d][g] /\ ticket[c][g] # 0
    BY <2>1, <2>2, <2>3, <2>4 DEF IndInv, TicketShape
  <2> QED BY <2>1, <2>5 DEF IndInv, TicketUnique
<1> QED BY <1>1, IndInvIsInvariant, PTL

\* The map of tails is garbage collected without losing a chain.
THEOREM TailsAreSound == Spec => []TailIsLatest
BY IndInvIsInvariant, PTL DEF IndInv

\* Taking groups in sorted order excludes circular waits: among the calls
\* that wait, take one for the greatest group and, there, the one with the
\* least ticket.  Its predecessor is released or runs.
THEOREM NoDeadlock == Spec => []NoCircularWait
<1>1. IndInv => NoCircularWait
  <2> SUFFICES ASSUME IndInv, NEW w \in Call, st[w] = "waiting"
               PROVE  \E c \in Call : st[c] = "running" \/ (st[c] = "waiting" /\ Granted(c))
    BY DEF NoCircularWait
  <2> DEFINE W == {c \in Call : st[c] = "waiting"}
  <2>1. \A c \in W : at[c] \in 1 .. NumGroups
    BY GroupsAssumption DEF IndInv, HeldShape, Group
  <2>2. PICK g \in {at[c] : c \in W} : \A k \in {at[c] : c \in W} : k <= g
    <3>1. {at[c] : c \in W} \in SUBSET (1 .. NumGroups) /\ {at[c] : c \in W} # {}
      BY <2>1
    <3> HIDE DEF W
    <3> QED BY <3>1, IntervalMax, GroupsAssumption
  <2> DEFINE V == {c \in W : at[c] = g}
  <2>3. V # {} /\ g \in Group
    BY <2>1, <2>2 DEF Group
  <2>4. PICK t \in {ticket[c][g] : c \in V} : \A k \in {ticket[c][g] : c \in V} : t <= k
    <3>1. \A c \in V : ticket[c][g] \in Nat
      BY <2>3 DEF IndInv, TypeOK
    <3>2. {ticket[c][g] : c \in V} \in SUBSET Nat /\ {ticket[c][g] : c \in V} # {}
      BY <2>3, <3>1
    <3> HIDE DEF V
    <3> QED BY <3>2, NatMin
  <2>5. PICK c \in V : \A d \in V : ticket[c][g] <= ticket[d][g]
    BY <2>4
  <2>6. CASE Granted(c)
    BY <2>6
  <2>7. CASE ~Granted(c)
    <3> DEFINE p == prev[c]
    <3>1. p \in Call /\ ~Released(p) /\ InChain(p, g) /\ ticket[p][g] < ticket[c][g]
      BY <2>7 DEF IndInv, TypeOK, Granted, PrevIsPredecessor, Precedes
    <3>2. CASE st[p] = "running"
      BY <3>1, <3>2
    <3>3. CASE st[p] = "waiting"
      <4>1. at[p] # g
        <5>1. ticket[p][g] \in Nat /\ ticket[c][g] \in Nat
          BY <3>1, <2>3 DEF IndInv, TypeOK
        <5>2. at[p] = g => ticket[c][g] <= ticket[p][g]
          BY <2>5, <3>1, <3>3
        <5> QED BY <5>1, <5>2, <3>1
      <4>2. g < at[p]
        BY <4>1, <3>1, <3>3 DEF IndInv, HeldShape, InChain
      <4>3. at[p] <= g
        BY <2>2, <3>1, <3>3
      <4> QED BY <4>2, <4>3, <2>1, <2>3, <3>1, <3>3 DEF Group
    <3> QED BY <3>1, <3>2, <3>3 DEF InChain, Active
  <2> QED BY <2>6, <2>7
<1> QED BY <1>1, IndInvIsInvariant, PTL

=============================================================================
