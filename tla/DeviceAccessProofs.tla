------------------------- MODULE DeviceAccessProofs --------------------------
(* Proofs about DeviceAccess, for any tasks and whichever transports.         *)
EXTENDS DeviceAccess, FiniteSetTheorems, WellFoundedInduction, TLAPS

InCall == {"check", "call"}

\* As much of the types as the argument needs: these are functions, of tasks or of
\* sockets.
Functional ==
  /\ pc = [u \in Users |-> pc[u]]
  /\ conn = [u \in Users |-> conn[u]]
  /\ owner = [s \in Sockets |-> owner[s]]

\* A task that is using a shared socket is written down as its owner.
OwnerKnown ==
  \A u \in Users : pc[u] \in InCall /\ conn[u] \in Sockets => owner[conn[u]] = u

IInv == Functional /\ OwnerKnown

USE DEF InCall

\* Init: nobody uses anything yet.
LEMMA InitInv == Init => IInv
BY DEF Init, IInv, Functional, OwnerKnown

\* A task that starts using a socket found its mutex free, so no other is using it.
LEMMA AcquireInv ==
  ASSUME IInv, NEW u \in Users, NEW there,
         pc' = [pc EXCEPT ![u] = there], UNCHANGED conn,
         owner[conn[u]] = NoOne, owner' = [owner EXCEPT ![conn[u]] = u]
  PROVE  IInv'
<1>1. Functional'
  BY DEF IInv, Functional
<1>2. ASSUME NEW v \in Users, pc'[v] \in InCall, conn'[v] \in Sockets
      PROVE  owner'[conn'[v]] = v
  <2>1. CASE v = u
    BY <1>2, <2>1 DEF IInv, Functional
  <2>2. CASE v # u
    <3>1. pc[v] \in InCall /\ conn[v] \in Sockets
      BY <1>2, <2>2 DEF IInv, Functional
    <3>2. owner[conn[v]] = v
      BY <3>1 DEF IInv, OwnerKnown
    <3>3. conn[v] # conn[u]
      BY <3>2, TasksAssumption
    <3> QED
      BY <3>1, <3>2, <3>3 DEF IInv, Functional
  <2> QED
    BY <2>1, <2>2
<1> QED
  BY <1>1, <1>2 DEF IInv, OwnerKnown

\* A task that lets go of its socket was its only owner, whatever it does next.
LEMMA ReleaseInv ==
  ASSUME IInv, NEW u \in Users, pc[u] \in InCall,
         NEW there, there \notin InCall, pc' = [pc EXCEPT ![u] = there],
         NEW c, conn' = [conn EXCEPT ![u] = c],
         owner' = [s \in Sockets |-> IF s = conn[u] THEN NoOne ELSE owner[s]]
  PROVE  IInv'
<1>1. Functional'
  BY DEF IInv, Functional
<1>2. ASSUME NEW v \in Users, pc'[v] \in InCall, conn'[v] \in Sockets
      PROVE  owner'[conn'[v]] = v
  <2>1. v # u
    BY <1>2 DEF IInv, Functional
  <2>2. pc[v] \in InCall /\ conn[v] \in Sockets /\ conn'[v] = conn[v]
    BY <1>2, <2>1 DEF IInv, Functional
  <2>3. owner[conn[v]] = v
    BY <2>2 DEF IInv, OwnerKnown
  <2>4. conn[v] # conn[u]
    BY <2>1, <2>2, <2>3 DEF IInv, OwnerKnown
  <2> QED
    BY <2>2, <2>3, <2>4
<1> QED
  BY <1>1, <1>2 DEF IInv, OwnerKnown

\* A task that is not using a socket, and does not begin to, may take any in hand.
LEMMA MoveInv ==
  ASSUME IInv, NEW u \in Users,
         NEW there, there \notin InCall, pc' = [pc EXCEPT ![u] = there],
         NEW c, conn' = [conn EXCEPT ![u] = c],
         UNCHANGED owner
  PROVE  IInv'
BY DEF IInv, Functional, OwnerKnown

\* No step of the specification breaks the invariant.
LEMMA NextInv == IInv /\ [Next]_vars => IInv'
<1> SUFFICES ASSUME IInv, [Next]_vars PROVE IInv'
  OBVIOUS
<1> USE DEF Goto, Hold
<1>0. ASSUME NEW u \in Users, NEW there, pc' = [pc EXCEPT ![u] = there], UNCHANGED conn
      PROVE  conn' = [conn EXCEPT ![u] = conn[u]]
  BY <1>0 DEF IInv, Functional
<1>1. ASSUME NEW u \in Users, OpenUri(u) PROVE IInv'
  BY <1>1, <1>0, MoveInv DEF OpenUri
<1>2. ASSUME NEW u \in Users, LookUp(u) PROVE IInv'
  BY <1>2, <1>0, MoveInv DEF LookUp
<1>3. ASSUME NEW u \in Users, LockForCheck(u) PROVE IInv'
  BY <1>3, AcquireInv DEF LockForCheck
<1>4. ASSUME NEW u \in Users, CheckDevice(u) PROVE IInv'
  <2>1. PICK there \in {"op", "evict"} : pc' = [pc EXCEPT ![u] = there]
    BY <1>4 DEF CheckDevice
  <2>2. conn' = [conn EXCEPT ![u] = conn[u]]
    BY <1>4, <1>0, <2>1 DEF CheckDevice
  <2>3. owner' = [s \in Sockets |-> IF s = conn[u] THEN NoOne ELSE owner[s]]
    BY <1>4 DEF CheckDevice, IInv, Functional
  <2> QED
    BY <1>4, <2>1, <2>2, <2>3, ReleaseInv DEF CheckDevice
<1>5. ASSUME NEW u \in Users, Evict(u) PROVE IInv'
  BY <1>5, <1>0, MoveInv DEF Evict
<1>6. ASSUME NEW u \in Users, Dial(u) PROVE IInv'
  <2>1. UNCHANGED owner /\ \/ pc' = [pc EXCEPT ![u] = "insert"] /\ UNCHANGED conn
                           \/ /\ pc' = [pc EXCEPT ![u] = "idle"]
                              /\ conn' = [conn EXCEPT ![u] = None]
    BY <1>6 DEF Dial
  <2> QED
    BY <2>1, <1>0, MoveInv
<1>7. ASSUME NEW u \in Users, Insert(u) PROVE IInv'
  BY <1>7, MoveInv DEF Insert
<1>8. ASSUME NEW u \in Users, NextCall(u)
      PROVE  \E there \in {"op", "idle"}, c \in {conn[u], None} :
               pc' = [pc EXCEPT ![u] = there] /\ conn' = [conn EXCEPT ![u] = c]
  BY <1>8, <1>0 DEF NextCall
<1>9. ASSUME NEW u \in Users, BeginCall(u) PROVE IInv'
  <2>1. UNCHANGED owner
    BY <1>9 DEF BeginCall
  <2>2. CASE NextCall(u)
    BY <2>1, <2>2, <1>8, MoveInv
  <2>3. CASE pc' = [pc EXCEPT ![u] = "lock"] /\ UNCHANGED conn
    BY <2>1, <2>3, <1>0, MoveInv
  <2> QED
    BY <1>9, <2>2, <2>3 DEF BeginCall
<1>10. ASSUME NEW u \in Users, Lock(u) PROVE IInv'
  <2>1. CASE conn[u] = Usb /\ UNCHANGED owner
    <3>1. conn[u] \notin Sockets
      BY <2>1, TasksAssumption, FS_CardinalityType DEF Usb, Sockets
    <3> QED
      BY <1>10, <2>1, <3>1 DEF Lock, IInv, Functional, OwnerKnown
  <2>2. CASE owner[conn[u]] = NoOne /\ owner' = [owner EXCEPT ![conn[u]] = u]
    BY <1>10, <2>2, AcquireInv DEF Lock
  <2> QED
    BY <1>10, <2>1, <2>2 DEF Lock
<1>11. ASSUME NEW u \in Users, EndCall(u) PROVE IInv'
  <2>1. /\ pc[u] \in InCall
        /\ owner' = [s \in Sockets |-> IF s = conn[u] THEN NoOne ELSE owner[s]]
    BY <1>11 DEF EndCall
  <2>2. \E there \in {"op", "idle"}, c \in {conn[u], None} :
          pc' = [pc EXCEPT ![u] = there] /\ conn' = [conn EXCEPT ![u] = c]
    BY <1>11, <1>8 DEF EndCall
  <2> QED
    BY <2>1, <2>2, ReleaseInv
<1>12. CASE UsbChange \/ BtLost \/ BtBack \/ LinkDrop \/ UNCHANGED vars
  BY <1>12 DEF UsbChange, BtLost, BtBack, LinkDrop, vars, IInv, Functional, OwnerKnown
<1> QED
  BY <1>1, <1>2, <1>3, <1>4, <1>5, <1>6, <1>7, <1>9, <1>10, <1>11, <1>12
  DEF Next, Step

\* Commands of two tasks never meet on one socket, however many tasks there are: the
\* mutex of a shared printer has one owner, and who is in a call is that owner.
THEOREM SocketsAreExclusive == Spec => []SocketExclusive
<1>1. IInv => SocketExclusive
  BY DEF IInv, OwnerKnown, SocketExclusive
<1> QED
  BY <1>1, InitInv, NextInv, PTL DEF Spec

-----------------------------------------------------------------------------
(* Type correctness: there is always a socket to dial. *)

\* A task that has nothing open holds nothing, and only one about to put a new
\* socket in the cache holds one.
InHand ==
  \A u \in Users : /\ pc[u] \in {"idle", "lookup"} => conn[u] = None
                   /\ fresh[u] # None => pc[u] = "insert"

TInv == TypeOK /\ InHand

LEMMA SocketNumbers ==
  /\ Cardinality(Users) \in Nat /\ IsFiniteSet(Sockets) /\ Sockets \subseteq Nat
  /\ Cardinality(Sockets) = 2 * Cardinality(Users) + 1
  /\ None \notin Sockets /\ Usb \notin Sockets /\ Usb # None
<1>1. Cardinality(Users) \in Nat  BY TasksAssumption, FS_CardinalityType
<1>2. 2 * Cardinality(Users) + 1 \in Nat  BY <1>1
<1>3. IsFiniteSet(Sockets) /\ Cardinality(Sockets) = 2 * Cardinality(Users) + 1
  BY <1>2, FS_Interval DEF Sockets
<1>4. None \notin Sockets /\ Usb \notin Sockets /\ Usb # None /\ Sockets \subseteq Nat
  BY <1>1, <1>2 DEF Sockets, None, Usb
<1> QED BY <1>1, <1>3, <1>4

LEMMA LeastSocket ==
  ASSUME NEW S \in SUBSET Sockets, S # {}
  PROVE  Min(S) \in S
<1> DEFINE less == OpToRel(<, Nat)
<1>1. IsWellFoundedOn(less, Nat)  BY NatLessThanWellFounded
<1>2. S \subseteq Nat  BY SocketNumbers
<1>3. \E x \in S : \A y \in S : ~ (<<y, x>> \in less)
  <2> HIDE DEF less
  <2> QED BY <1>1, <1>2, WFMin
<1>4. PICK x \in S : \A y \in S : ~ (<<y, x>> \in less)  BY <1>3
<1>5. ASSUME NEW y \in S PROVE x <= y
  <2>1. x \in Nat /\ y \in Nat  BY <1>2
  <2>2. ~ (<<y, x>> \in less)  BY <1>4
  <2>3. ~ (y < x)  BY <2>1, <2>2 DEF OpToRel
  <2> QED BY <2>1, <2>3
<1>6. \E z \in S : \A y \in S : z <= y  BY <1>5
<1> QED BY <1>6 DEF Min

\* A function has at most as many values as arguments.
LEMMA FewValues ==
  ASSUME NEW U, IsFiniteSet(U), NEW f
  PROVE  LET V == {f[u] : u \in U}
         IN  IsFiniteSet(V) /\ Cardinality(V) <= Cardinality(U)
<1> DEFINE V == {f[u] : u \in U}
           g == [u \in U |-> f[u]]
<1>1. g \in [U -> V] /\ \A v \in V : \E u \in U : g[u] = v  OBVIOUS
<1>2. g \in Surjection(U, V)  BY <1>1 DEF Surjection
<1> HIDE DEF V, g
<1>3. IsFiniteSet(V) /\ Cardinality(V) <= Cardinality(U)  BY <1>2, FS_Surjection
<1> QED BY <1>3 DEF V

\* Who dials has no new socket yet, so that one number at least is free.
LEMMA SocketFree ==
  ASSUME TInv, NEW u \in Users, pc[u] = "dial"
  PROVE  Sockets \ Open # {}
<1> DEFINE A == {conn[v] : v \in Users}
           B == {fresh[v] : v \in Users \ {u}}
           C == A \union B
           n == Cardinality(Users)
<1>1. IsFiniteSet(Users) /\ n \in Nat  BY TasksAssumption, SocketNumbers
<1>2. IsFiniteSet(Users \ {u}) /\ Cardinality(Users \ {u}) = n - 1
  BY <1>1, FS_RemoveElement
<1>3. IsFiniteSet(A) /\ Cardinality(A) <= n /\ Cardinality(A) \in Nat
  BY <1>1, FewValues, FS_CardinalityType
<1>4. IsFiniteSet(B) /\ Cardinality(B) <= n - 1 /\ Cardinality(B) \in Nat
  BY <1>2, FewValues, FS_CardinalityType
<1>5. fresh[u] = None  BY DEF TInv, InHand
<1>6. Open \subseteq C \union {cached}
  <2>1. None \notin Sockets  BY SocketNumbers
  <2>2. \A v \in Users : fresh[v] \in Sockets => fresh[v] \in B
    BY <1>5, <2>1
  <2> QED BY <2>2 DEF Open
<1> HIDE DEF A, B
<1>7. /\ IsFiniteSet(C) /\ Cardinality(C) \in Nat
      /\ Cardinality(C) = Cardinality(A) + Cardinality(B) - Cardinality(A \cap B)
      /\ Cardinality(A \cap B) \in Nat
  <2>1. IsFiniteSet(A \cap B)  BY <1>3, FS_Subset
  <2> QED BY <1>3, <1>4, <2>1, FS_Union, FS_CardinalityType
<1> HIDE DEF C
<1>8. IsFiniteSet(C \union {cached}) /\ Cardinality(C \union {cached}) <= Cardinality(C) + 1
  <2>1. /\ IsFiniteSet(C \union {cached})
        /\ Cardinality(C \union {cached}) =
             IF cached \in C THEN Cardinality(C) ELSE Cardinality(C) + 1
    BY <1>7, FS_AddElement
  <2> QED BY <1>7, <2>1
<1>9. IsFiniteSet(Open) /\ Cardinality(Open) <= Cardinality(C \union {cached})
      /\ Cardinality(Open) \in Nat
  BY <1>6, <1>8, FS_Subset, FS_CardinalityType
<1>10. Cardinality(C \union {cached}) \in Nat  BY <1>8, FS_CardinalityType
<1>11. Cardinality(Open) < 2 * n + 1
  BY <1>1, <1>3, <1>4, <1>7, <1>8, <1>9, <1>10
<1>12. Open \subseteq Sockets  BY DEF Open
<1>13. Open # Sockets  BY <1>1, <1>9, <1>11, SocketNumbers
<1> QED BY <1>12, <1>13

LEMMA ScriptLength == ASSUME NEW u \in Users PROVE Len(Script(u)) \in {1, 2}
BY DEF Users, Script

LEMMA TypeInit == Init => TInv
<1> SUFFICES ASSUME Init PROVE TInv
  OBVIOUS
<1>1. \A u \in Users : step[u] = 1 /\ Len(Script(u)) \in {1, 2}
  BY ScriptLength DEF Init
<1>2. \A u \in Users : step[u] <= Len(Script(u))  BY <1>1
<1> QED BY <1>2 DEF Init, TInv, TypeOK, InHand

\* A task that moves on with what it has, and lets go of nothing.
LEMMA MoveTypes ==
  ASSUME TInv, NEW u \in Users,
         NEW there \in {"idle"} \union Opening \union Using,
         there \notin {"idle", "lookup"}, pc[u] # "insert",
         pc' = [pc EXCEPT ![u] = there],
         NEW c \in Sockets \union {None, Usb}, conn' = [conn EXCEPT ![u] = c],
         conn[u] \in {c, None},
         NEW o \in Users \union {NoOne}, NEW s,
         owner' = [owner EXCEPT ![s] = o] \/ UNCHANGED owner,
         printing' \in [Users -> BOOLEAN],
         UNCHANGED <<fresh, step, cached, alive, usbUp, btUp>>
  PROVE  TInv'
<1>1. Open \subseteq Open'
  <2>1. None \notin Sockets  BY SocketNumbers
  <2>2. \A v \in Users : conn[v] \in Sockets => conn'[v] = conn[v]
    BY <2>1 DEF TInv, TypeOK
  <2> QED BY <2>2 DEF Open
<1>2. alive' \subseteq Open'  BY <1>1 DEF TInv, TypeOK
<1>3. owner' \in [Sockets -> Users \union {NoOne}]  BY DEF TInv, TypeOK
<1>4. TypeOK'  BY <1>2, <1>3 DEF TInv, TypeOK
<1>5. InHand'
  BY DEF TInv, TypeOK, InHand
<1> QED BY <1>4, <1>5 DEF TInv

\* A task that drops its device.
LEMMA DropTypes ==
  ASSUME TInv, NEW u \in Users, pc[u] # "insert",
         pc' = [pc EXCEPT ![u] = "idle"], conn' = [conn EXCEPT ![u] = None],
         step' = step \/ step' = [step EXCEPT ![u] = 1],
         owner' \in [Sockets -> Users \union {NoOne}],
         printing' \in [Users -> BOOLEAN],
         alive' = alive \intersect Open',
         UNCHANGED <<fresh, cached, usbUp, btUp>>
  PROVE  TInv'
<1>1. \A v \in Users : step'[v] \in {1, step[v]}  BY DEF TInv, TypeOK
<1>2. step' \in [Users -> 1..2] /\ \A v \in Users : step'[v] <= Len(Script(v))
  BY <1>1, ScriptLength DEF TInv, TypeOK
<1>3. alive' \subseteq Open'  OBVIOUS
<1>4. TypeOK'  BY <1>2, <1>3 DEF TInv, TypeOK
<1>5. InHand'  BY DEF TInv, TypeOK, InHand
<1> QED BY <1>4, <1>5 DEF TInv

\* The next call of a task's script, or its last.
LEMMA NextCallTypes ==
  ASSUME TInv, NEW u \in Users, NextCall(u), pc[u] # "insert",
         owner' \in [Sockets -> Users \union {NoOne}],
         printing' \in [Users -> BOOLEAN],
         UNCHANGED <<fresh, cached, usbUp, btUp>>
  PROVE  TInv'
<1>1. CASE /\ step[u] < Len(Script(u))
           /\ step' = [step EXCEPT ![u] = @ + 1]
           /\ pc' = [pc EXCEPT ![u] = "op"] /\ UNCHANGED <<conn, alive>>
  <2>1. step[u] + 1 \in 1..2 /\ step[u] + 1 <= Len(Script(u))
    <3>1. step[u] \in 1..2  BY DEF TInv, TypeOK
    <3>2. Len(Script(u)) \in {1, 2}  BY ScriptLength
    <3>3. step[u] < Len(Script(u))  BY <1>1
    <3>4. \A n \in 1..2, l \in {1, 2} : n < l => n + 1 \in 1..2 /\ n + 1 <= l
      OBVIOUS
    <3> QED BY <3>1, <3>2, <3>3, <3>4
  <2>2. step' \in [Users -> 1..2] /\ \A v \in Users : step'[v] <= Len(Script(v))
    <3>1. step \in [Users -> 1..2] /\ \A v \in Users : step[v] <= Len(Script(v))
      BY DEF TInv, TypeOK
    <3>2. step' = [step EXCEPT ![u] = step[u] + 1]  BY <1>1
    <3>3. step' \in [Users -> 1..2]  BY <2>1, <3>1, <3>2
    <3>4. ASSUME NEW v \in Users PROVE step'[v] <= Len(Script(v))
      <4>1. CASE v = u  BY <2>1, <3>1, <3>2, <4>1
      <4>2. CASE v # u  BY <3>1, <3>2, <4>2
      <4> QED BY <4>1, <4>2
    <3> QED BY <3>3, <3>4
  <2>3. Open' = Open  BY <1>1 DEF Open
  <2>4. TypeOK'  BY <1>1, <2>2, <2>3 DEF TInv, TypeOK, Using
  <2>5. InHand'  BY <1>1 DEF TInv, TypeOK, InHand
  <2> QED BY <2>4, <2>5 DEF TInv
<1>2. CASE /\ step' = [step EXCEPT ![u] = 1]
           /\ pc' = [pc EXCEPT ![u] = "idle"] /\ conn' = [conn EXCEPT ![u] = None]
           /\ alive' = alive \intersect Open'
  BY <1>2, DropTypes
<1> QED BY <1>1, <1>2 DEF NextCall, Goto, Hold

LEMMA DialTypes ==
  ASSUME TInv, NEW u \in Users, Dial(u)
  PROVE  TInv'
<1>1. CASE /\ pc' = [pc EXCEPT ![u] = "insert"] /\ UNCHANGED conn
           /\ \E s \in Sockets : /\ fresh' = [fresh EXCEPT ![u] = s]
                                 /\ alive' = alive \union {s}
  <2>1. PICK s \in Sockets : fresh' = [fresh EXCEPT ![u] = s] /\ alive' = alive \union {s}
    BY <1>1
  <2>2. fresh[u] = None /\ None \notin Sockets
    BY SocketNumbers DEF Dial, TInv, InHand
  <2>3. UNCHANGED <<cached, owner, step, printing, usbUp, btUp>>
    BY DEF Dial, deviceVars, linkVars
  <2>4. \A v \in Users : fresh[v] \in Sockets => fresh'[v] = fresh[v]
    BY <2>1, <2>2 DEF TInv, TypeOK
  <2>5. fresh'[u] = s  BY <2>1 DEF TInv, TypeOK
  <2>6. alive' \subseteq Open'  BY <1>1, <2>1, <2>3, <2>4, <2>5 DEF TInv, TypeOK, Open
  <2>7. TypeOK'  BY <1>1, <2>1, <2>3, <2>6 DEF TInv, TypeOK, Opening
  <2>8. InHand'  BY <1>1, <2>1 DEF TInv, TypeOK, InHand
  <2> QED BY <2>7, <2>8 DEF TInv
<1>2. CASE /\ pc' = [pc EXCEPT ![u] = "idle"] /\ conn' = [conn EXCEPT ![u] = None]
           /\ UNCHANGED fresh /\ alive' = alive \intersect Open'
  <2>1. /\ UNCHANGED <<cached, step, usbUp, btUp>> /\ pc[u] = "dial"
        /\ owner' \in [Sockets -> Users \union {NoOne}]
        /\ printing' \in [Users -> BOOLEAN]
    BY DEF Dial, deviceVars, linkVars, TInv, TypeOK
  <2> QED BY <1>2, <2>1, DropTypes
<1>3. Min(Sockets \ Open) \in Sockets
  <2>1. Sockets \ Open # {}  BY SocketFree DEF Dial
  <2> QED BY <2>1, LeastSocket
<1> QED BY <1>1, <1>2, <1>3 DEF Dial, Goto, Hold

LEMMA InsertTypes ==
  ASSUME TInv, NEW u \in Users, Insert(u)
  PROVE  TInv'
<1>1. /\ pc' = [pc EXCEPT ![u] = "op"] /\ conn' = [conn EXCEPT ![u] = fresh[u]]
      /\ fresh' = [fresh EXCEPT ![u] = None] /\ cached' = fresh[u]
      /\ alive' = alive \intersect Open'
      /\ UNCHANGED <<owner, step, printing, usbUp, btUp>>
  BY DEF Insert, Goto, Hold, deviceVars, linkVars
<1>2. alive' \subseteq Open'  BY <1>1
<1>3. TypeOK'  BY <1>1, <1>2 DEF TInv, TypeOK, Using
<1>4. InHand'  BY <1>1 DEF TInv, TypeOK, InHand
<1> QED BY <1>3, <1>4 DEF TInv

LEMMA EvictTypes ==
  ASSUME TInv, NEW u \in Users, Evict(u)
  PROVE  TInv'
<1>1. /\ pc' = [pc EXCEPT ![u] = "dial"] /\ cached' = None
      /\ alive' = alive \intersect Open' /\ pc[u] = "evict"
      /\ UNCHANGED <<conn, fresh, owner, step, printing, usbUp, btUp>>
  BY DEF Evict, Goto, deviceVars, linkVars
<1>2. alive' \subseteq Open'  BY <1>1
<1>3. TypeOK'  BY <1>1, <1>2 DEF TInv, TypeOK, Opening
<1>4. InHand'  BY <1>1 DEF TInv, TypeOK, InHand
<1> QED BY <1>3, <1>4 DEF TInv

LEMMA EndCallTypes ==
  ASSUME TInv, NEW u \in Users, EndCall(u)
  PROVE  TInv'
<1>1. /\ pc[u] = "call" /\ UNCHANGED <<fresh, cached, usbUp, btUp>>
      /\ owner' \in [Sockets -> Users \union {NoOne}]
      /\ printing' \in [Users -> BOOLEAN]
  BY DEF EndCall, linkVars, TInv, TypeOK
<1>2. CASE NextCall(u)  BY <1>1, <1>2, NextCallTypes
<1>3. CASE /\ step' = [step EXCEPT ![u] = 1]
           /\ pc' = [pc EXCEPT ![u] = "idle"] /\ conn' = [conn EXCEPT ![u] = None]
           /\ alive' = alive \intersect Open'
  BY <1>1, <1>3, DropTypes
<1> QED BY <1>2, <1>3 DEF EndCall, Goto, Hold

LEMMA CheckDeviceTypes ==
  ASSUME TInv, NEW u \in Users, CheckDevice(u)
  PROVE  TInv'
<1>1. PICK there \in {"op", "evict"} : pc' = [pc EXCEPT ![u] = there]
  BY DEF CheckDevice, Goto
<1>2. conn' = [conn EXCEPT ![u] = conn[u]] /\ conn[u] \in Sockets \union {None, Usb}
  BY DEF CheckDevice, TInv, TypeOK
<1>3. there \in {"idle"} \union Opening \union Using  BY DEF Opening, Using
<1>4. /\ pc[u] # "insert" /\ printing' \in [Users -> BOOLEAN]
      /\ owner' = [owner EXCEPT ![conn[u]] = NoOne]
      /\ UNCHANGED <<fresh, step, cached, alive, usbUp, btUp>>
  BY DEF CheckDevice, TInv, TypeOK, deviceVars, linkVars
<1> QED BY <1>1, <1>2, <1>3, <1>4, MoveTypes

LEMMA StayTypes ==
  ASSUME TInv, NEW u \in Users, NEW there \in Opening \union Using, there # "lookup",
         pc' = [pc EXCEPT ![u] = there], pc[u] # "insert", UNCHANGED conn,
         NEW o \in Users \union {NoOne}, NEW s,
         owner' = [owner EXCEPT ![s] = o] \/ UNCHANGED owner,
         printing' \in [Users -> BOOLEAN],
         UNCHANGED <<fresh, step, cached, alive, usbUp, btUp>>
  PROVE  TInv'
<1>1. conn' = [conn EXCEPT ![u] = conn[u]] /\ conn[u] \in Sockets \union {None, Usb}
  BY DEF TInv, TypeOK
<1>2. there \notin {"idle", "lookup"}  BY DEF Opening, Using
<1> QED BY <1>1, <1>2, MoveTypes

LEMMA BeginCallTypes ==
  ASSUME TInv, NEW u \in Users, BeginCall(u)
  PROVE  TInv'
<1>1. /\ pc[u] = "op" /\ UNCHANGED <<fresh, cached, owner, usbUp, btUp>>
      /\ owner' \in [Sockets -> Users \union {NoOne}]
  BY DEF BeginCall, linkVars, TInv, TypeOK
<1>2. CASE NextCall(u) /\ UNCHANGED printing
  BY <1>1, <1>2, NextCallTypes DEF TInv, TypeOK
<1>3. CASE /\ pc' = [pc EXCEPT ![u] = "lock"]
           /\ printing' = [printing EXCEPT ![u] = Call(u) = "print"]
           /\ UNCHANGED <<step, conn, alive>>
  <2>1. printing' \in [Users -> BOOLEAN]  BY <1>3 DEF TInv, TypeOK
  <2>2. NoOne \in Users \union {NoOne}  OBVIOUS
  <2> QED BY <1>1, <1>3, <2>1, <2>2, StayTypes DEF Using
<1> QED BY <1>2, <1>3 DEF BeginCall, Goto

LEMMA TypeNext == TInv /\ [Next]_vars => TInv'
<1> SUFFICES ASSUME TInv, [Next]_vars PROVE TInv'
  OBVIOUS
<1> USE DEF Goto, Hold, deviceVars, linkVars
<1>1. printing \in [Users -> BOOLEAN] /\ cached \in Sockets \union {None}
  BY DEF TInv, TypeOK
<1>2. ASSUME NEW u \in Users, OpenUri(u) PROVE TInv'
  <2>1. CASE pc' = [pc EXCEPT ![u] = "op"] /\ conn' = [conn EXCEPT ![u] = Usb]
    <3>1. conn[u] = None  BY <1>2 DEF OpenUri, TInv, InHand
    <3> QED BY <1>2, <2>1, <3>1, <1>1, MoveTypes DEF OpenUri, Using
  <2>2. CASE pc' = [pc EXCEPT ![u] = "lookup"] /\ UNCHANGED conn
    <3>1. UNCHANGED <<conn, fresh, step, printing, cached, owner, alive, usbUp, btUp>>
          /\ pc[u] = "idle"
      BY <1>2, <2>2 DEF OpenUri
    <3>2. Open' = Open  BY <3>1 DEF Open
    <3>3. TypeOK'  BY <2>2, <3>1, <3>2 DEF TInv, TypeOK, Opening
    <3>4. InHand'  BY <2>2, <3>1 DEF TInv, TypeOK, InHand
    <3> QED BY <3>3, <3>4 DEF TInv
  <2> QED BY <1>2, <2>1, <2>2 DEF OpenUri
<1>3. ASSUME NEW u \in Users, LookUp(u) PROVE TInv'
  <2>1. conn[u] = None  BY <1>3 DEF LookUp, TInv, InHand
  <2>2. PICK there \in {"dial", "wait"}, c \in Sockets \union {None, Usb} :
          pc' = [pc EXCEPT ![u] = there] /\ conn' = [conn EXCEPT ![u] = c]
    <3>1. conn' = conn => conn' = [conn EXCEPT ![u] = None]
      BY <2>1 DEF TInv, TypeOK
    <3> QED BY <1>3, <3>1, <1>1 DEF LookUp
  <2> QED BY <1>3, <1>1, <2>1, <2>2, MoveTypes DEF LookUp, Opening
<1>4. ASSUME NEW u \in Users, LockForCheck(u) PROVE TInv'
  BY <1>4, <1>1, StayTypes DEF LockForCheck, Opening
<1>5. ASSUME NEW u \in Users, CheckDevice(u) PROVE TInv'  BY <1>5, CheckDeviceTypes
<1>6. ASSUME NEW u \in Users, Evict(u) PROVE TInv'  BY <1>6, EvictTypes
<1>7. ASSUME NEW u \in Users, Dial(u) PROVE TInv'  BY <1>7, DialTypes
<1>8. ASSUME NEW u \in Users, Insert(u) PROVE TInv'  BY <1>8, InsertTypes
<1>9. ASSUME NEW u \in Users, BeginCall(u) PROVE TInv'  BY <1>9, BeginCallTypes
<1>10. ASSUME NEW u \in Users, Lock(u) PROVE TInv'
  BY <1>10, <1>1, StayTypes DEF Lock, Using
<1>11. ASSUME NEW u \in Users, EndCall(u) PROVE TInv'  BY <1>11, EndCallTypes
<1>12. CASE UsbChange \/ BtLost \/ BtBack \/ LinkDrop \/ UNCHANGED vars
  <2>1. UNCHANGED <<pc, conn, fresh, step, printing, cached, owner>>
        /\ alive' \subseteq alive /\ usbUp' \in BOOLEAN /\ btUp' \in BOOLEAN
    BY <1>12 DEF UsbChange, BtLost, BtBack, LinkDrop, vars, TInv, TypeOK
  <2>2. Open' = Open  BY <2>1 DEF Open
  <2> QED BY <2>1, <2>2 DEF TInv, TypeOK, InHand
<1> QED
  BY <1>2, <1>3, <1>4, <1>5, <1>6, <1>7, <1>8, <1>9, <1>10, <1>11, <1>12
  DEF Next, Step

\* The types are kept for any tasks: in particular a task that dials finds a number
\* for its socket, as every other holds at most an old one and a new one.
THEOREM TypeCorrect == Spec => []TypeOK
<1>1. TInv => TypeOK  BY DEF TInv
<1> QED
  BY <1>1, TypeInit, TypeNext, PTL DEF Spec

=============================================================================
