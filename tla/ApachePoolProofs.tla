-------------------------- MODULE ApachePoolProofs --------------------------
(***************************************************************************)
(* Proofs about ApachePool, for any number of requests, slots, descriptors *)
(* and servers, and any bound on deaths and outages.                       *)
(*                                                                         *)
(* IInv is inductive.  Its part Holding says that a request in progress has*)
(* a slot that is marked as used, or its own connection, and no one else's.*)
(* That is enough for OneUserPerSlot with any number of targets.  With one *)
(* target the slots that were ever used come first and all bear its label  *)
(* (Filled, Labelled), so a scan that finds a slot to reuse has not met one*)
(* to create in before it.                                                 *)
(*                                                                         *)
(* SInv, in the second half, is inductive on top of IInv when all requests *)
(* have one target.  Every connection that is up has an open socket of its *)
(* own (Owned, Distinct), wherever the shared srv_addr took it; what is on *)
(* the socket of a request fits where in                                   *)
(* mgwsi_handler the request is (Talks); a request is asked only on the    *)
(* socket that its thread reads (Pending); and it was sent more often than *)
(* it ran (Tally).  With two targets SInv is false: a request may be given *)
(* another slot than the one it was to reuse.                              *)
(***************************************************************************)
EXTENDS ApachePool, TLAPS, WellFoundedInduction, NaturalsInduction

InProgress == Pcs \ {"idle", "done"}

ConOK == con \in [Handles -> Con \cup {NoCon}]
PcOK == pc \in [Requests -> Pcs]
HoldOK == hold \in [Requests -> Handles \cup {0}]
WorldOK == world.want \in [Requests -> Targets]

Holding ==
    \A r \in Requests : Busy(r) => hold[r] \in Slots \cup {r} /\ con[hold[r]].status = "INUSE"

Used == \A n \in Slots : con[n].status = "INUSE" => \E r \in Requests : Busy(r) /\ hold[r] = n

Filled == \A n, m \in Slots : m < n /\ con[n] # NoCon => con[m] # NoCon

Labelled == \A n \in Slots, r \in Requests : con[n] # NoCon => con[n].target = world.want[r]

IInv ==
    /\ ConOK /\ PcOK /\ HoldOK /\ WorldOK
    /\ down \subseteq Targets
    /\ Holding
    /\ OneUserPerSlot
    /\ OneTarget => Used /\ Filled /\ Labelled

-----------------------------------------------------------------------------
(* A set of numbers that is not empty has a least member.                  *)
LEMMA LeastIsIn ==
    ASSUME NEW S, S \subseteq Nat, S # {}
    PROVE  Least(S) \in S /\ \A m \in S : Least(S) <= m
<1>1. IsWellFoundedOn(OpToRel(<, Nat), Nat)
  BY NatLessThanWellFounded, Zenon
<1>2. \E x \in S : \A y \in S : ~(<<y, x>> \in OpToRel(<, Nat))
  BY <1>1, WFMin, Zenon
<1>3. PICK x \in S : \A y \in S : ~(<<y, x>> \in OpToRel(<, Nat))
  BY <1>2, Zenon
<1>4. \A y \in S : ~(y < x)
  BY <1>3, Zenon DEF OpToRel
<1>5. \A y \in S : x <= y
  BY <1>4
<1>6. QED
  BY <1>5 DEF Least

(* A slot, a request and zero are told apart.                              *)
LEMMA HandlesApart ==
    /\ \A r \in Requests : r \notin Slots
    /\ 0 \notin Handles
    /\ \A r \in Requests : r # 0
BY RequestsAssumption, BoundsAssumption DEF Handles, Slots

LEMMA ConTyped ==
    ASSUME ConOK, NEW h \in Handles, con[h].status # "NULL"
    PROVE  con[h] \in Con
BY DEF ConOK, NoCon

LEMMA NoConIsNone == NoCon.status = "NULL" /\ NoCon \notin Con
BY DEF NoCon, Con

(* What a request in progress does with its own connection, when it keeps  *)
(* it.                                                                     *)
LEMMA QuietKeeps ==
    ASSUME IInv, NEW r \in Requests, NEW to \in InProgress, Busy(r),
           pc' = [pc EXCEPT ![r] = to], hold' = hold, world' = world, down' = down,
           con' \in [Handles -> Con \cup {NoCon}],
           \A h \in Handles \ {hold[r]} : con'[h] = con[h],
           con'[hold[r]].status = "INUSE", con'[hold[r]].target = con[hold[r]].target
    PROVE  IInv'
<1>1. hold[r] \in Handles /\ con[hold[r]].status = "INUSE"
  BY DEF IInv, Holding, Handles
<1>2. pc' \in [Requests -> Pcs] /\ \A q \in Requests : Busy(q)' <=> Busy(q)
  BY DEF IInv, PcOK, Busy, InProgress, Pcs
<1>3. Holding'
  BY <1>1, <1>2 DEF IInv, Holding, Handles
<1>4. OneUserPerSlot'
  BY <1>2 DEF IInv, OneUserPerSlot
<1>5. ASSUME OneTarget PROVE Used' /\ Filled' /\ Labelled'
  <2>1. \A n \in Slots : con'[n].status = "INUSE" <=> con[n].status = "INUSE"
    BY <1>1 DEF Handles
  <2>2. Used'
    BY <1>2, <1>5, <2>1 DEF IInv, Used
  <2>3. \A n \in Slots : con'[n] # NoCon <=> con[n] # NoCon
    BY <1>1, NoConIsNone DEF Handles
  <2>4. Filled'
    BY <1>5, <2>3 DEF IInv, Filled
  <2>5. \A n \in Slots : con'[n].target = con[n].target
    BY DEF Handles
  <2>6. Labelled'
    BY <1>5, <2>3, <2>5 DEF IInv, Labelled
  <2>7. QED
    BY <2>2, <2>4, <2>6
<1>6. QED
  BY <1>2, <1>3, <1>4, <1>5 DEF IInv, ConOK, PcOK, HoldOK, WorldOK, OneTarget

(* The end of a request: it gives its connection back.                     *)
LEMMA EndingKeeps ==
    ASSUME IInv, NEW r \in Requests, Busy(r),
           pc' = [pc EXCEPT ![r] = "done"], hold' = [hold EXCEPT ![r] = 0],
           world' = world, down' = down,
           con' \in [Handles -> Con \cup {NoCon}],
           \A h \in Handles \ {hold[r]} : con'[h] = con[h],
           hold[r] \in Slots => con'[hold[r]].status = "FREE"
                                /\ con'[hold[r]].target = con[hold[r]].target
    PROVE  IInv'
<1>1. hold[r] \in Handles /\ con[hold[r]].status = "INUSE"
  BY DEF IInv, Holding, Handles
<1>2. pc' \in [Requests -> Pcs] /\ ~Busy(r)' /\ \A q \in Requests \ {r} : Busy(q)' <=> Busy(q)
  BY DEF IInv, PcOK, Busy, InProgress, Pcs
<1>3. hold' \in [Requests -> Handles \cup {0}]
  BY DEF IInv, HoldOK
<1>4. \A q \in Requests \ {r} : hold'[q] = hold[q]
  BY DEF IInv, HoldOK
<1>5. \A q \in Requests \ {r} : Busy(q) => hold[q] # hold[r]
  BY DEF IInv, OneUserPerSlot
<1>6. Holding'
  BY <1>2, <1>4, <1>5 DEF IInv, Holding, Handles
<1>7. OneUserPerSlot'
  BY <1>2, <1>4 DEF IInv, OneUserPerSlot
<1>8. ASSUME OneTarget PROVE Used' /\ Filled' /\ Labelled'
  <2>1. \A n \in Slots : con'[n].status = "INUSE" => n # hold[r] /\ con[n].status = "INUSE"
    BY DEF Handles
  <2>2. Used'
    BY <1>2, <1>4, <1>8, <2>1 DEF IInv, Used
  <2>3. \A n \in Slots : con'[n] # NoCon <=> con[n] # NoCon
    BY <1>1, NoConIsNone DEF Handles
  <2>4. Filled'
    BY <1>8, <2>3 DEF IInv, Filled
  <2>5. \A n \in Slots : con'[n].target = con[n].target
    BY DEF Handles
  <2>6. Labelled'
    BY <1>8, <2>3, <2>5 DEF IInv, Labelled
  <2>7. QED
    BY <2>2, <2>4, <2>6
<1>9. QED
  BY <1>2, <1>3, <1>6, <1>7, <1>8 DEF IInv, ConOK, PcOK, HoldOK, WorldOK, OneTarget

(* A new Apache child has an empty table and no request in progress.       *)
LEMMA NewChildKeeps ==
    ASSUME IInv, NewChild, world' = world, down' = down,
           pc' \in [Requests -> Pcs], hold' \in [Requests -> Handles \cup {0}],
           \A q \in Requests : ~Busy(q)'
    PROVE  IInv'
<1>1. con' = [h \in Handles |-> NoCon]
  BY DEF NewChild
<1>2. \A n \in Slots : con'[n] = NoCon
  BY <1>1 DEF Handles
<1>3. Holding' /\ OneUserPerSlot'
  BY DEF Holding, OneUserPerSlot
<1>4. Used' /\ Filled' /\ Labelled'
  BY <1>2, NoConIsNone DEF Used, Filled, Labelled
<1>5. QED
  BY <1>1, <1>3, <1>4 DEF IInv, ConOK, PcOK, HoldOK, WorldOK

(* A set of numbers with a bound has a greatest member.                    *)
LEMMA MostIsIn ==
    ASSUME NEW K \in Nat, NEW S, S \subseteq 0 .. K, S # {}
    PROVE  Most(S) \in S
<1> DEFINE T == {K - n : n \in S}
<1>0. \A n \in S : n \in Nat /\ K - n \in Nat
  OBVIOUS
<1>1. T \subseteq Nat /\ T # {}
  BY <1>0
<1>2. Least(T) \in T /\ \A m \in T : Least(T) <= m
  BY <1>1, LeastIsIn
<1>3. PICK n \in S : Least(T) = K - n
  BY <1>2
<1>4. \A m \in S : K - n <= K - m
  BY <1>2, <1>3
<1>5. \A m \in S : n >= m
  BY <1>4
<1>6. QED
  BY <1>3, <1>5 DEF Most

-----------------------------------------------------------------------------
(* mgwsi_db_connect_ex changes the connection it is given and nothing else,*)
(* whether it connects or not.                                             *)

LEMMA NewFdTyped ==
    /\ NewFd \in 0 .. MaxFd
    /\ FreeFds # {} => NewFd \in FreeFds
<1>1. FreeFds \subseteq Nat /\ FreeFds \subseteq Fds
  BY DEF FreeFds, Fds
<1>2. FreeFds # {} => Least(FreeFds) \in FreeFds
  BY <1>1, LeastIsIn
<1>3. \A f \in Fds : f \in 0 .. MaxFd
  BY BoundsAssumption DEF Fds
<1>4. 0 \in 0 .. MaxFd
  BY BoundsAssumption
<1>5. QED
  BY <1>1, <1>2, <1>3, <1>4 DEF NewFd

LEMMA ConnectedCon ==
    ASSUME ConOK, NEW h \in Handles, con[h].status = "INUSE", NEW greeting,
           Connected(h, greeting)
    PROVE  /\ con' \in [Handles -> Con \cup {NoCon}]
           /\ \A g \in Handles \ {h} : con'[g] = con[g]
           /\ con'[h] = [con[h] EXCEPT !.up = TRUE, !.fd = NewFd]
           /\ con'[h].status = "INUSE" /\ con'[h].target = con[h].target
<1>1. con[h] \in Con
  BY ConTyped
<1>2. NewFd \in 0 .. MaxFd
  BY NewFdTyped
<1>3. con' = [con EXCEPT ![h] = [con[h] EXCEPT !.up = TRUE, !.fd = NewFd]]
  BY DEF Connected, ConOK
<1>4. [con[h] EXCEPT !.up = TRUE, !.fd = NewFd] \in Con
  BY <1>1, <1>2 DEF Con
<1>5. QED
  BY <1>1, <1>3, <1>4 DEF ConOK, Con

LEMMA RefusedCon ==
    ASSUME ConOK, NEW h \in Handles, con[h].status = "INUSE",
           NEW status \in {"FREE", "INUSE"}, Refused(h, status)
    PROVE  /\ con' \in [Handles -> Con \cup {NoCon}]
           /\ \A g \in Handles \ {h} : con'[g] = con[g]
           /\ con'[h].status = status /\ con'[h].target = con[h].target
           /\ con'[h].up = FALSE
<1>1. con[h] \in Con
  BY ConTyped
<1>2. con' = [con EXCEPT ![h] =
                 [con[h] EXCEPT !.up = FALSE, !.status = status, !.fd = NewFd]]
  BY DEF Refused, ConOK
<1>3. [con[h] EXCEPT !.up = FALSE, !.status = status, !.fd = NewFd] \in Con
  BY <1>1, NewFdTyped DEF Con
<1>4. QED
  BY <1>1, <1>2, <1>3 DEF ConOK, Con

LEMMA HardCon ==
    ASSUME ConOK, NEW h \in Handles, con[h].status = "INUSE", DisconnectHard(h)
    PROVE  /\ con' \in [Handles -> Con \cup {NoCon}]
           /\ \A g \in Handles \ {h} : con'[g] = con[g]
           /\ h \in Slots => con'[h].status = "FREE" /\ con'[h].target = con[h].target
           /\ con'[h].up = FALSE
<1>1. con[h] \in Con
  BY ConTyped
<1>2. [con[h] EXCEPT !.up = FALSE, !.status = "FREE"] \in Con
  BY <1>1 DEF Con
<1>3. NoCon.up = FALSE
  BY DEF NoCon
<1>4. QED
  BY <1>1, <1>2, <1>3 DEF DisconnectHard, ConOK, Con

LEMMA SoftCon ==
    ASSUME ConOK, NEW h \in Handles, con[h].status = "INUSE", DisconnectSoft(h)
    PROVE  /\ con' \in [Handles -> Con \cup {NoCon}]
           /\ \A g \in Handles \ {h} : con'[g] = con[g]
           /\ h \in Slots => con'[h].status = "FREE" /\ con'[h].target = con[h].target
<1>1. con[h] \in Con
  BY ConTyped
<1>2. [con[h] EXCEPT !.status = "FREE"] \in Con
  BY <1>1 DEF Con
<1>3. CASE h \in Slots
  BY <1>1, <1>2, <1>3 DEF DisconnectSoft, ConOK, Con
<1>4. CASE h \notin Slots
  BY <1>4, HardCon DEF DisconnectSoft
<1>5. QED
  BY <1>3, <1>4

-----------------------------------------------------------------------------
(* The scan of mgwsi_db_connect.                                           *)

LEMMA ReusableLeast ==
    ASSUME NEW t, Reusable(t) # {}
    PROVE  Least(Reusable(t)) \in Reusable(t) /\ \A m \in Reusable(t) : Least(Reusable(t)) <= m
<1>1. Reusable(t) \subseteq Nat
  BY BoundsAssumption DEF Reusable, Slots
<1>2. QED
  BY <1>1, LeastIsIn

LEMMA UsableLeast ==
    ASSUME NEW t, Usable(t) # {}
    PROVE  Least(Usable(t)) \in Usable(t) /\ \A m \in Usable(t) : Least(Usable(t)) <= m
<1>1. Usable(t) \subseteq Nat
  BY BoundsAssumption DEF Usable, Scanned, Slots
<1>2. QED
  BY <1>1, LeastIsIn

LEMMA TypeSeenTyped ==
    ASSUME ConOK, NEW t
    PROVE  TypeSeen(t) \in Types
<1> DEFINE seen == {n \in Scanned(t) : Matches(n, t)}
<1>1. CASE seen = {}
  BY <1>1 DEF TypeSeen, Types
<1>2. CASE seen # {}
  <2>1. seen \subseteq 0 .. MaxCon
    BY BoundsAssumption DEF Scanned, Slots
  <2>2. Most(seen) \in seen
    BY <1>2, <2>1, MostIsIn, BoundsAssumption
  <2>3. Most(seen) \in Handles
    BY <2>2 DEF Scanned, Handles
  <2>4. con[Most(seen)].type \in Types
    BY <2>3 DEF ConOK, Con, NoCon, Types
  <2>5. QED
    BY <1>2, <2>4 DEF TypeSeen
<1>3. QED
  BY <1>1, <1>2

(* With one target a scan that finds a slot to reuse has met none to create*)
(* a connection in.                                                        *)
LEMMA OneTargetScan ==
    ASSUME IInv, OneTarget, NEW r \in Requests, Reusable(world.want[r]) # {}
    PROVE  Usable(world.want[r]) = {}
<1> DEFINE t == world.want[r]
<1>1. PICK old \in Slots : old \in Reusable(t)
  BY DEF Reusable
<1>2. SUFFICES ASSUME NEW n \in Usable(t) PROVE FALSE
  OBVIOUS
<1>3. n \in Slots /\ n <= old /\ n \notin Reusable(t)
  BY <1>1, <1>2 DEF Usable, Scanned
<1>4. n < old /\ n \in Nat
  BY <1>1, <1>3, BoundsAssumption DEF Slots
<1>5. con[n] # NoCon
  BY <1>1, <1>3, <1>4 DEF IInv, Filled, Reusable, Matches
<1>6. con[n].status = "FREE" /\ con[n].target = t
  BY <1>2, <1>3, <1>5 DEF Usable, IInv, Labelled
<1>7. QED
  BY <1>3, <1>5, <1>6 DEF Reusable, Matches

LEMMA ConnectKeeps ==
    ASSUME IInv, NEW r \in Requests, Connect(r)
    PROVE  IInv'
<1> DEFINE t == world.want[r]
           reuse == Reusable(t) # {}
           old == Least(Reusable(t))
           h == IF Usable(t) = {} /\ reuse THEN old
                ELSE IF Usable(t) # {} THEN Least(Usable(t)) ELSE r
           ready == reuse /\ con[old].up
           marked == IF reuse THEN [con EXCEPT ![old].status = "INUSE"] ELSE con
           label == IF ready THEN con[h].target ELSE t
           type == IF ~ready THEN TypeSeen(t) ELSE IF h = old THEN con[h].type ELSE "DUNNO"
<1>1. t \in Targets
  BY DEF IInv, WorldOK
<1>2. reuse => old \in Slots /\ con[old] # NoCon /\ con[old].status = "FREE"
               /\ con[old].target = t
  BY ReusableLeast DEF Reusable, Matches
<1>3. h \in Slots \cup {r} /\ h \in Handles
  BY <1>2, UsableLeast DEF Usable, Scanned, Handles
<1>4. h \in Slots => con[h].status # "INUSE"
  BY <1>2, UsableLeast, HandlesApart, NoConIsNone DEF Usable
<1>5. marked \in [Handles -> Con \cup {NoCon}]
      /\ (\A g \in Handles : marked[g] # con[g] => g \in Slots /\ con[g].status = "FREE"
                              /\ reuse /\ g = old /\ marked[g].status = "INUSE"
                              /\ marked[g].target = con[g].target)
      /\ marked[h].target = con[h].target /\ marked[h].type = con[h].type
      /\ marked[h].up = con[h].up /\ marked[h].fd = con[h].fd
  <2>1. CASE ~reuse
    BY <2>1 DEF IInv, ConOK
  <2>2. CASE reuse
    <3>1. con[old] \in Con /\ old \in Handles
      BY <1>2, <2>2 DEF IInv, ConOK, Handles
    <3>2. [con[old] EXCEPT !.status = "INUSE"] \in Con
      BY <3>1 DEF Con
    <3>3. marked = [con EXCEPT ![old] = [con[old] EXCEPT !.status = "INUSE"]]
      BY <2>2 DEF IInv, ConOK
    <3>4. QED
      BY <1>2, <1>3, <2>2, <3>1, <3>2, <3>3 DEF IInv, ConOK, Con
  <2>3. QED
    BY <2>1, <2>2
<1>6. type \in Types /\ label \in Targets \cup {"none"}
  <2>1. con[h] \in Con \cup {NoCon}
    BY <1>3 DEF IInv, ConOK
  <2>2. con[h].type \in Types /\ con[h].target \in Targets \cup {"none"}
    BY <2>1 DEF Con, NoCon, Types
  <2>3. TypeSeen(t) \in Types
    BY TypeSeenTyped DEF IInv
  <2>4. QED
    BY <1>1, <2>2, <2>3 DEF Types
<1>7. con' = [marked EXCEPT ![h] = [status |-> "INUSE", up |-> con[h].up, type |-> type,
                                    target |-> label, fd |-> con[h].fd]]
  BY Zenon DEF Connect
<1>8. /\ con' \in [Handles -> Con \cup {NoCon}]
      /\ \A g \in Handles \ {h} : con'[g] = marked[g]
      /\ con'[h] \in Con /\ con'[h].status = "INUSE" /\ con'[h].target = label
  <2> DEFINE e == [status |-> "INUSE", up |-> con[h].up, type |-> type,
                   target |-> label, fd |-> con[h].fd]
  <2>1. con[h] \in Con \cup {NoCon}
    BY <1>3 DEF IInv, ConOK
  <2>2. con[h].up \in BOOLEAN /\ con[h].fd \in 0 .. MaxFd
    <3>1. NoCon.up \in BOOLEAN
      BY DEF NoCon
    <3>2. NoCon.fd \in 0 .. MaxFd
      BY BoundsAssumption DEF NoCon
    <3>3. \A c \in Con : c.up \in BOOLEAN /\ c.fd \in 0 .. MaxFd
      BY DEF Con
    <3>4. QED
      BY <2>1, <3>1, <3>2, <3>3, Zenon
  <2> HIDE DEF marked, h, type, label
  <2>3. e \in Con /\ e.status = "INUSE" /\ e.target = label
    BY <1>6, <2>2 DEF Con
  <2>4. con' = [marked EXCEPT ![h] = e]
    BY <1>7
  <2> HIDE DEF e
  <2>5. QED
    BY <1>3, <1>5, <2>3, <2>4
<1>9. /\ pc' \in [Requests -> Pcs] /\ ~Busy(r) /\ Busy(r)'
      /\ \A q \in Requests \ {r} : Busy(q)' <=> Busy(q)
      /\ hold' \in [Requests -> Handles \cup {0}] /\ hold'[r] = h
      /\ \A q \in Requests \ {r} : hold'[q] = hold[q]
  <2>1. hold' = [hold EXCEPT ![r] = h]
    BY DEF Connect
  <2>2. pc[r] = "idle" /\ (pc' = [pc EXCEPT ![r] = "send"] \/ pc' = [pc EXCEPT ![r] = "connect"])
    BY DEF Connect, Goes
  <2>3. QED
    BY <1>3, <2>1, <2>2 DEF IInv, PcOK, HoldOK, Busy, Pcs
<1>10. \A q \in Requests : Busy(q) => hold[q] # h
  <2>1. SUFFICES ASSUME NEW q \in Requests, Busy(q), hold[q] = h PROVE FALSE
    OBVIOUS
  <2>2. q # r
    BY <1>9, <2>1
  <2>3. h \in Slots /\ con[h].status = "INUSE"
    BY <1>3, <2>1, <2>2, HandlesApart DEF IInv, Holding
  <2>4. QED
    BY <1>4, <2>3
<1>11. \A g \in Handles \ {h} : con'[g].status = "INUSE" /\ con[g].status # "INUSE"
                                => g \in Slots /\ reuse /\ g = old
  BY <1>5, <1>8
<1>12. \A g \in Handles \ {h} : con[g].status = "INUSE" => con'[g].status = "INUSE"
  BY <1>5, <1>8
<1>13. Holding'
  <2>1. ASSUME NEW q \in Requests, Busy(q)'
        PROVE  hold'[q] \in Slots \cup {q} /\ con'[hold'[q]].status = "INUSE"
    <3>1. CASE q = r
      BY <1>3, <1>8, <1>9, <3>1
    <3>2. CASE q # r
      BY <1>9, <1>10, <1>12, <2>1, <3>2 DEF IInv, Holding, Handles
    <3>3. QED
      BY <3>1, <3>2
  <2>2. QED
    BY <2>1 DEF Holding
<1>14. OneUserPerSlot'
  BY <1>9, <1>10 DEF IInv, OneUserPerSlot
<1>15. ASSUME OneTarget PROVE Used' /\ Filled' /\ Labelled'
  <2>1. reuse => Usable(t) = {} /\ h = old
    BY <1>15, OneTargetScan
  <2>2. Used'
    <3>1. ASSUME NEW n \in Slots, con'[n].status = "INUSE"
          PROVE  \E q \in Requests : Busy(q)' /\ hold'[q] = n
      <4>1. CASE n = h
        BY <1>9, <4>1
      <4>2. CASE n # h
        <5>1. con[n].status = "INUSE"
          BY <1>11, <2>1, <3>1, <4>2 DEF Handles
        <5>2. PICK q \in Requests : Busy(q) /\ hold[q] = n
          BY <1>15, <5>1 DEF IInv, Used
        <5>3. q # r
          BY <1>9, <5>2
        <5>4. QED
          BY <1>9, <5>2, <5>3
      <4>3. QED
        BY <4>1, <4>2
    <3>2. QED
      BY <3>1 DEF Used
  <2>3. \A n \in Slots \ {h} : con'[n] # NoCon <=> con[n] # NoCon
    BY <1>5, <1>8, NoConIsNone DEF Handles
  <2>4. con'[h] # NoCon
    BY <1>8, NoConIsNone
  <2>5. h \in Slots /\ ~reuse => \A m \in Slots : m < h => con[m] # NoCon
    <3>1. ASSUME h \in Slots, ~reuse, NEW m \in Slots, m < h, con[m] = NoCon PROVE FALSE
      <4>1. m \in Usable(t)
        BY <3>1 DEF Usable, Scanned
      <4>2. h = Least(Usable(t)) /\ h <= m
        BY <4>1, <3>1, UsableLeast
      <4>3. QED
        BY <3>1, <4>2, BoundsAssumption DEF Slots
    <3>2. QED
      BY <3>1
  <2>6. Filled'
    <3>1. ASSUME NEW n \in Slots, NEW m \in Slots, m < n, con'[n] # NoCon
          PROVE  con'[m] # NoCon
      <4>1. CASE m = h
        BY <2>4, <4>1
      <4>2. CASE m # h /\ n # h
        BY <1>15, <2>3, <3>1, <4>2 DEF IInv, Filled
      <4>3. CASE m # h /\ n = h /\ reuse
        BY <1>2, <1>15, <2>1, <2>3, <3>1, <4>3 DEF IInv, Filled
      <4>4. CASE m # h /\ n = h /\ ~reuse
        BY <2>3, <2>5, <3>1, <4>4
      <4>5. QED
        BY <4>1, <4>2, <4>3, <4>4
    <3>2. QED
      BY <3>1 DEF Filled
  <2>7. \A q \in Requests : world.want[q] = t
    BY <1>15 DEF OneTarget
  <2>8. label = t
    BY <1>2, <2>1
  <2>9. \A n \in Slots \ {h} : con'[n].target = con[n].target
    BY <1>5, <1>8 DEF Handles
  <2>10. Labelled'
    <3>1. ASSUME NEW n \in Slots, NEW q \in Requests, con'[n] # NoCon
          PROVE  con'[n].target = world'.want[q]
      <4>1. world' = world
        BY DEF Connect, serverVars
      <4>2. CASE n = h
        BY <1>8, <2>7, <2>8, <4>1, <4>2
      <4>3. CASE n # h
        BY <1>15, <2>3, <2>9, <3>1, <4>1, <4>3 DEF IInv, Labelled
      <4>4. QED
        BY <4>2, <4>3
    <3>2. QED
      BY <3>1 DEF Labelled
  <2>11. QED
    BY <2>2, <2>6, <2>10
<1>16. world' = world /\ down' = down
  BY DEF Connect, serverVars
<1>17. QED
  BY <1>8, <1>9, <1>13, <1>14, <1>15, <1>16 DEF IInv, ConOK, PcOK, HoldOK, WorldOK, OneTarget

-----------------------------------------------------------------------------
(* The other steps of a thread.                                            *)

LEMMA HoldsOne ==
    ASSUME IInv, NEW r \in Requests, Busy(r)
    PROVE  /\ hold[r] \in Handles /\ con[hold[r]].status = "INUSE"
           /\ con[hold[r]] \in Con /\ ConOK
<1>1. hold[r] \in Handles /\ con[hold[r]].status = "INUSE" /\ ConOK
  BY DEF IInv, Holding, Handles
<1>2. QED
  BY <1>1, ConTyped, NoConIsNone

LEMMA BusyAt ==
    ASSUME NEW r \in Requests, pc[r] \in InProgress
    PROVE  Busy(r)
BY DEF Busy, InProgress, Pcs

LEMMA ConnectExKeeps ==
    ASSUME IInv, NEW r \in Requests, ConnectEx(r)
    PROVE  IInv'
<1>1. Busy(r) /\ hold' = hold /\ world' = world /\ down' = down
  BY DEF ConnectEx, Busy, serverVars
<1>2. PICK to \in InProgress : pc' = [pc EXCEPT ![r] = to]
  BY DEF ConnectEx, Goes, InProgress, Pcs
<1>3. \E g : Connected(hold[r], g)
  BY DEF ConnectEx
<1>4. PICK g : Connected(hold[r], g)
  BY <1>3
<1>5. QED
  BY <1>1, <1>2, <1>4, HoldsOne, ConnectedCon, QuietKeeps

LEMMA ConnectFailsKeeps ==
    ASSUME IInv, NEW r \in Requests, ConnectFails(r)
    PROVE  IInv'
<1>1. Busy(r) /\ world' = world /\ down' = down
  BY DEF ConnectFails, Busy, serverVars
<1>2. CASE Refused(hold[r], "INUSE") /\ Goes(r, "connect", "connect") /\ hold' = hold
  <2>1. "connect" \in InProgress /\ pc' = [pc EXCEPT ![r] = "connect"]
    BY <1>2 DEF Goes, InProgress, Pcs
  <2>2. /\ con' \in [Handles -> Con \cup {NoCon}]
        /\ \A g \in Handles \ {hold[r]} : con'[g] = con[g]
        /\ con'[hold[r]].status = "INUSE" /\ con'[hold[r]].target = con[hold[r]].target
    BY <1>1, <1>2, HoldsOne, RefusedCon
  <2>3. QED
    BY <1>1, <1>2, <2>1, <2>2, QuietKeeps
<1>3. CASE Refused(hold[r], "FREE") /\ Ends(r, "connect", "error")
  <2>1. /\ con' \in [Handles -> Con \cup {NoCon}]
        /\ \A g \in Handles \ {hold[r]} : con'[g] = con[g]
        /\ con'[hold[r]].status = "FREE" /\ con'[hold[r]].target = con[hold[r]].target
    BY <1>1, <1>3, HoldsOne, RefusedCon
  <2>2. QED
    BY <1>1, <1>3, <2>1, EndingKeeps DEF Ends, Goes
<1>4. QED
  BY <1>2, <1>3 DEF ConnectFails

LEMMA HelloKeeps ==
    ASSUME IInv, NEW r \in Requests, Hello(r)
    PROVE  IInv'
<1>1. Busy(r) /\ hold' = hold /\ world' = world /\ down' = down
  BY DEF Hello, Busy, serverVars
<1>2. PICK to \in InProgress : pc' = [pc EXCEPT ![r] = to]
  BY DEF Hello, Goes, InProgress, Pcs
<1>3. con[hold[r]] \in Con /\ hold[r] \in Handles /\ con \in [Handles -> Con \cup {NoCon}]
  BY <1>1, HoldsOne DEF ConOK
<1>4. \E type \in Types :
         con' = [con EXCEPT ![hold[r]] = [con[hold[r]] EXCEPT !.type = type]]
         \/ con' = [con EXCEPT ![hold[r]] = [con[hold[r]] EXCEPT !.type = type, !.up = FALSE]]
  BY <1>3 DEF Hello, Types
<1>5. \A type \in Types :
         /\ [con[hold[r]] EXCEPT !.type = type] \in Con
         /\ [con[hold[r]] EXCEPT !.type = type, !.up = FALSE] \in Con
         /\ [con[hold[r]] EXCEPT !.type = type].status = con[hold[r]].status
         /\ [con[hold[r]] EXCEPT !.type = type].target = con[hold[r]].target
         /\ [con[hold[r]] EXCEPT !.type = type, !.up = FALSE].status = con[hold[r]].status
         /\ [con[hold[r]] EXCEPT !.type = type, !.up = FALSE].target = con[hold[r]].target
  BY <1>3 DEF Con
<1>6. /\ con' \in [Handles -> Con \cup {NoCon}]
      /\ \A g \in Handles \ {hold[r]} : con'[g] = con[g]
      /\ con'[hold[r]].status = con[hold[r]].status
      /\ con'[hold[r]].target = con[hold[r]].target
  BY <1>3, <1>4, <1>5
<1>7. QED
  BY <1>1, <1>2, <1>6, HoldsOne, QuietKeeps

LEMMA ChildKeeps ==
    ASSUME IInv, NEW r \in Requests,
           ConnectChild(r) \/ ChildRefuses(r) \/ ChildGivesUp(r)
    PROVE  IInv'
<1>1. Busy(r) /\ world' = world /\ down' = down
  BY DEF ConnectChild, ChildRefuses, ChildGivesUp, Goes, Busy, serverVars
<1>2. CASE ConnectChild(r)
  <2>1. "rehello" \in InProgress /\ pc' = [pc EXCEPT ![r] = "rehello"] /\ hold' = hold
    BY <1>2 DEF ConnectChild, Goes, InProgress, Pcs
  <2>2. Connected(hold[r], <<"hello">>)
    BY <1>2 DEF ConnectChild
  <2>3. QED
    BY <1>1, <2>1, <2>2, HoldsOne, ConnectedCon, QuietKeeps
<1>3. CASE ChildRefuses(r)
  <2>1. "child" \in InProgress /\ pc' = [pc EXCEPT ![r] = "child"] /\ hold' = hold
    BY <1>3 DEF ChildRefuses, Goes, InProgress, Pcs
  <2>2. Refused(hold[r], "INUSE")
    BY <1>3 DEF ChildRefuses
  <2>3. /\ con' \in [Handles -> Con \cup {NoCon}]
        /\ \A g \in Handles \ {hold[r]} : con'[g] = con[g]
        /\ con'[hold[r]].status = "INUSE" /\ con'[hold[r]].target = con[hold[r]].target
    BY <1>1, <2>2, HoldsOne, RefusedCon
  <2>4. QED
    BY <1>1, <2>1, <2>3, QuietKeeps
<1>4. CASE ChildGivesUp(r)
  <2>1. pc' = [q \in Requests |-> IF Busy(q) THEN "done" ELSE pc[q]]
        /\ hold' = [q \in Requests |-> 0] /\ NewChild
    BY <1>4 DEF ChildGivesUp
  <2>2. pc' \in [Requests -> Pcs] /\ \A q \in Requests : pc'[q] \in {"idle", "done"}
    BY <2>1 DEF IInv, PcOK, Busy, Pcs
  <2>3. \A q \in Requests : ~Busy(q)'
    BY <2>2 DEF Busy
  <2>4. hold' \in [Requests -> Handles \cup {0}]
    BY <2>1
  <2>5. QED
    BY <1>1, <2>1, <2>2, <2>3, <2>4, NewChildKeeps
<1>5. QED
  BY <1>2, <1>3, <1>4

(* A step that leaves the table alone.                                     *)
LEMMA SameConKeeps ==
    ASSUME IInv, NEW r \in Requests, NEW to \in InProgress, Busy(r),
           pc' = [pc EXCEPT ![r] = to], UNCHANGED <<con, hold, world, down>>
    PROVE  IInv'
<1>1. con' = con /\ con' \in [Handles -> Con \cup {NoCon}]
  BY DEF IInv, ConOK
<1>2. QED
  BY <1>1, HoldsOne, QuietKeeps

LEMMA AddressKeeps ==
    ASSUME IInv, NEW r \in Requests, Address(r)
    PROVE  IInv'
<1>1. pc[r] \in InProgress /\ UNCHANGED <<con, pc, hold, world, down>>
  BY DEF Address, InProgress, Pcs, serverVars
<1>2. pc' = [pc EXCEPT ![r] = pc[r]]
  BY <1>1 DEF IInv, PcOK
<1>3. QED
  BY <1>1, <1>2, BusyAt, SameConKeeps

LEMMA HardEndKeeps ==
    ASSUME IInv, NEW r \in Requests, NEW from, NEW how, Busy(r),
           DisconnectHard(hold[r]) \/ DisconnectSoft(hold[r]), Ends(r, from, how),
           UNCHANGED <<world, down>>
    PROVE  IInv'
<1>1. /\ con' \in [Handles -> Con \cup {NoCon}]
      /\ \A g \in Handles \ {hold[r]} : con'[g] = con[g]
      /\ hold[r] \in Slots => con'[hold[r]].status = "FREE"
                              /\ con'[hold[r]].target = con[hold[r]].target
  BY HoldsOne, HardCon, SoftCon
<1>2. pc' = [pc EXCEPT ![r] = "done"] /\ hold' = [hold EXCEPT ![r] = 0]
  BY DEF Ends, Goes
<1>3. QED
  BY <1>1, <1>2, EndingKeeps

LEMMA RetryKeeps ==
    ASSUME IInv, NEW r \in Requests, pc[r] = "head", Retry(r), UNCHANGED serverVars
    PROVE  IInv'
<1>1. Busy(r) /\ world' = world /\ down' = down
  BY DEF Busy, serverVars
<1>2. CASE DisconnectHard(hold[r]) /\ Ends(r, "head", "none")
  BY <1>1, <1>2, HardEndKeeps
<1>3. CASE con' = [con EXCEPT ![hold[r]].up = FALSE] /\ Goes(r, "head", "connect")
           /\ hold' = hold
  <2>1. [con[hold[r]] EXCEPT !.up = FALSE] \in Con
        /\ [con[hold[r]] EXCEPT !.up = FALSE].status = "INUSE"
        /\ [con[hold[r]] EXCEPT !.up = FALSE].target = con[hold[r]].target
    BY <1>1, HoldsOne DEF Con
  <2>2. con' = [con EXCEPT ![hold[r]] = [con[hold[r]] EXCEPT !.up = FALSE]]
    BY <1>3
  <2>3. /\ con' \in [Handles -> Con \cup {NoCon}]
        /\ \A g \in Handles \ {hold[r]} : con'[g] = con[g]
        /\ con'[hold[r]].status = "INUSE" /\ con'[hold[r]].target = con[hold[r]].target
    BY <1>1, <2>1, <2>2, HoldsOne DEF ConOK
  <2>4. "connect" \in InProgress /\ pc' = [pc EXCEPT ![r] = "connect"]
    BY <1>3 DEF Goes, InProgress, Pcs
  <2>5. QED
    BY <1>1, <1>3, <2>3, <2>4, QuietKeeps
<1>4. QED
  BY <1>2, <1>3 DEF Retry

LEMMA ReadKeeps ==
    ASSUME IInv, NEW r \in Requests,
           Rehello(r) \/ Send(r) \/ ReadHead(r) \/ ReadBody(r) \/ Release(r)
    PROVE  IInv'
<1>1. Busy(r) /\ world' = world /\ down' = down /\ UNCHANGED serverVars
  BY DEF Rehello, Send, ReadHead, ReadBody, Release, Goes, Busy, serverVars
<1>2. CASE UNCHANGED <<con, hold>> /\ \E from : \E to \in InProgress : Goes(r, from, to)
  BY <1>1, <1>2, SameConKeeps DEF Goes
<1>3. CASE pc[r] = "head" /\ Retry(r)
  BY <1>1, <1>3, RetryKeeps
<1>4. CASE \E from, how : /\ DisconnectHard(hold[r]) \/ DisconnectSoft(hold[r])
                          /\ Ends(r, from, how)
  BY <1>1, <1>4, HardEndKeeps
<1>5. CASE Rehello(r)
  BY <1>2, <1>5 DEF Rehello, InProgress, Pcs
<1>6. CASE Send(r)
  BY <1>2, <1>6 DEF Send, InProgress, Pcs
<1>7. CASE ReadHead(r)
  BY <1>2, <1>3, <1>4, <1>7 DEF ReadHead, Reads, InProgress, Pcs
<1>8. CASE ReadBody(r)
  BY <1>2, <1>4, <1>8 DEF ReadBody, Reads, InProgress, Pcs
<1>9. CASE Release(r)
  BY <1>4, <1>9 DEF Release
<1>10. QED
  BY <1>5, <1>6, <1>7, <1>8, <1>9

-----------------------------------------------------------------------------
LEMMA InitIInv ==
    ASSUME Init
    PROVE  IInv
<1>1. ConOK
  BY DEF Init, ConOK
<1>2. PcOK
  BY DEF Init, PcOK, Pcs
<1>3. HoldOK
  BY DEF Init, HoldOK
<1>4. WorldOK
  BY WorldsAssumption DEF Init, WorldOK
<1>5. \A r \in Requests : ~Busy(r)
  BY DEF Init, Busy
<1>6. \A n \in Slots : con[n] = NoCon
  BY DEF Init, Handles
<1>7. Used /\ Filled /\ Labelled
  BY <1>6, NoConIsNone DEF Used, Filled, Labelled
<1>8. QED
  BY <1>1, <1>2, <1>3, <1>4, <1>5, <1>7 DEF Init, IInv, Holding, OneUserPerSlot

LEMMA NextIInv ==
    ASSUME IInv, [Next]_vars
    PROVE  IInv'
<1>1. ASSUME NEW r \in Requests, Thread(r) PROVE IInv'
  BY <1>1, ConnectKeeps, AddressKeeps, ConnectExKeeps, ConnectFailsKeeps, HelloKeeps, ChildKeeps, ReadKeeps
     DEF Thread
<1>2. CASE /\ UNCHANGED <<world, con, pc, hold>>
           /\ \/ down' \subseteq down
              \/ \E t \in Targets : down' = down \cup {t}
  BY <1>2 DEF IInv, ConOK, PcOK, HoldOK, WorldOK, Holding, OneUserPerSlot, Busy, OneTarget,
              Used, Filled, Labelled
<1>3. ASSUME NEW f \in Fds, Server(f) \/ Die(f) PROVE IInv'
  BY <1>2, <1>3 DEF Server, Serve, DaemonServes, QueueCloses, Die, serverVars
<1>4. ASSUME NEW t \in Targets, GoDown(t) \/ ComeBack(t) PROVE IInv'
  BY <1>2, <1>4 DEF GoDown, ComeBack
<1>5. CASE ChildExit
  <2>1. NewChild /\ pc' = pc /\ hold' = hold /\ world' = world /\ down' = down
    BY <1>5 DEF ChildExit, serverVars
  <2>2. \A q \in Requests : ~Busy(q)'
    BY <1>5, <2>1 DEF ChildExit, Busy
  <2>3. QED
    BY <2>1, <2>2, NewChildKeeps DEF IInv, PcOK, HoldOK
<1>6. CASE UNCHANGED vars
  BY <1>2, <1>6 DEF vars
<1>7. QED
  BY <1>1, <1>3, <1>4, <1>5, <1>6 DEF Next, Done

THEOREM Invariance == Spec => []IInv
<1>1. Init => IInv
  BY InitIInv
<1>2. IInv /\ [Next]_vars => IInv'
  BY NextIInv
<1>3. QED
  BY <1>1, <1>2, PTL DEF Spec

(* The table of connections and the states of the requests keep their      *)
(* shape whatever the servers do.                                          *)
THEOREM TypeCorrect == Spec => []TypeOK
<1>1. IInv => TypeOK
  BY DEF IInv, ConOK, PcOK, HoldOK, TypeOK
<1>2. QED
  BY <1>1, Invariance, PTL

(* mgwsi_db_connect never gives a connection to two requests, with any     *)
(* number of targets, threads and pooled connections.                      *)
THEOREM NoSharing == Spec => []OneUserPerSlot
<1>1. IInv => OneUserPerSlot
  BY DEF IInv
<1>2. QED
  BY <1>1, Invariance, PTL

(* No slot of the pool is lost, as long as the child has a single target.  *)
THEOREM NoLostSlot == Spec => [](OneTarget => UsedSlotsHaveUsers)
<1>1. IInv => (OneTarget => UsedSlotsHaveUsers)
  BY DEF IInv, Used, UsedSlotsHaveUsers
<1>2. QED
  BY <1>1, Invariance, PTL

-----------------------------------------------------------------------------
(***************************************************************************)
(* What is under way on a socket.  Nothing, when the connection waits for  *)
(* a request or a request has just been given one.  Else one thing is asked*)
(* (x: the greeting or a request), or what came for it is on its way, and  *)
(* nothing follows the last piece of it.                                   *)
(***************************************************************************)
Pieces == {"seg", "last"}
Parts == Pieces \cup {"pid", "port", "nopid", "refuse", "blank", "error"}
Item == [part : Parts, of : Requests \cup {"none"}, run : Nat]
Asked == Requests \cup {"hello"}
Works == {<<>>} \cup {<<x>> : x \in Asked}
Peers == Targets \cup {"none"}
Jobs == {"none", "base", "child", "queue"}
Sockets == [open : BOOLEAN, peer : Peers, port : Nat, job : Jobs, up : BOOLEAN,
            work : Works, inbox : Seq(Item)]

Quiet(s) == s.inbox = <<>> /\ (s.up => s.work = <<>>)

Waits(s, x) ==
    /\ s.up /\ s.work # <<>> => s.work = <<x>> /\ s.inbox = <<>>
    /\ \A i \in DOMAIN s.inbox : i < Len(s.inbox) => s.inbox[i].part = "seg"

(* The pieces in c are all of run k of request r.                          *)
OfRun(c, r, k) ==
    \A i \in DOMAIN c : c[i].part \in Pieces => c[i].of = r /\ c[i].run = k

(* What the socket s still brings and the answer a that r has so far are of*)
(* one run of r.  An empty head comes before any answer, and nothing after *)
(* it.                                                                     *)
Brings(s, r, a) ==
    /\ s.up /\ s.work # <<>> => a = <<>>
    /\ \E k \in Nat : OfRun(a, r, k) /\ OfRun(s.inbox, r, k)
    /\ \A i \in DOMAIN s.inbox : s.inbox[i].part = "blank" => ~s.up /\ a = <<>> /\ Len(s.inbox) = 1

(* What a request at p has on its socket.                                  *)
Conversation(p, r, s, a) ==
    /\ p \in {"hello", "rehello"} => Waits(s, "hello") /\ Len(s.inbox) <= 1
    /\ p \in {"send", "release"} => Quiet(s)
    /\ p \in {"head", "body"} => Waits(s, r) /\ Brings(s, r, a)

Talking == {"hello", "rehello", "send", "head", "body", "release"}

Complete(a) == a # <<>> => a[Len(a)].part = "last"

OneRun(a, r) ==
    \E k \in Nat : \A i \in DOMAIN a :
        a[i].part \in Pieces /\ a[i].of = r /\ a[i].run = k

(* The answer of r so far, or in the end.                                  *)
Answer(p, r, m) ==
    /\ OneRun(m.answer, r)
    /\ p = "release" => Complete(m.answer)
    /\ m.end = "answered" => p = "done" /\ m.answer # <<>> /\ Complete(m.answer)

(* How often a request at p was sent, and how often, n, it ran.            *)
Tally(p, m, n) ==
    /\ p = "idle" => m = Start
    /\ p # "done" => n <= m.tries
    /\ p \in {"connect", "hello", "child", "rehello", "send"} => m.tries <= 1
    /\ p \in {"hello", "child", "rehello", "send"} =>
          (m.greeted => m.tries = 0 /\ m.sends >= 1)
    /\ p = "connect" => ~m.greeted
    /\ p \in {"head", "body", "release"} =>
          m.tries <= 2 /\ (m.greeted => m.tries <= 1 /\ m.sends >= 2)
    /\ n <= 2 /\ (m.greeted => n <= 1)

Outcomes == {"none", "error", "lost", "cut", "blank", "answered"}

Record == [port : Nat, iter : Nat, tries : Nat, sends : Nat, recvs : Nat, greeted : BOOLEAN,
           answer : Seq(Item), end : Outcomes]
ReqOK == req \in [Requests -> Record]
AddrOK == addr \in [host : Peers, of : Peers, port : Nat]
SockOK == sock \in [Fds -> Sockets]
RanOK == ran \in [Requests -> Seq(Peers)]

(* A connection that is up has an open socket, which waits in step when the*)
(* connection is free.                                                     *)
Owned(h) ==
    con[h].up => /\ con[h].fd \in Fds
                 /\ sock[con[h].fd].open
                 /\ h \in Slots /\ con[h].status = "FREE" => Quiet(sock[con[h].fd])

Distinct ==
    \A h, g \in Handles : h # g /\ con[h].up /\ con[g].up => con[h].fd # con[g].fd

Talks(r) ==
    pc[r] \in Talking => con[hold[r]].up /\ Conversation(pc[r], r, sock[Fd(r)], req[r].answer)

(* A request that is asked of a server is asked by the thread that reads   *)
(* the answer, and has been sent more often than it ran.                   *)
Pending(f, r) ==
    sock[f].up /\ sock[f].work = <<r>> =>
        /\ pc[r] \in {"head", "body"}
        /\ con[hold[r]].up /\ Fd(r) = f
        /\ Len(ran[r]) < req[r].tries

SInv ==
    /\ SockOK /\ ReqOK /\ RanOK
    /\ \A h \in Handles : Owned(h)
    /\ Distinct
    /\ \A r \in Requests : Talks(r) /\ Answer(pc[r], r, req[r]) /\ Tally(pc[r], req[r], Len(ran[r]))
    /\ \A f \in Fds, r \in Requests : Pending(f, r)

Mine(r) ==
    /\ hold[r] \in Handles /\ con[hold[r]].up /\ Fd(r) \in Fds
    /\ con[hold[r]].status = "INUSE"
    /\ sock[Fd(r)] \in Sockets /\ sock[Fd(r)].open /\ At(Fd(r)) = sock[Fd(r)]

-----------------------------------------------------------------------------
(* A request that talks has the socket of its connection to itself.        *)
LEMMA TalkerOwns ==
    ASSUME IInv, SInv, NEW r \in Requests, pc[r] \in Talking
    PROVE  /\ Mine(r)
           /\ \A h \in Handles \ {hold[r]} : con[h].up => con[h].fd # Fd(r)
           /\ \A q \in Requests \ {r} : Busy(q) => hold[q] # hold[r]
           /\ \A q \in Requests \ {r} : ~(sock[Fd(r)].up /\ sock[Fd(r)].work = <<q>>)
<1>1. Busy(r)
  BY DEF Busy, Talking
<1>2. hold[r] \in Handles /\ con[hold[r]].status = "INUSE"
  BY <1>1, HoldsOne
<1>3. con[hold[r]].up
  BY DEF SInv, Talks
<1>4. Fd(r) \in Fds /\ sock[Fd(r)].open
  BY <1>2, <1>3 DEF SInv, Owned, Fd
<1>5. sock[Fd(r)] \in Sockets
  BY <1>4 DEF SInv, SockOK
<1>6. \A h \in Handles \ {hold[r]} : con[h].up => con[h].fd # Fd(r)
  BY <1>2, <1>3 DEF SInv, Distinct, Fd
<1>7. \A q \in Requests \ {r} : Busy(q) => hold[q] # hold[r]
  BY <1>1 DEF IInv, OneUserPerSlot
<1>8. ASSUME NEW q \in Requests \ {r}, sock[Fd(r)].up, sock[Fd(r)].work = <<q>> PROVE FALSE
  <2>1. pc[q] \in {"head", "body"} /\ con[hold[q]].up /\ Fd(q) = Fd(r)
    BY <1>4, <1>8 DEF SInv, Pending
  <2>2. Busy(q)
    BY <2>1 DEF Busy
  <2>3. hold[q] \in Handles
    BY <2>2, HoldsOne
  <2>4. QED
    BY <1>6, <1>7, <2>1, <2>2, <2>3 DEF Fd
<1>9. QED
  BY <1>2, <1>3, <1>4, <1>5, <1>6, <1>7, <1>8 DEF Mine, At

(* A step of r that changes one connection, H, and at most one socket, f,  *)
(* which no other connection has.                                          *)
LEMMA ThreadKeeps ==
    ASSUME IInv, SInv, NEW r \in Requests, NEW f, NEW H \in Handles,
           ran' = ran, SockOK', ReqOK',
           \A q \in Requests \ {r} : pc'[q] = pc[q] /\ hold'[q] = hold[q] /\ req'[q] = req[q],
           \A q \in Requests \ {r} : Busy(q) => hold[q] # H,
           \A h \in Handles \ {H} : con'[h] = con[h] /\ (con[h].up => con[h].fd # f),
           \A g \in Fds \ {f} : sock'[g] = sock[g],
           pc[r] \in {"head", "body"} => Fd(r) = f,
           con'[H].up => con'[H].fd = f \/ (con[H].up /\ con'[H].fd = con[H].fd),
           Owned(H)', Talks(r)', Answer(pc[r], r, req[r])', Tally(pc[r], req[r], Len(ran[r]))',
           \A q \in Requests : f \in Fds => Pending(f, q)'
    PROVE  SInv'
<1>1. RanOK'
  BY DEF SInv, RanOK
<1>2. ASSUME NEW h \in Handles PROVE Owned(h)'
  <2>1. CASE h = H
    BY <2>1
  <2>2. CASE h # H
    <3>1. con'[h] = con[h] /\ (con[h].up => con[h].fd # f)
      BY <2>2
    <3>2. Owned(h)
      BY DEF SInv
    <3>3. QED
      BY <3>1, <3>2 DEF Owned
  <2>3. QED
    BY <2>1, <2>2
<1>3. ASSUME NEW h \in Handles, NEW g \in Handles, h # g, con'[h].up, con'[g].up
      PROVE  con'[h].fd # con'[g].fd
  <2>1. ASSUME NEW x \in Handles, NEW y \in Handles, x # y, con'[x].up, con'[y].up, y # H
        PROVE  con'[x].fd # con'[y].fd
    <3>1. con'[y] = con[y] /\ con[y].fd # f
      BY <2>1
    <3>2. con'[x].fd = f \/ (con[x].up /\ con'[x].fd = con[x].fd)
      BY <2>1
    <3>3. QED
      BY <2>1, <3>1, <3>2 DEF SInv, Distinct
  <2>2. QED
    BY <1>3, <2>1
<1>4. Distinct'
  BY <1>3 DEF Distinct
<1>5. ASSUME NEW q \in Requests
      PROVE  Talks(q)' /\ Answer(pc[q], q, req[q])' /\ Tally(pc[q], req[q], Len(ran[q]))'
  <2>1. CASE q = r
    BY <2>1
  <2>2. CASE q # r
    <3>1. pc'[q] = pc[q] /\ hold'[q] = hold[q] /\ req'[q] = req[q]
      BY <2>2
    <3>2. Talks(q) /\ Answer(pc[q], q, req[q]) /\ Tally(pc[q], req[q], Len(ran[q]))
      BY DEF SInv
    <3>3. ASSUME pc[q] \in Talking
          PROVE  con'[hold[q]] = con[hold[q]] /\ sock'[Fd(q)] = sock[Fd(q)]
      <4>1. Busy(q)
        BY <3>3 DEF Busy, Talking
      <4>2. hold[q] \in Handles \ {H}
        BY <2>2, <4>1, HoldsOne
      <4>3. con[hold[q]].up /\ Fd(q) \in Fds
        BY <3>3, TalkerOwns DEF Mine
      <4>4. QED
        BY <4>2, <4>3 DEF Fd
    <3>4. Talks(q)'
      BY <3>1, <3>2, <3>3 DEF Talks, Fd
    <3>5. QED
      BY <3>1, <3>2, <3>4
  <2>3. QED
    BY <2>1, <2>2
<1>6. ASSUME NEW g \in Fds, NEW q \in Requests PROVE Pending(g, q)'
  <2>1. CASE g = f
    BY <2>1
  <2>2. CASE g # f
    <3>1. SUFFICES ASSUME sock[g].up, sock[g].work = <<q>> PROVE Pending(g, q)'
      BY <2>2 DEF Pending
    <3>2. pc[q] \in {"head", "body"} /\ con[hold[q]].up /\ Fd(q) = g
          /\ Len(ran[q]) < req[q].tries
      BY <3>1 DEF SInv, Pending
    <3>3. q # r
      BY <2>2, <3>2
    <3>4. Busy(q)
      BY <3>2 DEF Busy
    <3>5. hold[q] \in Handles \ {H}
      BY <3>3, <3>4, HoldsOne
    <3>6. con'[hold[q]] = con[hold[q]] /\ hold'[q] = hold[q]
      BY <3>3, <3>5
    <3>7. QED
      BY <3>2, <3>3, <3>6 DEF Pending, Fd
  <2>3. QED
    BY <2>1, <2>2
<1>7. QED
  BY <1>1, <1>2, <1>4, <1>5, <1>6 DEF SInv

(* A step of a request that talks: its socket becomes s and its record m.  *)
LEMMA OwnStepKeeps ==
    ASSUME IInv, SInv, NEW r \in Requests, pc[r] \in Talking,
           NEW H, H = hold[r], NEW f, f = Fd(r), NEW to, NEW s \in Sockets,
           NEW m \in Record, ran' = ran,
           pc' = [pc EXCEPT ![r] = to], req' = [req EXCEPT ![r] = m],
           sock' = [sock EXCEPT ![f] = s],
           \A q \in Requests \ {r} : hold'[q] = hold[q],
           \A h \in Handles \ {H} : con'[h] = con[h],
           con'[H].up => /\ con'[H].fd = f /\ s.open
                         /\ con'[H].status = "FREE" => Quiet(s),
           to \in Talking => hold'[r] = H /\ con'[H].up
                             /\ Conversation(to, r, s, m.answer),
           Answer(to, r, m), Tally(to, m, Len(ran[r])),
           s.up => sock[f].up
                   /\ (s.work = sock[f].work \/ \A q \in Requests \ {r} : s.work # <<q>>),
           s.up /\ s.work = <<r>> => /\ to \in {"head", "body"}
                                     /\ Len(ran[r]) < m.tries
    PROVE  SInv'
<1>1. /\ Mine(r)
      /\ \A h \in Handles \ {H} : con[h].up => con[h].fd # f
      /\ \A q \in Requests \ {r} : Busy(q) => hold[q] # H
      /\ \A q \in Requests \ {r} : ~(sock[f].up /\ sock[f].work = <<q>>)
  BY TalkerOwns
<1>2. H \in Handles /\ f \in Fds
  BY <1>1 DEF Mine
<1>3. sock \in [Fds -> Sockets] /\ pc \in [Requests -> Pcs]
      /\ req \in [Requests -> Record]
  BY DEF SInv, SockOK, IInv, PcOK, ReqOK
<1>4. SockOK' /\ sock'[f] = s /\ ReqOK'
  BY <1>2, <1>3 DEF SockOK, ReqOK
<1>5. pc'[r] = to /\ req'[r] = m
      /\ \A q \in Requests \ {r} : pc'[q] = pc[q] /\ hold'[q] = hold[q] /\ req'[q] = req[q]
  BY <1>3
<1>6. \A g \in Fds \ {f} : sock'[g] = sock[g]
  BY <1>3
<1>7. Owned(H)'
  BY <1>2, <1>4 DEF Owned
<1>8. Talks(r)'
  BY <1>4, <1>5 DEF Talks, Fd
<1>9. Answer(pc[r], r, req[r])' /\ Tally(pc[r], req[r], Len(ran[r]))'
  BY <1>5
<1>10. ASSUME NEW q \in Requests PROVE Pending(f, q)'
  <2>1. CASE q = r
    <3>1. SUFFICES ASSUME s.up, s.work = <<r>> PROVE Pending(f, r)'
      BY <1>4, <2>1 DEF Pending
    <3>2. to \in {"head", "body"} /\ to \in Talking
      BY <3>1 DEF Talking
    <3>3. hold'[r] = H /\ con'[H].up /\ con'[H].fd = f
      BY <3>2
    <3>4. Len(ran[r]) < m.tries
      BY <3>1
    <3>5. QED
      BY <1>5, <3>2, <3>3, <3>4 DEF Pending, Fd
  <2>2. CASE q # r
    BY <1>1, <1>4, <2>2 DEF Pending
  <2>3. QED
    BY <2>1, <2>2
<1>11. \A h \in Handles \ {H} : con'[h] = con[h] /\ (con[h].up => con[h].fd # f)
  BY <1>1
<1>12. con'[H].up => con'[H].fd = f
  OBVIOUS
<1>13. \A q \in Requests \ {r} : Busy(q) => hold[q] # H
  BY <1>1
<1>14. QED
  BY <1>2, <1>4, <1>5, <1>6, <1>7, <1>8, <1>9, <1>10, <1>11, <1>12, <1>13, ThreadKeeps

-----------------------------------------------------------------------------
(* What is read off a socket, and what that leaves.                        *)

Taken(s) == [s EXCEPT !.inbox = Tail(@)]

LEMMA TakenIs ==
    ASSUME NEW s \in Sockets, s.inbox # <<>>
    PROVE  /\ Taken(s) \in Sockets
           /\ Taken(s).open = s.open /\ Taken(s).up = s.up /\ Taken(s).work = s.work
           /\ Taken(s).inbox = Tail(s.inbox)
           /\ Len(s.inbox) \in Nat \ {0} /\ Len(Tail(s.inbox)) = Len(s.inbox) - 1
           /\ s.inbox \in Seq(Item) /\ Tail(s.inbox) \in Seq(Item)
           /\ Head(s.inbox) = s.inbox[1] /\ Head(s.inbox) \in Item
<1>1. s.inbox \in Seq(Item)
  BY DEF Sockets
<1>2. Tail(s.inbox) \in Seq(Item) /\ Head(s.inbox) \in Item /\ Head(s.inbox) = s.inbox[1]
      /\ Len(s.inbox) \in Nat \ {0} /\ Len(Tail(s.inbox)) = Len(s.inbox) - 1
  BY <1>1
<1>3. QED
  BY <1>1, <1>2 DEF Taken, Sockets

LEMMA TailShifts ==
    ASSUME NEW c \in Seq(Item), c # <<>>, NEW i \in DOMAIN Tail(c)
    PROVE  /\ i \in Nat /\ i + 1 \in DOMAIN c /\ Tail(c)[i] = c[i + 1] /\ i + 1 <= Len(c)
           /\ Len(Tail(c)) = Len(c) - 1
BY DEF Item

(* After the one reply to a greeting, or after the last piece, the socket  *)
(* is quiet.                                                               *)
LEMMA TakenWaits ==
    ASSUME NEW s \in Sockets, s.inbox # <<>>, NEW x, Waits(s, x)
    PROVE  /\ Waits(Taken(s), x)
           /\ Len(s.inbox) <= 1 \/ Head(s.inbox).part # "seg" => Quiet(Taken(s))
           /\ ~(s.up /\ s.work # <<>>)
<1>1. ~(s.up /\ s.work # <<>>)
  BY DEF Waits
<1>2. \A i \in DOMAIN Tail(s.inbox) :
         i < Len(Tail(s.inbox)) => Tail(s.inbox)[i].part = "seg"
  <2>1. ASSUME NEW i \in DOMAIN Tail(s.inbox), i < Len(Tail(s.inbox))
        PROVE  Tail(s.inbox)[i].part = "seg"
    <3>1. i + 1 \in DOMAIN s.inbox /\ Tail(s.inbox)[i] = s.inbox[i + 1]
          /\ i + 1 < Len(s.inbox)
      BY <2>1, TakenIs, TailShifts
    <3>2. QED
      BY <3>1 DEF Waits
  <2>2. QED
    BY <2>1
<1>3. Waits(Taken(s), x)
  BY <1>1, <1>2, TakenIs DEF Waits
<1>4. Head(s.inbox).part # "seg" => Len(s.inbox) <= 1
  <2>1. ASSUME 1 < Len(s.inbox) PROVE Head(s.inbox).part = "seg"
    <3>1. 1 \in DOMAIN s.inbox
      BY <2>1, TakenIs
    <3>2. QED
      BY <2>1, <3>1, TakenIs DEF Waits
  <2>2. QED
    BY <2>1, TakenIs
<1>5. Len(s.inbox) <= 1 => Tail(s.inbox) = <<>>
  BY TakenIs
<1>6. QED
  BY <1>1, <1>3, <1>4, <1>5, TakenIs DEF Quiet

LEMMA AppendIs ==
    ASSUME NEW a \in Seq(Item), NEW x \in Item
    PROVE  /\ Append(a, x) \in Seq(Item) /\ Append(a, x) # <<>>
           /\ Append(a, x)[Len(Append(a, x))] = x
           /\ \A i \in DOMAIN Append(a, x) :
                  \/ i \in DOMAIN a /\ Append(a, x)[i] = a[i]
                  \/ Append(a, x)[i] = x
<1>1. Append(a, x) \in Seq(Item) /\ Len(Append(a, x)) = Len(a) + 1
  OBVIOUS
<1>2. Append(a, x)[Len(a) + 1] = x
  OBVIOUS
<1>3. ASSUME NEW i \in DOMAIN Append(a, x)
      PROVE  (i \in DOMAIN a /\ Append(a, x)[i] = a[i]) \/ Append(a, x)[i] = x
  OBVIOUS
<1>4. QED
  BY <1>1, <1>2, <1>3

(* A piece that is read continues the answer.                              *)
LEMMA TakenBrings ==
    ASSUME NEW s \in Sockets, s.inbox # <<>>, NEW r, NEW a \in Seq(Item), Waits(s, r),
           Brings(s, r, a), Head(s.inbox).part \in Pieces,
           \A i \in DOMAIN a : a[i].part \in Pieces
    PROVE  /\ Brings(Taken(s), r, Append(a, Head(s.inbox)))
           /\ OneRun(Append(a, Head(s.inbox)), r)
<1> DEFINE x == Head(s.inbox)
           b == Append(a, x)
<1>1. PICK k \in Nat : OfRun(a, r, k) /\ OfRun(s.inbox, r, k)
  BY DEF Brings
<1>2. x \in Item /\ x = s.inbox[1] /\ 1 \in DOMAIN s.inbox
  BY TakenIs
<1>3. x.of = r /\ x.run = k
  BY <1>1, <1>2 DEF OfRun
<1>4. ASSUME NEW i \in DOMAIN b
      PROVE  b[i].part \in Pieces /\ b[i].of = r /\ b[i].run = k
  BY <1>1, <1>2, <1>3, AppendIs DEF OfRun
<1>5. OfRun(b, r, k)
  BY <1>4 DEF OfRun
<1>6. OfRun(Tail(s.inbox), r, k)
  BY <1>1, TakenIs, TailShifts DEF OfRun
<1>7. ASSUME NEW i \in DOMAIN Tail(s.inbox), Tail(s.inbox)[i].part = "blank" PROVE FALSE
  <2>1. i + 1 \in DOMAIN s.inbox /\ s.inbox[i + 1].part = "blank" /\ i >= 1
    BY <1>7, TakenIs, TailShifts
  <2>2. Len(s.inbox) = 1
    BY <2>1 DEF Brings
  <2>3. QED
    BY <1>7, <2>2, TakenIs
<1>8. ~(s.up /\ s.work # <<>>)
  BY DEF Waits
<1>9. QED
  BY <1>4, <1>5, <1>6, <1>7, <1>8, TakenIs DEF Brings, OneRun

-----------------------------------------------------------------------------
(* The steps of a request that talks.                                      *)

LEMMA ClosedIs == Closed \in Sockets /\ ~Closed.up
<1>1. <<>> \in Seq(Item)
  OBVIOUS
<1>2. QED
  BY <1>1 DEF Closed, Sockets, Works, Peers, Jobs

LEMMA StartIs == Start \in Record
<1>1. <<>> \in Seq(Item)
  OBVIOUS
<1>2. QED
  BY <1>1 DEF Start, Record, Outcomes

LEMMA EndedIs ==
    ASSUME NEW r, req[r] \in Record, NEW how \in Outcomes
    PROVE  /\ Ended(r, how) \in Record /\ Ended(r, how).end = how
           /\ Ended(r, how).answer = req[r].answer
           /\ Ended(r, how).greeted = req[r].greeted
BY StartIs DEF Ended, Start, Record

(* An end other than with an answer keeps what is known of the request.    *)
LEMMA EndKeeps ==
    ASSUME SInv, NEW r \in Requests, NEW how \in Outcomes,
           how = "answered" => req[r].answer # <<>> /\ Complete(req[r].answer)
    PROVE  Answer("done", r, Ended(r, how)) /\ Tally("done", Ended(r, how), Len(ran[r]))
<1>1. req[r] \in Record
  BY DEF SInv, ReqOK
<1>2. Answer(pc[r], r, req[r]) /\ Tally(pc[r], req[r], Len(ran[r]))
  BY DEF SInv
<1>3. QED
  BY <1>1, <1>2, EndedIs DEF Answer, Tally

LEMMA SteadyKeeps ==
    ASSUME IInv, SInv, NEW r \in Requests, pc[r] \in Talking, NEW f, f = Fd(r),
           NEW to \in Talking, NEW s \in Sockets, NEW m \in Record,
           \A h \in Handles \ {hold[r]} : con'[h] = con[h], hold' = hold, ran' = ran,
           con'[hold[r]].up = con[hold[r]].up, con'[hold[r]].fd = con[hold[r]].fd,
           con'[hold[r]].status = con[hold[r]].status,
           pc' = [pc EXCEPT ![r] = to], req' = [req EXCEPT ![r] = m],
           sock' = [sock EXCEPT ![f] = s], s.open = sock[f].open,
           Conversation(to, r, s, m.answer), Answer(to, r, m), Tally(to, m, Len(ran[r])),
           s.up => sock[f].up
                   /\ (s.work = sock[f].work \/ \A q \in Requests \ {r} : s.work # <<q>>),
           s.up /\ s.work = <<r>> => to \in {"head", "body"} /\ Len(ran[r]) < m.tries
    PROVE  SInv'
<1>1. Mine(r)
  BY TalkerOwns
<1>2. PICK H : H = hold[r]
  OBVIOUS
<1>3. con'[H].up /\ con'[H].fd = f /\ s.open /\ con'[H].status = "INUSE"
  BY <1>1, <1>2 DEF Mine, Fd
<1>4. hold'[r] = H /\ \A q \in Requests \ {r} : hold'[q] = hold[q]
  BY <1>2
<1>5. \A h \in Handles \ {H} : con'[h] = con[h]
  BY <1>2
<1>6. QED
  BY <1>2, <1>3, <1>4, <1>5, OwnStepKeeps

LEMMA HardEndTalks ==
    ASSUME IInv, SInv, NEW r \in Requests, pc[r] \in Talking, NEW from,
           NEW how \in Outcomes,
           how = "answered" => req[r].answer # <<>> /\ Complete(req[r].answer),
           DisconnectHard(hold[r]), Ends(r, from, how), ran' = ran
    PROVE  SInv'
<1>1. Mine(r) /\ ConOK
  BY TalkerOwns DEF IInv
<1>2. PICK H, f : H = hold[r] /\ f = Fd(r)
  OBVIOUS
<1>3. sock' = [sock EXCEPT ![f] = Closed]
  BY <1>1, <1>2 DEF DisconnectHard, CloseSocket, Mine, Fd
<1>4. ~con'[H].up /\ \A h \in Handles \ {H} : con'[h] = con[h]
  BY <1>1, <1>2, HardCon DEF Mine
<1>5. hold' = [hold EXCEPT ![r] = 0] /\ pc' = [pc EXCEPT ![r] = "done"]
      /\ req' = [req EXCEPT ![r] = Ended(r, how)]
  BY DEF Ends, Goes
<1>6. \A q \in Requests \ {r} : hold'[q] = hold[q]
  BY <1>5 DEF IInv, HoldOK
<1>7. Ended(r, how) \in Record
  BY EndedIs DEF SInv, ReqOK
<1>8. Answer("done", r, Ended(r, how)) /\ Tally("done", Ended(r, how), Len(ran[r]))
  BY EndKeeps
<1>9. "done" \notin Talking
  BY DEF Talking
<1>10. PICK m : m = Ended(r, how)
  OBVIOUS
<1>11. QED
  BY <1>2, <1>3, <1>4, <1>5, <1>6, <1>7, <1>8, <1>9, <1>10, ClosedIs, OwnStepKeeps

LEMMA ReadyIs ==
    ASSUME SInv, NEW r \in Requests
    PROVE  /\ req[r] \in Record /\ req \in [Requests -> Record]
           /\ req[r].tries \in Nat /\ req[r].sends \in Nat /\ req[r].recvs \in Nat
           /\ req[r].answer \in Seq(Item) /\ ran[r] \in Seq(Peers) /\ Len(ran[r]) \in Nat
           /\ Answer(pc[r], r, req[r]) /\ Tally(pc[r], req[r], Len(ran[r]))
<1>1. req[r] \in Record /\ ran[r] \in Seq(Peers)
  BY DEF SInv, ReqOK, RanOK
<1>2. QED
  BY <1>1 DEF SInv, Record, ReqOK

LEMMA SendTalks ==
    ASSUME IInv, SInv, NEW r \in Requests, Send(r)
    PROVE  SInv'
<1>1. pc[r] = "send" /\ pc[r] \in Talking
  BY DEF Send, Goes, Talking
<1>2. Mine(r) /\ Quiet(sock[Fd(r)])
  BY <1>1, TalkerOwns DEF SInv, Talks, Conversation
<1>3. PICK f : f = Fd(r)
  OBVIOUS
<1> DEFINE s == IF sock[f].up THEN [sock[f] EXCEPT !.work = <<r>>] ELSE sock[f]
           m == [req[r] EXCEPT !.tries = @ + 1, !.sends = @ + 1, !.answer = <<>>]
<1>4. sock[f].up => sock[f].work = <<>>
  BY <1>2, <1>3 DEF Quiet
<1>5. sock \in [Fds -> Sockets] /\ sock[f] \in Sockets /\ f \in Fds
  BY <1>2, <1>3 DEF SInv, SockOK, Mine
<1>6. s \in Sockets /\ s.open = sock[f].open /\ s.up = sock[f].up /\ s.inbox = sock[f].inbox
      /\ (s.up => s.work = <<r>>)
  BY <1>5 DEF Sockets, Works, Asked
<1>7. sock' = [sock EXCEPT ![f] = s]
  <2>1. Append(<<>>, r) = <<r>>
    OBVIOUS
  <2>2. CASE sock[f].up
    BY <1>2, <1>3, <1>4, <1>5, <2>1, <2>2 DEF Send, Mine
  <2>3. CASE ~sock[f].up
    BY <1>2, <1>3, <1>5, <2>3 DEF Send, Mine
  <2>4. QED
    BY <2>2, <2>3
<1>8. m \in Record /\ m.answer = <<>> /\ m.tries = req[r].tries + 1
      /\ m.sends = req[r].sends + 1 /\ m.greeted = req[r].greeted /\ m.end = req[r].end
  <2>1. <<>> \in Seq(Item)
    OBVIOUS
  <2>2. req[r] \in Record /\ req[r].tries + 1 \in Nat /\ req[r].sends + 1 \in Nat
    BY ReadyIs
  <2>3. QED
    BY <2>1, <2>2 DEF Record
<1>9. req' = [req EXCEPT ![r] = m] /\ pc' = [pc EXCEPT ![r] = "head"]
      /\ con' = con /\ hold' = hold /\ ran' = ran
  BY ReadyIs DEF Send, Goes, serverVars
<1>10. Answer("head", r, m)
  <2>1. req[r].end # "answered"
    BY <1>1, ReadyIs DEF Answer
  <2>2. DOMAIN <<>> = {}
    OBVIOUS
  <2>3. QED
    BY <1>8, <2>1, <2>2 DEF Answer, OneRun
<1>11. Tally("head", m, Len(ran[r])) /\ Len(ran[r]) < m.tries
  BY <1>1, <1>8, ReadyIs DEF Tally
<1>12. Conversation("head", r, s, m.answer)
  <2>1. s.inbox = <<>> /\ DOMAIN <<>> = {}
    BY <1>2, <1>3, <1>6 DEF Quiet
  <2>2. Waits(s, r)
    BY <1>6, <2>1 DEF Waits
  <2>3. OfRun(<<>>, r, 0)
    BY <2>1 DEF OfRun
  <2>4. Brings(s, r, <<>>)
    BY <2>1, <2>3 DEF Brings
  <2>5. QED
    BY <1>8, <2>2, <2>4 DEF Conversation
<1> HIDE DEF s, m
<1>13. \A q \in Requests \ {r} : s.up => s.work # <<q>>
  BY <1>6
<1>14. "head" \in Talking
  BY DEF Talking
<1>15. QED
  BY <1>1, <1>3, <1>6, <1>7, <1>8, <1>9, <1>10, <1>11, <1>12, <1>13, <1>14, SteadyKeeps

(* A record that counts one more receive, or has one more piece.           *)
LEMMA GoesOn ==
    ASSUME SInv, NEW r \in Requests, NEW to, NEW m \in Record,
           m.tries = req[r].tries, m.sends = req[r].sends, m.greeted = req[r].greeted,
           \/ pc[r] \in {"hello", "rehello"} /\ to \in {"send", "child"}
           \/ pc[r] \in {"head", "body"} /\ to \in {"head", "body", "release"}
    PROVE  Tally(to, m, Len(ran[r]))
BY ReadyIs DEF Tally

LEMMA CountedIs ==
    ASSUME SInv, NEW r \in Requests, NEW m, m = [req[r] EXCEPT !.recvs = @ + 1]
    PROVE  /\ m \in Record /\ m.tries = req[r].tries /\ m.sends = req[r].sends
           /\ m.greeted = req[r].greeted /\ m.answer = req[r].answer /\ m.end = req[r].end
<1>1. req[r] \in Record /\ req[r].recvs + 1 \in Nat
  BY ReadyIs
<1>2. QED
  BY <1>1 DEF Record

LEMMA AnswerStays ==
    ASSUME NEW p, NEW r, NEW m, NEW n, Answer(p, r, m), n.answer = m.answer, n.end = m.end
    PROVE  Answer(p, r, n)
BY DEF Answer

(* What stands between a reply to the greeting and the next step.          *)
LEMMA Greeted ==
    ASSUME IInv, SInv, NEW r \in Requests, pc[r] \in {"hello", "rehello"}, NEW f, f = Fd(r)
    PROVE  /\ pc[r] \in Talking /\ Mine(r) /\ At(f) = sock[f] /\ sock[f] \in Sockets /\ f \in Fds
           /\ Answer("send", r, req[r]) /\ Answer("child", r, req[r])
           /\ HasInput(f) => /\ Taken(sock[f]) \in Sockets /\ Quiet(Taken(sock[f]))
                             /\ Take(f) = [sock EXCEPT ![f] = Taken(sock[f])]
                             /\ Taken(sock[f]).open = sock[f].open
                             /\ Taken(sock[f]).up = sock[f].up
                             /\ Taken(sock[f]).work = sock[f].work
           /\ Broken(f) => Quiet(sock[f])
           /\ sock = [sock EXCEPT ![f] = sock[f]]
<1>1. pc[r] \in Talking
  BY DEF Talking
<1>2. Mine(r) /\ At(f) = sock[f] /\ sock[f] \in Sockets /\ f \in Fds
  BY <1>1, TalkerOwns DEF Mine
<1>3. Waits(sock[f], "hello") /\ Len(sock[f].inbox) <= 1
  BY <1>1 DEF SInv, Talks, Conversation
<1>4. Answer("send", r, req[r]) /\ Answer("child", r, req[r])
  BY ReadyIs DEF Answer
<1>5. sock \in [Fds -> Sockets]
  BY DEF SInv, SockOK
<1>6. Take(f) = [sock EXCEPT ![f] = Taken(sock[f])]
  BY <1>2, <1>5 DEF Take, Taken
<1>7. HasInput(f) => sock[f].inbox # <<>>
  BY <1>2 DEF HasInput
<1>8. Broken(f) => Quiet(sock[f])
  BY <1>2 DEF Broken, Quiet
<1>9. QED
  BY <1>1, <1>2, <1>3, <1>4, <1>5, <1>6, <1>7, <1>8, TakenIs, TakenWaits

LEMMA QuietSends ==
    ASSUME NEW r, NEW s, NEW a, Quiet(s)
    PROVE  /\ Conversation("send", r, s, a) /\ Conversation("release", r, s, a)
           /\ s.up => \A x : s.work # <<x>>
<1>1. \A x : <<x>> # <<>>
  OBVIOUS
<1>2. QED
  BY <1>1 DEF Conversation, Quiet

LEMMA RehelloTalks ==
    ASSUME IInv, SInv, NEW r \in Requests, Rehello(r)
    PROVE  SInv'
<1>1. pc[r] \in {"hello", "rehello"} /\ "send" \in Talking
  BY DEF Rehello, Goes, Talking
<1>2. PICK f, m : f = Fd(r) /\ m = [req[r] EXCEPT !.recvs = @ + 1]
  OBVIOUS
<1>3. pc' = [pc EXCEPT ![r] = "send"] /\ con' = con /\ hold' = hold /\ ran' = ran
      /\ (HasInput(f) \/ Broken(f))
  BY <1>2 DEF Rehello, Goes, serverVars
<1>4. req' = [req EXCEPT ![r] = m]
  BY <1>2, ReadyIs DEF Rehello, Counts
<1>5. sock' = IF HasInput(f) THEN Take(f) ELSE sock
  BY <1>2 DEF Rehello
<1>6. PICK s \in Sockets : /\ sock' = [sock EXCEPT ![f] = s] /\ Quiet(s)
                           /\ s.open = sock[f].open /\ s.up = sock[f].up
                           /\ s.work = sock[f].work
  BY <1>1, <1>2, <1>3, <1>5, Greeted
<1>7. Conversation("send", r, s, m.answer) /\ (s.up => s.work # <<r>>)
  BY <1>6, QuietSends
<1>8. Answer("send", r, m) /\ Tally("send", m, Len(ran[r]))
  <2>1. Answer("send", r, req[r])
    BY <1>1, <1>2, Greeted
  <2>2. Answer("send", r, m)
    BY <1>2, <2>1, CountedIs, AnswerStays
  <2>3. Tally("send", m, Len(ran[r]))
    BY <1>1, <1>2, CountedIs, GoesOn
  <2>4. QED
    BY <2>2, <2>3
<1>9. pc[r] \in Talking /\ m \in Record
  BY <1>1, <1>2, CountedIs DEF Talking
<1>10. QED
  BY <1>1, <1>2, <1>3, <1>4, <1>6, <1>7, <1>8, <1>9, SteadyKeeps

LEMMA HelloTalks ==
    ASSUME IInv, SInv, NEW r \in Requests, Hello(r)
    PROVE  SInv'
<1>1. pc[r] \in {"hello", "rehello"} /\ "send" \in Talking /\ "child" \notin Talking
  BY DEF Hello, Talking
<1>2. PICK f, H, m : f = Fd(r) /\ H = hold[r] /\ m = [req[r] EXCEPT !.recvs = @ + 1]
  OBVIOUS
<1>3. hold' = hold /\ ran' = ran
  BY DEF Hello, serverVars
<1>4. Mine(r) /\ pc[r] \in Talking /\ m \in Record
  BY <1>1, <1>2, CountedIs, Greeted
<1>5. H \in Handles /\ con[H] \in Con /\ con \in [Handles -> Con \cup {NoCon}]
  BY <1>2, <1>4, ConTyped DEF Mine, IInv, ConOK
<1>6. CASE /\ \E type : con' = [con EXCEPT ![H].type = type]
           /\ HasInput(f) \/ Broken(f)
           /\ sock' = IF HasInput(f) THEN Take(f) ELSE sock
           /\ Goes(r, "hello", "send") /\ Counts(r)
  <2>1. con'[H].up = con[H].up /\ con'[H].fd = con[H].fd /\ con'[H].status = con[H].status
        /\ \A h \in Handles \ {H} : con'[h] = con[h]
    BY <1>5, <1>6 DEF Con
  <2>2. PICK s \in Sockets : /\ sock' = [sock EXCEPT ![f] = s] /\ Quiet(s)
                             /\ s.open = sock[f].open /\ s.up = sock[f].up
                             /\ s.work = sock[f].work
    BY <1>1, <1>2, <1>6, Greeted
  <2>3. Conversation("send", r, s, m.answer) /\ (s.up => s.work # <<r>>)
    BY <2>2, QuietSends
  <2>4. Answer("send", r, m) /\ Tally("send", m, Len(ran[r]))
    <3>1. Answer("send", r, req[r])
      BY <1>1, <1>2, Greeted
    <3>2. Answer("send", r, m)
      BY <1>2, <3>1, CountedIs, AnswerStays
    <3>3. Tally("send", m, Len(ran[r]))
      BY <1>1, <1>2, CountedIs, GoesOn
    <3>4. QED
      BY <3>2, <3>3
  <2>5. req' = [req EXCEPT ![r] = m] /\ pc' = [pc EXCEPT ![r] = "send"]
    BY <1>2, <1>6, ReadyIs DEF Counts, Goes
  <2>6. QED
    BY <1>1, <1>2, <1>3, <1>4, <2>1, <2>2, <2>3, <2>4, <2>5, SteadyKeeps
<1>7. CASE /\ con' = [con EXCEPT ![H].type = "M", ![H].up = FALSE]
           /\ sock' = CloseSocket(f)
           /\ Goes(r, "hello", "child")
           /\ HasInput(f)
           /\ req' = [req EXCEPT ![r].recvs = @ + 1, ![r].iter = 0,
                                 ![r].port = Head(At(f).inbox).run]
  <2>1. ~con'[H].up /\ \A h \in Handles \ {H} : con'[h] = con[h]
    BY <1>5, <1>7 DEF Con
  <2>2. Head(At(f).inbox).run \in Nat
    <3>1. At(f) = sock[f] /\ sock[f] \in Sockets /\ sock[f].inbox # <<>>
      BY <1>1, <1>2, <1>7, Greeted DEF HasInput
    <3>2. QED
      BY <3>1, TakenIs DEF Item
  <2>3. PICK n : n = [m EXCEPT !.iter = 0, !.port = Head(At(f).inbox).run]
    OBVIOUS
  <2>4. n \in Record /\ n.tries = m.tries /\ n.sends = m.sends /\ n.greeted = m.greeted
        /\ n.answer = m.answer /\ n.end = m.end
    BY <1>4, <2>3, <2>2 DEF Record
  <2>5. req' = [req EXCEPT ![r] = n] /\ pc' = [pc EXCEPT ![r] = "child"]
    BY <1>2, <1>7, <2>3, ReadyIs DEF Goes
  <2>6. Answer("child", r, n) /\ Tally("child", n, Len(ran[r]))
    <3>1. Answer("child", r, req[r])
      BY <1>1, <1>2, Greeted
    <3>2. Answer("child", r, n)
      BY <1>2, <2>4, <3>1, CountedIs, AnswerStays
    <3>3. Tally("child", n, Len(ran[r]))
      BY <1>1, <1>2, <2>4, CountedIs, GoesOn
    <3>4. QED
      BY <3>2, <3>3
  <2>7. sock' = [sock EXCEPT ![f] = Closed]
    BY <1>7 DEF CloseSocket
  <2>8. \A q \in Requests \ {r} : hold'[q] = hold[q]
    BY <1>3
  <2>9. QED
    BY <1>1, <1>2, <1>3, <1>4, <2>1, <2>4, <2>5, <2>6, <2>7, <2>8, ClosedIs, OwnStepKeeps
<1>8. QED
  <2> DEFINE says(part) == HasInput(f) /\ Head(At(f).inbox).part = part
  <2>1. \/ /\ says("pid")
           /\ con' = [con EXCEPT ![H].type = "M"]
           /\ sock' = Take(f)
           /\ Goes(r, "hello", "send")
           /\ Counts(r)
        \/ /\ con' = [con EXCEPT ![H].type = "M", ![H].up = FALSE]
           /\ sock' = CloseSocket(f)
           /\ Goes(r, "hello", "child")
           /\ HasInput(f)
           /\ req' = [req EXCEPT ![r].recvs = @ + 1, ![r].iter = 0,
                                 ![r].port = Head(At(f).inbox).run]
        \/ /\ says("nopid") \/ says("refuse") \/ Broken(f)
           /\ con' = [con EXCEPT ![H].type = "GATEWAY"]
           /\ sock' = IF HasInput(f) THEN Take(f) ELSE sock
           /\ Goes(r, "hello", "send")
           /\ Counts(r)
    BY <1>2 DEF Hello
  <2>2. QED
    BY <2>1, <1>6, <1>7

(* What stands on the socket of a request that reads its answer.           *)
LEMMA Reading ==
    ASSUME IInv, SInv, NEW r \in Requests, pc[r] \in {"head", "body"}, NEW f, f = Fd(r)
    PROVE  /\ pc[r] \in Talking /\ Mine(r) /\ At(f) = sock[f] /\ sock[f] \in Sockets /\ f \in Fds
           /\ Waits(sock[f], r) /\ Brings(sock[f], r, req[r].answer)
           /\ \A i \in DOMAIN req[r].answer : req[r].answer[i].part \in Pieces
           /\ req[r].end # "answered"
           /\ sock = [sock EXCEPT ![f] = sock[f]]
           /\ HasInput(f) => /\ sock[f].inbox # <<>>
                             /\ Take(f) = [sock EXCEPT ![f] = Taken(sock[f])]
<1>1. pc[r] \in Talking
  BY DEF Talking
<1>2. Mine(r) /\ At(f) = sock[f] /\ sock[f] \in Sockets /\ f \in Fds
  BY <1>1, TalkerOwns DEF Mine
<1>3. Waits(sock[f], r) /\ Brings(sock[f], r, req[r].answer)
  BY <1>1 DEF SInv, Talks, Conversation
<1>4. Answer(pc[r], r, req[r])
  BY ReadyIs
<1>5. req[r].end # "answered" /\ \A i \in DOMAIN req[r].answer : req[r].answer[i].part \in Pieces
  BY <1>4 DEF Answer, OneRun
<1>6. sock \in [Fds -> Sockets]
  BY DEF SInv, SockOK
<1>7. HasInput(f) => sock[f].inbox # <<>>
  BY <1>2 DEF HasInput
<1>8. QED
  BY <1>1, <1>2, <1>3, <1>5, <1>6, <1>7 DEF Take, Taken

(* A piece of the answer, the last one or not.                             *)
LEMMA ReadsTalks ==
    ASSUME IInv, SInv, NEW r \in Requests, NEW from \in {"head", "body"}, pc[r] = from,
           NEW f, f = Fd(r), HasInput(f), NEW to, NEW item, item = Head(At(f).inbox),
           Reads(r, from, to, item), UNCHANGED serverVars,
           \/ item.part = "seg" /\ to \in {"head", "body"}
           \/ item.part = "last" /\ to = "release"
    PROVE  SInv'
<1> DEFINE s == Taken(sock[f])
           a == req[r].answer
           b == Append(a, item)
           m == [req[r] EXCEPT !.answer = b, !.recvs = @ + 1]
<1>1. pc[r] \in {"head", "body"} /\ to \in Talking /\ to # "done"
  BY DEF Talking
<1>2. /\ pc[r] \in Talking /\ At(f) = sock[f] /\ sock[f] \in Sockets /\ sock[f].inbox # <<>>
      /\ Waits(sock[f], r) /\ Brings(sock[f], r, a)
      /\ \A i \in DOMAIN a : a[i].part \in Pieces
      /\ Take(f) = [sock EXCEPT ![f] = s] /\ req[r].end # "answered"
  BY <1>1, Reading
<1>3. item = Head(sock[f].inbox) /\ item.part \in Pieces /\ item \in Item
  BY <1>2, TakenIs DEF Pieces
<1>4. Brings(s, r, b) /\ OneRun(b, r)
  BY <1>2, <1>3, ReadyIs, TakenBrings
<1>5. /\ s \in Sockets /\ s.open = sock[f].open /\ s.up = sock[f].up /\ s.work = sock[f].work
      /\ Waits(s, r) /\ (item.part # "seg" => Quiet(s)) /\ ~(s.up /\ s.work # <<>>)
  BY <1>2, <1>3, TakenIs, TakenWaits
<1>6. b \in Seq(Item) /\ b # <<>> /\ b[Len(b)] = item
  BY <1>3, ReadyIs, AppendIs
<1>7. m \in Record /\ m.tries = req[r].tries /\ m.sends = req[r].sends
      /\ m.greeted = req[r].greeted /\ m.answer = b /\ m.end = req[r].end
  <2>1. req[r] \in Record /\ req[r].recvs + 1 \in Nat
    BY ReadyIs
  <2> HIDE DEF b
  <2>2. QED
    BY <1>6, <2>1 DEF Record
<1>8. /\ sock' = [sock EXCEPT ![f] = s] /\ pc' = [pc EXCEPT ![r] = to]
      /\ req' = [req EXCEPT ![r] = m] /\ con' = con /\ hold' = hold /\ ran' = ran
  BY <1>2, ReadyIs DEF Reads, Goes, serverVars
<1>9. Complete(b) \/ to # "release"
  BY <1>6 DEF Complete
<1> HIDE DEF s, m, b
<1>10. Answer(to, r, m)
  BY <1>2, <1>4, <1>7, <1>9 DEF Answer
<1>11. Tally(to, m, Len(ran[r]))
  BY <1>1, <1>7, GoesOn
<1>12. Conversation(to, r, s, m.answer)
  BY <1>4, <1>5, <1>7, QuietSends DEF Conversation
<1>13. s.up => s.work # <<r>>
  <2>1. <<r>> # <<>>
    OBVIOUS
  <2>2. QED
    BY <1>5, <2>1
<1>14. QED
  BY <1>1, <1>2, <1>5, <1>7, <1>8, <1>10, <1>11, <1>12, <1>13, SteadyKeeps

(* A connection is only given up for another attempt when it is broken, or *)
(* when the daemon behind it has closed it; nothing is asked on it then.   *)
LEMMA RetryTalks ==
    ASSUME IInv, SInv, NEW r \in Requests, pc[r] = "head", Retry(r), UNCHANGED serverVars,
           ~sock[Fd(r)].up
    PROVE  SInv'
<1>1. pc[r] \in Talking /\ pc[r] \in {"head", "body"} /\ ran' = ran
  BY DEF Talking, serverVars
<1>2. CASE DisconnectHard(hold[r]) /\ Ends(r, "head", "none")
  BY <1>1, <1>2, HardEndTalks DEF Outcomes
<1>3. CASE /\ req[r].tries <= 1 /\ req[r].sends <= 1
           /\ con' = [con EXCEPT ![hold[r]].up = FALSE]
           /\ Goes(r, "head", "connect")
           /\ req' = [req EXCEPT ![r].iter = 0, ![r].recvs = @ + 1]
           /\ UNCHANGED <<hold, sock>>
  <2>1. PICK f, H, m : f = Fd(r) /\ H = hold[r]
                       /\ m = [req[r] EXCEPT !.iter = 0, !.recvs = @ + 1]
    OBVIOUS
  <2>2. Mine(r) /\ sock[f] \in Sockets /\ sock = [sock EXCEPT ![f] = sock[f]]
        /\ req[r].end # "answered"
    BY <1>1, <2>1, Reading
  <2>3. con \in [Handles -> Con \cup {NoCon}] /\ H \in Handles /\ con[H] \in Con
    BY <2>1, <2>2, ConTyped DEF IInv, ConOK, Mine
  <2>4. ~con'[H].up /\ \A h \in Handles \ {H} : con'[h] = con[h]
    BY <1>3, <2>1, <2>3 DEF Con
  <2>5. m \in Record /\ m.tries = req[r].tries /\ m.sends = req[r].sends
        /\ m.greeted = req[r].greeted /\ m.answer = req[r].answer /\ m.end = req[r].end
    <3>1. req[r] \in Record /\ req[r].recvs + 1 \in Nat
      BY ReadyIs
    <3>2. QED
      BY <2>1, <3>1 DEF Record
  <2>6. pc' = [pc EXCEPT ![r] = "connect"] /\ req' = [req EXCEPT ![r] = m]
        /\ sock' = [sock EXCEPT ![f] = sock[f]]
    BY <1>3, <2>1, <2>2, ReadyIs DEF Goes
  <2>7. Tally("connect", m, Len(ran[r]))
    BY <1>1, <1>3, <2>5, ReadyIs DEF Tally
  <2>8. Answer("connect", r, m)
    <3>1. Answer("connect", r, req[r])
      BY <2>2, ReadyIs DEF Answer
    <3>2. QED
      BY <2>5, <3>1, AnswerStays
  <2>9. "connect" \notin Talking /\ ~sock[f].up
    BY <2>1 DEF Talking
  <2>10. \A q \in Requests \ {r} : hold'[q] = hold[q]
    BY <1>3
  <2>11. QED
    BY <1>1, <2>1, <2>2, <2>4, <2>5, <2>6, <2>7, <2>8, <2>9, <2>10, OwnStepKeeps
<1>4. QED
  BY <1>2, <1>3 DEF Retry

LEMMA ReadHeadTalks ==
    ASSUME IInv, SInv, NEW r \in Requests, ReadHead(r)
    PROVE  SInv'
<1>1. pc[r] = "head" /\ pc[r] \in {"head", "body"} /\ UNCHANGED serverVars /\ ran' = ran
      /\ "release" \in Talking
  BY DEF ReadHead, serverVars, Talking
<1>2. PICK f, item : f = Fd(r) /\ item = Head(At(f).inbox)
  OBVIOUS
<1>3. /\ pc[r] \in Talking /\ Mine(r) /\ At(f) = sock[f] /\ sock[f] \in Sockets
      /\ Waits(sock[f], r) /\ Brings(sock[f], r, req[r].answer)
      /\ req[r].end # "answered"
      /\ HasInput(f) => /\ sock[f].inbox # <<>>
                        /\ Take(f) = [sock EXCEPT ![f] = Taken(sock[f])]
  BY <1>1, <1>2, Reading
<1>4. ASSUME HasInput(f), item.part = "blank"
      PROVE  ~sock[f].up /\ req[r].answer = <<>> /\ Quiet(Taken(sock[f]))
  <2>1. item = sock[f].inbox[1] /\ 1 \in DOMAIN sock[f].inbox
    BY <1>2, <1>3, <1>4, TakenIs
  <2>2. ~sock[f].up /\ req[r].answer = <<>> /\ Len(sock[f].inbox) = 1
    BY <1>3, <1>4, <2>1 DEF Brings
  <2>3. sock[f].inbox # <<>> /\ Head(sock[f].inbox).part # "seg"
    BY <1>2, <1>3, <1>4
  <2>4. Quiet(Taken(sock[f]))
    BY <1>3, <2>3, TakenWaits
  <2>5. QED
    BY <2>2, <2>4
<1>5. CASE Retry(r) /\ (Broken(f) \/ (HasInput(f) /\ item.part = "blank"))
  <2>1. ~sock[f].up
    BY <1>3, <1>4, <1>5 DEF Broken
  <2>2. QED
    BY <1>1, <1>2, <1>5, <2>1, RetryTalks
<1>6. CASE /\ HasInput(f) /\ item.part = "blank"
           /\ sock' = Take(f) /\ Goes(r, "head", "release") /\ Counts(r)
           /\ UNCHANGED <<con, hold>>
  <2>1. PICK m, s : m = [req[r] EXCEPT !.recvs = @ + 1] /\ s = Taken(sock[f])
    OBVIOUS
  <2>2. sock' = [sock EXCEPT ![f] = s] /\ pc' = [pc EXCEPT ![r] = "release"]
        /\ req' = [req EXCEPT ![r] = m] /\ con' = con /\ hold' = hold
    BY <1>3, <1>6, <2>1, ReadyIs DEF Goes, Counts
  <2>3. s \in Sockets /\ s.open = sock[f].open /\ s.up = sock[f].up /\ s.work = sock[f].work
        /\ Quiet(s) /\ ~s.up
    BY <1>3, <1>4, <1>6, <2>1, TakenIs
  <2>4. Conversation("release", r, s, m.answer)
    BY <2>3, QuietSends
  <2>5. Answer("release", r, m)
    <3>1. Answer("release", r, req[r])
      BY <1>3, <1>4, <1>6, ReadyIs DEF Answer, Complete
    <3>2. QED
      BY <2>1, <3>1, CountedIs, AnswerStays
  <2>6. m \in Record /\ Tally("release", m, Len(ran[r]))
    BY <1>1, <2>1, CountedIs, GoesOn
  <2>7. QED
    BY <1>1, <1>2, <1>3, <2>2, <2>3, <2>4, <2>5, <2>6, SteadyKeeps
<1>7. CASE HasInput(f) /\ item.part = "error" /\ DisconnectHard(hold[r])
           /\ Ends(r, "head", "error")
  BY <1>1, <1>3, <1>7, HardEndTalks DEF Outcomes
<1>8. CASE HasInput(f) /\ item.part = "seg"
           /\ \E to \in {"head", "body"} : Reads(r, "head", to, item)
  BY <1>1, <1>2, <1>8, ReadsTalks
<1>9. CASE HasInput(f) /\ item.part = "last" /\ Reads(r, "head", "release", item)
  BY <1>1, <1>2, <1>9, ReadsTalks
<1>10. \/ Retry(r) /\ (Broken(f) \/ (HasInput(f) /\ item.part = "blank"))
       \/ /\ HasInput(f) /\ item.part = "blank"
          /\ sock' = Take(f) /\ Goes(r, "head", "release") /\ Counts(r)
          /\ UNCHANGED <<con, hold>>
       \/ HasInput(f) /\ item.part = "error" /\ DisconnectHard(hold[r])
          /\ Ends(r, "head", "error")
       \/ HasInput(f) /\ item.part = "seg"
          /\ \E to \in {"head", "body"} : Reads(r, "head", to, item)
       \/ HasInput(f) /\ item.part = "last" /\ Reads(r, "head", "release", item)
  BY <1>2 DEF ReadHead
<1>11. QED
  BY <1>5, <1>6, <1>7, <1>8, <1>9, <1>10

LEMMA ReadBodyTalks ==
    ASSUME IInv, SInv, NEW r \in Requests, ReadBody(r)
    PROVE  SInv'
<1>1. pc[r] = "body" /\ pc[r] \in Talking /\ UNCHANGED serverVars /\ ran' = ran
  BY DEF ReadBody, serverVars, Talking
<1>2. PICK f, item : f = Fd(r) /\ item = Head(At(f).inbox)
  OBVIOUS
<1>3. CASE DisconnectHard(hold[r]) /\ Ends(r, "body", "cut")
  BY <1>1, <1>3, HardEndTalks DEF Outcomes
<1>4. CASE HasInput(f) /\ item.part = "seg" /\ Reads(r, "body", "body", item)
  BY <1>1, <1>2, <1>4, ReadsTalks
<1>5. CASE HasInput(f) /\ item.part = "last" /\ Reads(r, "body", "release", item)
  BY <1>1, <1>2, <1>5, ReadsTalks
<1>6. QED
  BY <1>2, <1>3, <1>4, <1>5 DEF ReadBody

(* A connection that goes back to the pool is quiet.                       *)
LEMMA ReleaseTalks ==
    ASSUME IInv, SInv, NEW r \in Requests, Release(r)
    PROVE  SInv'
<1>1. pc[r] = "release" /\ pc[r] \in Talking /\ ran' = ran
  BY DEF Release, serverVars, Talking
<1>2. PICK H, f, how : H = hold[r] /\ f = Fd(r)
                       /\ how = IF req[r].answer = <<>> THEN "blank" ELSE "answered"
  OBVIOUS
<1>3. Mine(r) /\ Quiet(sock[f]) /\ Complete(req[r].answer)
  BY <1>1, <1>2, TalkerOwns, ReadyIs DEF SInv, Talks, Conversation, Answer
<1>4. Ends(r, "release", how) /\ DisconnectSoft(H)
  BY <1>2 DEF Release
<1>5. how \in Outcomes /\ (how = "answered" => req[r].answer # <<>> /\ Complete(req[r].answer))
  BY <1>2, <1>3 DEF Outcomes
<1>6. CASE H \notin Slots
  BY <1>1, <1>2, <1>4, <1>5, <1>6, HardEndTalks DEF DisconnectSoft
<1>7. CASE H \in Slots
  <2>1. con' = [con EXCEPT ![H].status = "FREE"] /\ sock' = sock
    BY <1>4, <1>7 DEF DisconnectSoft
  <2>2. con \in [Handles -> Con \cup {NoCon}] /\ H \in Handles /\ con[H] \in Con
    BY <1>2, <1>3, ConTyped DEF IInv, ConOK, Mine
  <2>3. con'[H].fd = con[H].fd /\ \A h \in Handles \ {H} : con'[h] = con[h]
    BY <2>1, <2>2 DEF Con
  <2>4. sock[f] \in Sockets /\ sock[f].open /\ f \in Fds /\ con[H].fd = f
        /\ sock' = [sock EXCEPT ![f] = sock[f]]
    BY <1>2, <1>3, <2>1 DEF Mine, Fd, SInv, SockOK
  <2>5. PICK m : m = Ended(r, how)
    OBVIOUS
  <2>6. m \in Record /\ Answer("done", r, m) /\ Tally("done", m, Len(ran[r]))
    BY <1>5, <2>5, ReadyIs, EndedIs, EndKeeps
  <2>7. hold' = [hold EXCEPT ![r] = 0] /\ pc' = [pc EXCEPT ![r] = "done"]
        /\ req' = [req EXCEPT ![r] = m]
    BY <1>4, <2>5 DEF Ends, Goes
  <2>8. \A q \in Requests \ {r} : hold'[q] = hold[q]
    BY <2>7 DEF IInv, HoldOK
  <2>9. "done" \notin Talking /\ (sock[f].up => sock[f].work # <<r>>)
    BY <1>3, QuietSends DEF Talking
  <2>10. QED
    BY <1>1, <1>2, <1>3, <2>3, <2>4, <2>6, <2>7, <2>8, <2>9, OwnStepKeeps
<1>8. QED
  BY <1>6, <1>7

-----------------------------------------------------------------------------
(* Taking a connection, and connecting it.                                 *)

LEMMA NewSocketKeeps ==
    ASSUME IInv, SInv, NEW r \in Requests, pc[r] \in {"connect", "child"},
           NEW H, H = hold[r], NEW f, f = NewFd, NEW to, NEW s \in Sockets, NEW m \in Record,
           ran' = ran, pc' = [pc EXCEPT ![r] = to], req' = [req EXCEPT ![r] = m],
           sock' = IF FreeFds = {} THEN sock ELSE [sock EXCEPT ![f] = s],
           \A q \in Requests \ {r} : hold'[q] = hold[q],
           \A h \in Handles \ {H} : con'[h] = con[h],
           con'[H].up => /\ FreeFds # {} /\ s.open
                         /\ con'[H].fd = f /\ con'[H].status = "INUSE",
           s.up => s.work = <<>> \/ s.work = <<"hello">>,
           to \in Talking => hold'[r] = H /\ con'[H].up
                             /\ Conversation(to, r, s, m.answer),
           Answer(to, r, m), Tally(to, m, Len(ran[r]))
    PROVE  SInv'
<1>1. Busy(r) /\ pc[r] \notin {"head", "body"}
  BY DEF Busy
<1>2. H \in Handles
  BY <1>1, HoldsOne
<1>3. /\ FreeFds # {} => f \in Fds /\ ~sock[f].open
      /\ FreeFds = {} => f = 0
  BY NewFdTyped DEF FreeFds, NewFd
<1>4. 0 \notin Fds
  BY DEF Fds
<1>5. sock \in [Fds -> Sockets] /\ pc \in [Requests -> Pcs] /\ req \in [Requests -> Record]
  BY DEF SInv, SockOK, IInv, PcOK, ReqOK
<1>6. SockOK' /\ ReqOK' /\ (FreeFds # {} => sock'[f] = s)
  BY <1>3, <1>5 DEF SockOK, ReqOK
<1>7. pc'[r] = to /\ req'[r] = m
      /\ \A q \in Requests \ {r} : pc'[q] = pc[q] /\ hold'[q] = hold[q] /\ req'[q] = req[q]
  BY <1>5
<1>8. \A g \in Fds \ {f} : sock'[g] = sock[g]
  BY <1>5
<1>9. \A h \in Handles \ {H} : con'[h] = con[h] /\ (con[h].up => con[h].fd # f)
  <2>1. \A h \in Handles : con[h].up => con[h].fd \in Fds /\ sock[con[h].fd].open
    BY DEF SInv, Owned
  <2>2. QED
    BY <1>3, <1>4, <2>1
<1>10. \A q \in Requests \ {r} : Busy(q) => hold[q] # H
  BY <1>1 DEF IInv, OneUserPerSlot
<1>11. Owned(H)'
  BY <1>2, <1>3, <1>6 DEF Owned
<1>12. Talks(r)'
  BY <1>6, <1>7 DEF Talks, Fd
<1>13. Answer(pc[r], r, req[r])' /\ Tally(pc[r], req[r], Len(ran[r]))'
  BY <1>7
<1>14. ASSUME f \in Fds, NEW q \in Requests PROVE Pending(f, q)'
  <2>1. FreeFds # {}
    BY <1>3, <1>4, <1>14
  <2>2. <<q>> # <<>> /\ <<q>> # <<"hello">>
    BY RequestsAssumption
  <2>3. QED
    BY <1>6, <2>1, <2>2 DEF Pending
<1>15. con'[H].up => con'[H].fd = f
  OBVIOUS
<1>16. QED
  BY <1>1, <1>2, <1>6, <1>7, <1>8, <1>9, <1>10, <1>11, <1>12, <1>13, <1>14, <1>15, ThreadKeeps

LEMMA LeftOpenIs == LeftOpen \in Sockets /\ LeftOpen.open /\ ~LeftOpen.up /\ LeftOpen.inbox = <<>>
BY ClosedIs DEF LeftOpen, Sockets, Closed

(* Wherever srv_addr points, the new socket has nothing but the greeting on*)
(* it.                                                                     *)
LEMMA LinesAre ==
    ASSUME AddrOK, NEW greeting \in {<<>>, <<"hello">>}, NEW s \in Lines(greeting)
    PROVE  s \in Sockets /\ s.open /\ s.inbox = <<>> /\ (s.up => s.work = greeting)
<1>1. <<>> \in Seq(Item) /\ greeting \in Works
  BY DEF Works, Asked
<1>2. addr.host \in Peers /\ addr.port \in Nat /\ 0 \in Nat
  BY DEF AddrOK
<1>3. ASSUME NEW port \in Nat, NEW job \in Jobs, s = Reaches(addr.host, port, job, greeting)
      PROVE  s \in Sockets /\ s.open /\ s.inbox = <<>> /\ s.work = greeting
  BY <1>1, <1>2, <1>3 DEF Reaches, Sockets
<1>4. \/ s = LeftOpen
      \/ \E port \in Nat, job \in Jobs : s = Reaches(addr.host, port, job, greeting)
  BY <1>2 DEF Lines, Jobs
<1>5. QED
  BY <1>3, <1>4, LeftOpenIs

(* A connection that was just made: the greeting is asked on it, or nothing*)
LEMMA FreshTalks ==
    ASSUME NEW r, NEW s, s.inbox = <<>>, NEW a
    PROVE  /\ (s.up => s.work = <<>>) => Conversation("send", r, s, a)
           /\ (s.up => s.work = <<"hello">>) => Conversation("hello", r, s, a)
                                                /\ Conversation("rehello", r, s, a)
<1>1. DOMAIN <<>> = {} /\ Len(<<>>) = 0
  OBVIOUS
<1>2. QED
  BY <1>1 DEF Conversation, Quiet, Waits

LEMMA ConnectExTalks ==
    ASSUME IInv, SInv, AddrOK, NEW r \in Requests, ConnectEx(r)
    PROVE  SInv'
<1>1. pc[r] = "connect" /\ pc[r] \in {"connect", "child"} /\ hold' = hold /\ ran' = ran
      /\ Busy(r)
  BY DEF ConnectEx, serverVars, Busy
<1>2. PICK H, f : H = hold[r] /\ f = NewFd
  OBVIOUS
<1>3. Answer(pc[r], r, req[r]) /\ Tally(pc[r], req[r], Len(ran[r])) /\ req[r] \in Record
      /\ req[r].end # "answered" /\ ~req[r].greeted
  BY <1>1, ReadyIs DEF Answer, Tally
<1>4. ASSUME NEW greeting \in {<<>>, <<"hello">>}, Connected(H, greeting),
             NEW to, greeting = <<>> => to = "send", greeting = <<"hello">> => to = "hello",
             Goes(r, "connect", to), NEW m \in Record, req' = [req EXCEPT ![r] = m],
             m.answer = req[r].answer, m.end = req[r].end, Tally(to, m, Len(ran[r]))
      PROVE  SInv'
  <2>1. PICK s \in Lines(greeting) : sock' = [sock EXCEPT ![f] = s]
    BY <1>2, <1>4 DEF Connected
  <2>2. s \in Sockets /\ s.open /\ s.inbox = <<>> /\ (s.up => s.work = greeting)
    BY LinesAre
  <2>3. FreeFds # {} /\ sock' = [sock EXCEPT ![f] = s]
    BY <1>4, <2>1 DEF Connected
  <2>4. /\ \A h \in Handles \ {H} : con'[h] = con[h]
        /\ con'[H].up /\ con'[H].fd = f /\ con'[H].status = "INUSE"
    <3>1. ConOK /\ H \in Handles /\ con[H].status = "INUSE" /\ con[H] \in Con
      BY <1>1, <1>2, HoldsOne
    <3>2. con'[H] = [con[H] EXCEPT !.up = TRUE, !.fd = NewFd]
          /\ \A h \in Handles \ {H} : con'[h] = con[h]
      BY <1>4, <3>1, ConnectedCon
    <3>3. QED
      BY <1>2, <3>1, <3>2 DEF Con
  <2>5. Answer(to, r, m)
    <3>1. Answer(to, r, req[r])
      BY <1>3, <1>4 DEF Answer
    <3>2. QED
      BY <1>4, <3>1, AnswerStays
  <2>6. Conversation(to, r, s, m.answer)
    BY <1>4, <2>2, FreshTalks
  <2>7. pc' = [pc EXCEPT ![r] = to] /\ hold'[r] = H
        /\ \A q \in Requests \ {r} : hold'[q] = hold[q]
    BY <1>1, <1>2, <1>4 DEF Goes
  <2>8. QED
    BY <1>1, <1>2, <1>4, <2>2, <2>3, <2>4, <2>5, <2>6, <2>7, NewSocketKeeps
<1>5. CASE /\ Connected(H, <<>>)
           /\ Goes(r, "connect", "send") /\ UNCHANGED req
  <2>1. Tally("send", req[r], Len(ran[r]))
    BY <1>1, <1>3 DEF Tally
  <2>2. req' = [req EXCEPT ![r] = req[r]]
    BY <1>5, ReadyIs
  <2>3. <<>> # <<"hello">>
    OBVIOUS
  <2>4. QED
    BY <1>3, <1>4, <1>5, <2>1, <2>2, <2>3
<1>6. CASE /\ Connected(H, <<"hello">>)
           /\ Goes(r, "connect", "hello")
           /\ req' = [req EXCEPT ![r].sends = @ + 1,
                                 ![r].greeted = @ \/ req[r].tries = 0]
  <2>1. PICK m : m = [req[r] EXCEPT !.sends = @ + 1, !.greeted = @ \/ req[r].tries = 0]
    OBVIOUS
  <2>2. req' = [req EXCEPT ![r] = m]
    BY <1>6, <2>1, ReadyIs
  <2>3. m \in Record /\ m.answer = req[r].answer /\ m.end = req[r].end
        /\ m.tries = req[r].tries /\ m.sends = req[r].sends + 1
        /\ m.greeted = (req[r].greeted \/ req[r].tries = 0)
    <3>1. req[r].sends + 1 \in Nat /\ (req[r].greeted \/ req[r].tries = 0) \in BOOLEAN
      BY ReadyIs
    <3>2. QED
      BY <1>3, <2>1, <3>1 DEF Record
  <2>4. Tally("hello", m, Len(ran[r]))
    <3>1. m.greeted => req[r].tries = 0
      BY <1>3, <2>3, Zenon
    <3>2. m.tries = req[r].tries /\ m.sends >= 1
      BY <2>3, ReadyIs
    <3>3. Tally("connect", req[r], Len(ran[r]))
      BY <1>1, <1>3
    <3>4. QED
      BY <3>1, <3>2, <3>3, ReadyIs DEF Tally
  <2>5. <<>> # <<"hello">>
    OBVIOUS
  <2>6. QED
    BY <1>4, <1>6, <2>2, <2>3, <2>4, <2>5
<1>7. QED
  BY <1>2, <1>5, <1>6 DEF ConnectEx

(* A connection that is refused leaves an open socket that no one has.     *)
LEMMA RefusedKeeps ==
    ASSUME IInv, SInv, NEW r \in Requests, pc[r] \in {"connect", "child"},
           NEW status \in {"FREE", "INUSE"}, Refused(hold[r], status),
           NEW to, to \notin Talking, NEW m \in Record, ran' = ran,
           pc' = [pc EXCEPT ![r] = to], req' = [req EXCEPT ![r] = m],
           \A q \in Requests \ {r} : hold'[q] = hold[q],
           Answer(to, r, m), Tally(to, m, Len(ran[r]))
    PROVE  SInv'
<1>1. Busy(r)
  BY DEF Busy
<1>2. PICK H, f, s : H = hold[r] /\ f = NewFd /\ s = LeftOpen
  OBVIOUS
<1>3. sock' = IF FreeFds = {} THEN sock ELSE [sock EXCEPT ![f] = s]
  BY <1>2 DEF Refused
<1>4. ~con'[H].up /\ \A h \in Handles \ {H} : con'[h] = con[h]
  BY <1>1, <1>2, HoldsOne, RefusedCon
<1>5. s \in Sockets /\ ~s.up
  BY <1>2, LeftOpenIs
<1>6. QED
  BY <1>2, <1>3, <1>4, <1>5, NewSocketKeeps

LEMMA ConnectFailsTalks ==
    ASSUME IInv, SInv, NEW r \in Requests, ConnectFails(r)
    PROVE  SInv'
<1>1. pc[r] = "connect" /\ pc[r] \in {"connect", "child"} /\ ran' = ran
      /\ "connect" \notin Talking /\ "done" \notin Talking
  BY DEF ConnectFails, serverVars, Talking
<1>2. CASE /\ Refused(hold[r], "INUSE") /\ Goes(r, "connect", "connect")
           /\ req' = [req EXCEPT ![r].iter = 1] /\ UNCHANGED hold
  <2>1. PICK m : m = [req[r] EXCEPT !.iter = 1]
    OBVIOUS
  <2>2. m \in Record /\ m.tries = req[r].tries /\ m.sends = req[r].sends
        /\ m.greeted = req[r].greeted /\ m.answer = req[r].answer /\ m.end = req[r].end
    BY <2>1, ReadyIs DEF Record
  <2>3. Answer("connect", r, m)
    BY <1>1, <2>2, ReadyIs, AnswerStays
  <2>4. Tally("connect", m, Len(ran[r]))
    BY <1>1, <2>2, ReadyIs DEF Tally
  <2>5. req' = [req EXCEPT ![r] = m] /\ pc' = [pc EXCEPT ![r] = "connect"]
        /\ \A q \in Requests \ {r} : hold'[q] = hold[q]
    BY <1>2, <2>1, ReadyIs DEF Goes
  <2>6. QED
    BY <1>1, <1>2, <2>2, <2>3, <2>4, <2>5, RefusedKeeps
<1>3. CASE Refused(hold[r], "FREE") /\ Ends(r, "connect", "error")
  <2>1. PICK m : m = Ended(r, "error")
    OBVIOUS
  <2>2. "error" \in Outcomes
    BY DEF Outcomes
  <2>3. m \in Record /\ Answer("done", r, m) /\ Tally("done", m, Len(ran[r]))
    BY <2>1, <2>2, ReadyIs, EndedIs, EndKeeps
  <2>4. hold' = [hold EXCEPT ![r] = 0] /\ pc' = [pc EXCEPT ![r] = "done"]
        /\ req' = [req EXCEPT ![r] = m]
    BY <1>3, <2>1 DEF Ends, Goes
  <2>5. \A q \in Requests \ {r} : hold'[q] = hold[q]
    BY <2>4 DEF IInv, HoldOK
  <2>6. QED
    BY <1>1, <1>3, <2>3, <2>4, <2>5, RefusedKeeps
<1>4. QED
  BY <1>2, <1>3 DEF ConnectFails

LEMMA ConnectChildTalks ==
    ASSUME IInv, SInv, AddrOK, NEW r \in Requests, ConnectChild(r)
    PROVE  SInv'
<1>1. pc[r] = "child" /\ pc[r] \in {"connect", "child"} /\ hold' = hold /\ ran' = ran
      /\ Busy(r)
  BY DEF ConnectChild, Goes, serverVars, Busy
<1>2. PICK H, f, m : H = hold[r] /\ f = NewFd /\ m = [req[r] EXCEPT !.sends = @ + 1]
  OBVIOUS
<1>3. Connected(H, <<"hello">>)
  BY <1>2 DEF ConnectChild
<1>4. PICK s \in Lines(<<"hello">>) : FreeFds # {} /\ sock' = [sock EXCEPT ![f] = s]
  BY <1>2, <1>3 DEF Connected
<1>5. s \in Sockets /\ s.open /\ s.inbox = <<>> /\ (s.up => s.work = <<"hello">>)
  BY LinesAre
<1>6. /\ \A h \in Handles \ {H} : con'[h] = con[h]
      /\ con'[H].up /\ con'[H].fd = f /\ con'[H].status = "INUSE"
  <2>1. ConOK /\ H \in Handles /\ con[H].status = "INUSE" /\ con[H] \in Con
    BY <1>1, <1>2, HoldsOne
  <2>2. con'[H] = [con[H] EXCEPT !.up = TRUE, !.fd = NewFd]
        /\ \A h \in Handles \ {H} : con'[h] = con[h]
    BY <1>3, <2>1, ConnectedCon
  <2>3. QED
    BY <1>2, <2>1, <2>2 DEF Con
<1>7. m \in Record /\ m.tries = req[r].tries /\ m.sends = req[r].sends + 1
      /\ m.greeted = req[r].greeted /\ m.answer = req[r].answer /\ m.end = req[r].end
  <2>1. req[r] \in Record /\ req[r].sends + 1 \in Nat
    BY ReadyIs
  <2>2. QED
    BY <1>2, <2>1 DEF Record
<1>8. Answer("rehello", r, m)
  <2>1. Answer("rehello", r, req[r])
    BY <1>1, ReadyIs DEF Answer
  <2>2. QED
    BY <1>7, <2>1, AnswerStays
<1>9. Tally("rehello", m, Len(ran[r]))
  BY <1>1, <1>7, ReadyIs DEF Tally
<1>10. Conversation("rehello", r, s, m.answer)
  BY <1>5, FreshTalks
<1>11. pc' = [pc EXCEPT ![r] = "rehello"] /\ req' = [req EXCEPT ![r] = m] /\ hold'[r] = H
       /\ \A q \in Requests \ {r} : hold'[q] = hold[q]
  BY <1>1, <1>2, ReadyIs DEF ConnectChild, Goes
<1>12. /\ sock' = IF FreeFds = {} THEN sock ELSE [sock EXCEPT ![f] = s]
       /\ s.up => s.work = <<>> \/ s.work = <<"hello">>
       /\ H = hold[r] /\ f = NewFd
  BY <1>2, <1>4, <1>5
<1>13. PICK to : to = "rehello"
  OBVIOUS
<1>14. /\ Answer(to, r, m) /\ Tally(to, m, Len(ran[r])) /\ Conversation(to, r, s, m.answer)
       /\ pc' = [pc EXCEPT ![r] = to]
  BY <1>8, <1>9, <1>10, <1>11, <1>13
<1>15. /\ con'[H].up => FreeFds # {} /\ s.open /\ con'[H].fd = f /\ con'[H].status = "INUSE"
       /\ to \in Talking => hold'[r] = H /\ con'[H].up /\ Conversation(to, r, s, m.answer)
  BY <1>4, <1>5, <1>6, <1>11, <1>14
<1>16. req' = [req EXCEPT ![r] = m] /\ \A q \in Requests \ {r} : hold'[q] = hold[q]
  BY <1>11
<1>17. (\A h \in Handles \ {H} : con'[h] = con[h]) /\ m \in Record /\ s \in Sockets
  BY <1>5, <1>6, <1>7
<1>18. QED
  BY <1>1, <1>12, <1>14, <1>15, <1>16, <1>17, NewSocketKeeps

LEMMA ChildRefusesTalks ==
    ASSUME IInv, SInv, NEW r \in Requests, ChildRefuses(r)
    PROVE  SInv'
<1>1. pc[r] = "child" /\ pc[r] \in {"connect", "child"} /\ hold' = hold /\ ran' = ran
      /\ "child" \notin Talking /\ Refused(hold[r], "INUSE")
      /\ "INUSE" \in {"FREE", "INUSE"}
  BY DEF ChildRefuses, Goes, serverVars, Talking
<1>2. PICK m : m = [req[r] EXCEPT !.iter = @ + 1]
  OBVIOUS
<1>3. m \in Record /\ m.tries = req[r].tries /\ m.sends = req[r].sends
      /\ m.greeted = req[r].greeted /\ m.answer = req[r].answer /\ m.end = req[r].end
  <2>1. req[r] \in Record /\ req[r].iter + 1 \in Nat
    BY ReadyIs DEF Record
  <2>2. QED
    BY <1>2, <2>1 DEF Record
<1>4. Answer("child", r, m)
  BY <1>1, <1>3, ReadyIs, AnswerStays
<1>5. Tally("child", m, Len(ran[r]))
  BY <1>1, <1>3, ReadyIs DEF Tally
<1>6. pc' = [pc EXCEPT ![r] = "child"] /\ req' = [req EXCEPT ![r] = m]
  BY <1>2, ReadyIs DEF ChildRefuses, Goes
<1>7. \A q \in Requests \ {r} : hold'[q] = hold[q]
  BY <1>1
<1>8. QED
  BY <1>1, <1>3, <1>4, <1>5, <1>6, <1>7, RefusedKeeps

(* A new Apache child has no connections and no sockets.                   *)
LEMMA NewChildTalks ==
    ASSUME IInv, SInv, NewChild, ran' = ran, ReqOK',
           \A q \in Requests : ~Busy(q)',
           \A q \in Requests : Answer(pc[q], q, req[q])' /\ Tally(pc[q], req[q], Len(ran[q]))'
    PROVE  SInv'
<1>1. \A h \in Handles : con'[h] = NoCon /\ ~con'[h].up
  BY DEF NewChild, NoCon
<1>2. SockOK' /\ \A f \in Fds : ~sock'[f].up
  BY ClosedIs DEF NewChild, SockOK
<1>3. \A h \in Handles : Owned(h)'
  BY <1>1 DEF Owned
<1>4. Distinct'
  BY <1>1 DEF Distinct
<1>5. \A q \in Requests : Talks(q)'
  BY DEF Talks, Busy, Talking
<1>6. \A f \in Fds, q \in Requests : Pending(f, q)'
  BY <1>2 DEF Pending
<1>7. RanOK'
  BY DEF SInv, RanOK
<1>8. QED
  BY <1>2, <1>3, <1>4, <1>5, <1>6, <1>7 DEF SInv

LEMMA ChildGivesUpTalks ==
    ASSUME IInv, SInv, NEW r \in Requests, ChildGivesUp(r)
    PROVE  SInv'
<1>1. /\ NewChild /\ ran' = ran
      /\ pc' = [q \in Requests |-> IF Busy(q) THEN "done" ELSE pc[q]]
      /\ req' = [q \in Requests |-> IF Busy(q) THEN Ended(q, "lost") ELSE req[q]]
  BY DEF ChildGivesUp, serverVars
<1>2. "lost" \in Outcomes
  BY DEF Outcomes
<1>3. ASSUME NEW q \in Requests
      PROVE  /\ ~Busy(q)' /\ req'[q] \in Record
             /\ Answer(pc[q], q, req[q])' /\ Tally(pc[q], req[q], Len(ran[q]))'
  <2>1. CASE Busy(q)
    <3>1. pc'[q] = "done" /\ req'[q] = Ended(q, "lost")
      BY <1>1, <2>1
    <3>2. Ended(q, "lost") \in Record
      BY <1>2, ReadyIs, EndedIs
    <3>3. Answer("done", q, Ended(q, "lost")) /\ Tally("done", Ended(q, "lost"), Len(ran[q]))
      BY <1>2, EndKeeps
    <3>4. QED
      BY <1>1, <3>1, <3>2, <3>3 DEF Busy
  <2>2. CASE ~Busy(q)
    <3>1. pc'[q] = pc[q] /\ req'[q] = req[q]
      BY <1>1, <2>2
    <3>2. QED
      BY <1>1, <2>2, <3>1, ReadyIs DEF Busy
  <2>3. QED
    BY <2>1, <2>2
<1>4. ReqOK'
  BY <1>1, <1>3 DEF ReqOK
<1>5. QED
  BY <1>1, <1>3, <1>4, NewChildTalks

LEMMA ChildExitTalks ==
    ASSUME IInv, SInv, ChildExit
    PROVE  SInv'
<1>1. NewChild /\ ran' = ran /\ pc' = pc /\ req' = req
  BY DEF ChildExit, serverVars
<1>2. \A q \in Requests : ~Busy(q)'
  BY <1>1 DEF ChildExit, Busy
<1>3. \A q \in Requests : Answer(pc[q], q, req[q])' /\ Tally(pc[q], req[q], Len(ran[q]))'
  BY <1>1, ReadyIs
<1>4. ReqOK'
  BY <1>1 DEF SInv, ReqOK
<1>5. QED
  BY <1>1, <1>2, <1>3, <1>4, NewChildTalks

(* What mgwsi_db_connect does with one target: the slot that is to be      *)
(* reused is the one the request gets.                                     *)
LEMMA ConnectIs ==
    ASSUME IInv, OneTarget, NEW r \in Requests, Connect(r)
    PROVE  \E h \in Handles :
             /\ hold' = [hold EXCEPT ![r] = h]
             /\ \A g \in Handles \ {h} : con'[g] = con[g]
             /\ con'[h].up = con[h].up /\ con'[h].fd = con[h].fd /\ con'[h].status = "INUSE"
             /\ \A q \in Requests \ {r} : Busy(q) => hold[q] # h
             /\ \/ pc' = [pc EXCEPT ![r] = "connect"]
                \/ /\ pc' = [pc EXCEPT ![r] = "send"]
                   /\ con[h].up /\ h \in Slots /\ con[h].status = "FREE"
<1> DEFINE t == world.want[r]
           reuse == Reusable(t) # {}
           old == Least(Reusable(t))
           new == IF Usable(t) # {} THEN Least(Usable(t)) ELSE r
           h == IF Usable(t) = {} /\ reuse THEN old ELSE new
           marked == IF reuse THEN [con EXCEPT ![old].status = "INUSE"] ELSE con
           ready == reuse /\ con[old].up
           type == IF ~ready THEN TypeSeen(t) ELSE IF h = old THEN con[h].type ELSE "DUNNO"
           label == IF ready THEN con[h].target ELSE t
           made == [status |-> "INUSE", up |-> con[h].up, type |-> type,
                    target |-> label, fd |-> con[h].fd]
<1>1. /\ pc' = [pc EXCEPT ![r] = IF ready THEN "send" ELSE "connect"]
      /\ hold' = [hold EXCEPT ![r] = h]
      /\ con' = [marked EXCEPT ![h] = made]
  BY Zenon DEF Connect, Goes
<1>2. reuse => old \in Slots /\ con[old].status = "FREE" /\ h = old
  <2>1. reuse => Usable(t) = {}
    BY OneTargetScan
  <2>2. QED
    BY <2>1, ReusableLeast DEF Reusable
<1>3. h \in Slots \cup {r} /\ h \in Handles
  BY <1>2, UsableLeast DEF Usable, Scanned, Handles
<1>4. h \in Slots => con[h].status # "INUSE"
  BY <1>2, UsableLeast, HandlesApart, NoConIsNone DEF Usable
<1>5. \A q \in Requests \ {r} : Busy(q) => hold[q] # h
  BY <1>3, <1>4, HandlesApart DEF IInv, Holding
<1>6. marked \in [Handles -> Con \cup {NoCon}] /\ \A g \in Handles \ {h} : marked[g] = con[g]
  <2>1. con \in [Handles -> Con \cup {NoCon}]
    BY DEF IInv, ConOK
  <2>2. CASE ~reuse
    BY <2>1, <2>2
  <2>3. CASE reuse
    <3>1. con[old] \in Con /\ old = h /\ old \in Handles
      BY <1>2, <1>3, <2>3, ConTyped DEF IInv
    <3>2. [con[old] EXCEPT !.status = "INUSE"] \in Con
      BY <3>1 DEF Con
    <3>3. marked = [con EXCEPT ![old] = [con[old] EXCEPT !.status = "INUSE"]]
      BY <2>1, <2>3
    <3>4. QED
      BY <2>1, <3>1, <3>2, <3>3
  <2>4. QED
    BY <2>2, <2>3
<1>7. made.up = con[h].up /\ made.fd = con[h].fd /\ made.status = "INUSE"
  OBVIOUS
<1>8. ready => con[h].up /\ h \in Slots /\ con[h].status = "FREE"
  BY <1>2
<1>9. pc' = [pc EXCEPT ![r] = "connect"]
      \/ (pc' = [pc EXCEPT ![r] = "send"] /\ con[h].up /\ h \in Slots /\ con[h].status = "FREE")
  BY <1>1, <1>8
<1> HIDE DEF marked, made, h
<1>10. con'[h] = made /\ \A g \in Handles \ {h} : con'[g] = con[g]
  BY <1>1, <1>3, <1>6
<1>11. QED
  BY <1>1, <1>3, <1>5, <1>7, <1>9, <1>10

LEMMA ConnectTalks ==
    ASSUME IInv, SInv, OneTarget, NEW r \in Requests, Connect(r)
    PROVE  SInv'
<1>1. pc[r] = "idle" /\ pc[r] \notin {"head", "body"} /\ req' = req /\ sock' = sock
      /\ ran' = ran
  BY DEF Connect, Goes, serverVars
<1>2. PICK h \in Handles :
             /\ hold' = [hold EXCEPT ![r] = h]
             /\ \A g \in Handles \ {h} : con'[g] = con[g]
             /\ con'[h].up = con[h].up /\ con'[h].fd = con[h].fd /\ con'[h].status = "INUSE"
             /\ \A q \in Requests \ {r} : Busy(q) => hold[q] # h
             /\ \/ pc' = [pc EXCEPT ![r] = "connect"]
                \/ /\ pc' = [pc EXCEPT ![r] = "send"]
                   /\ con[h].up /\ h \in Slots /\ con[h].status = "FREE"
  BY ConnectIs
<1>3. SockOK' /\ ReqOK'
  BY <1>1 DEF SInv, SockOK, ReqOK
<1>4. /\ hold'[r] = h
      /\ \A q \in Requests \ {r} : pc'[q] = pc[q] /\ hold'[q] = hold[q] /\ req'[q] = req[q]
  BY <1>1, <1>2 DEF IInv, PcOK, HoldOK
<1>5. pc'[r] = "connect" \/ (pc'[r] = "send" /\ con[h].up /\ h \in Slots /\ con[h].status = "FREE")
  BY <1>2 DEF IInv, PcOK
<1>6. 0 \notin Fds
  BY DEF Fds
<1>7. \A g \in Handles : Owned(g)
  BY DEF SInv
<1>8. \A g \in Handles \ {h} : con'[g] = con[g] /\ (con[g].up => con[g].fd # 0)
  BY <1>2, <1>6, <1>7 DEF Owned
<1>9. Owned(h)'
  BY <1>1, <1>2, <1>7 DEF Owned
<1>10. Answer(pc[r], r, req[r])' /\ Tally(pc[r], req[r], Len(ran[r]))'
  <2>1. req[r] = Start /\ Answer(pc[r], r, req[r]) /\ Tally(pc[r], req[r], Len(ran[r]))
    BY <1>1, ReadyIs DEF Tally
  <2>2. Start.tries = 0 /\ ~Start.greeted /\ Start.end = "none"
    BY DEF Start
  <2>3. pc'[r] \in {"connect", "send"}
    BY <1>5
  <2>4. Tally(pc'[r], req[r], Len(ran[r]))
    BY <1>1, <2>1, <2>2, <2>3, ReadyIs DEF Tally
  <2>5. Answer(pc'[r], r, req[r])
    BY <2>1, <2>2, <2>3 DEF Answer
  <2>6. QED
    BY <1>1, <2>4, <2>5
<1>11. Talks(r)'
  <2>1. CASE pc'[r] = "connect"
    BY <2>1 DEF Talks, Talking
  <2>2. CASE pc'[r] = "send" /\ con[h].up /\ h \in Slots /\ con[h].status = "FREE"
    <3>1. Quiet(sock[con[h].fd])
      BY <1>7, <2>2 DEF Owned
    <3>2. Conversation("send", r, sock[con[h].fd], req[r].answer)
      BY <3>1, QuietSends
    <3>3. QED
      BY <1>1, <1>2, <1>4, <2>2, <3>2 DEF Talks, Fd
  <2>3. QED
    BY <1>5, <2>1, <2>2
<1>12. con'[h].up => con'[h].fd = 0 \/ (con[h].up /\ con'[h].fd = con[h].fd)
  BY <1>2
<1>13. (\A q \in Requests \ {r} : Busy(q) => hold[q] # h) /\ \A g \in Fds \ {0} : sock'[g] = sock[g]
  BY <1>1, <1>2
<1>14. QED
  BY <1>1, <1>3, <1>4, <1>6, <1>8, <1>9, <1>10, <1>11, <1>12, <1>13, ThreadKeeps

-----------------------------------------------------------------------------
(* The servers.  Moves(s, u): what a server does to a socket, s before and *)
(* u after, keeps every conversation on it as it should be.                *)

Moves(s, u) ==
    /\ u.open = s.open /\ (u.up => s.up)
    /\ u.up /\ u.work # <<>> => u.work = s.work
    /\ Quiet(s) => Quiet(u)
    /\ \A x \in Asked : Waits(s, x) => Waits(u, x)
    /\ Waits(s, "hello") /\ Len(s.inbox) <= 1 => Len(u.inbox) <= 1
    /\ \A r \in Requests, a \in Seq(Item) : Waits(s, r) /\ Brings(s, r, a) => Brings(u, r, a)

LEMMA StillMoves ==
    ASSUME NEW s
    PROVE  Moves(s, s)
BY DEF Moves

(* The other end goes away; a first part of what it wrote arrives.         *)
LEMMA CutMoves ==
    ASSUME NEW s \in Sockets, NEW n \in 0 .. Len(s.inbox), NEW u,
           u = [s EXCEPT !.up = FALSE, !.inbox = SubSeq(s.inbox, 1, n)]
    PROVE  u \in Sockets /\ Moves(s, u) /\ ~u.up
<1> DEFINE c == s.inbox
           d == SubSeq(c, 1, n)
<1>1. c \in Seq(Item) /\ n \in Nat /\ n <= Len(c) /\ Len(c) \in Nat
  BY DEF Sockets
<1>2. d \in Seq(Item) /\ Len(d) = n /\ \A i \in DOMAIN d : i \in DOMAIN c /\ d[i] = c[i]
  BY <1>1
<1>3. u \in Sockets /\ ~u.up /\ u.open = s.open /\ u.work = s.work /\ u.inbox = d
  BY <1>2 DEF Sockets
<1>4. Quiet(s) => Quiet(u)
  <2>1. c = <<>> => n = 0
    BY <1>1
  <2>2. c = <<>> => d = <<>>
    BY <1>2, <2>1
  <2>3. QED
    BY <1>3, <2>2 DEF Quiet
<1>5. ASSUME NEW x \in Asked, Waits(s, x) PROVE Waits(u, x)
  <2>1. \A i \in DOMAIN d : i < n => d[i].part = "seg"
    <3>1. ASSUME NEW i \in DOMAIN d, i < n PROVE d[i].part = "seg"
      <4>1. i \in DOMAIN c /\ d[i] = c[i] /\ i < Len(c)
        BY <1>1, <1>2, <3>1
      <4>2. QED
        BY <1>5, <4>1 DEF Waits
    <3>2. QED
      BY <3>1
  <2>2. QED
    BY <1>2, <1>3, <2>1 DEF Waits
<1>6. Len(c) <= 1 => Len(d) <= 1
  BY <1>1, <1>2
<1>7. ASSUME NEW r \in Requests, NEW a \in Seq(Item), Waits(s, r), Brings(s, r, a)
      PROVE  Brings(u, r, a)
  <2>1. PICK k \in Nat : OfRun(a, r, k) /\ OfRun(c, r, k)
    BY <1>7 DEF Brings
  <2>2. OfRun(d, r, k)
    BY <1>2, <2>1 DEF OfRun
  <2>3. ASSUME NEW i \in DOMAIN d, d[i].part = "blank"
        PROVE  a = <<>> /\ Len(d) = 1
    <3>1. i \in DOMAIN c /\ c[i].part = "blank" /\ i \in 1 .. n
      BY <1>2, <2>3
    <3>2. a = <<>> /\ Len(c) = 1
      BY <1>7, <3>1 DEF Brings
    <3>3. QED
      BY <1>1, <1>2, <3>1, <3>2
  <2>4. QED
    BY <1>3, <2>1, <2>2, <2>3 DEF Brings
<1>8. QED
  BY <1>3, <1>4, <1>5, <1>6, <1>7 DEF Moves

LEMMA ResetMoves ==
    ASSUME NEW s \in Sockets, NEW u, u = [s EXCEPT !.up = FALSE]
    PROVE  u \in Sockets /\ Moves(s, u) /\ ~u.up
<1>1. s.inbox \in Seq(Item) /\ Len(s.inbox) \in 0 .. Len(s.inbox)
  BY DEF Sockets
<1>2. SubSeq(s.inbox, 1, Len(s.inbox)) = s.inbox
  BY <1>1
<1>3. u = [s EXCEPT !.up = FALSE, !.inbox = SubSeq(s.inbox, 1, Len(s.inbox))]
  BY <1>2 DEF Sockets
<1>4. QED
  BY <1>1, <1>3, CutMoves

(* The daemon answers a greeting, or anything else with an empty head, and *)
(* closes.                                                                 *)
LEMMA DaemonMoves ==
    ASSUME NEW s \in Sockets, s.up, s.work # <<>>, NEW part \in {"port", "refuse", "blank"}, NEW port \in Nat,
           NEW u, u = [s EXCEPT !.inbox = <<Reply(part, port)>>, !.up = FALSE]
    PROVE  u \in Sockets /\ Moves(s, u) /\ ~u.up
<1>1. Reply(part, port) \in Item /\ Reply(part, port).part = part /\ part \notin Pieces
  BY DEF Reply, Item, Parts, Pieces
<1> DEFINE d == <<Reply(part, port)>>
<1>2. d \in Seq(Item) /\ Len(d) = 1 /\ DOMAIN d = {1} /\ d[1] = Reply(part, port)
  BY <1>1
<1> HIDE DEF d
<1>3. u = [s EXCEPT !.inbox = d, !.up = FALSE]
  BY DEF d
<1>4. u \in Sockets /\ ~u.up /\ u.open = s.open /\ u.work = s.work /\ u.inbox = d
  BY <1>2, <1>3 DEF Sockets
<1>5. ~Quiet(s)
  BY DEF Quiet
<1>6. ASSUME NEW x PROVE Waits(u, x)
  BY <1>2, <1>4 DEF Waits
<1>7. ASSUME NEW r, NEW a, Waits(s, r), Brings(s, r, a) PROVE Brings(u, r, a)
  <2>1. a = <<>>
    BY <1>7 DEF Brings
  <2>2. OfRun(d, r, 0)
    BY <1>1, <1>2 DEF OfRun
  <2>3. OfRun(<<>>, r, 0)
    BY DEF OfRun
  <2>4. QED
    BY <1>2, <1>4, <2>1, <2>2, <2>3 DEF Brings
<1>8. QED
  BY <1>2, <1>4, <1>5, <1>6, <1>7 DEF Moves

(* A job takes what it is asked and writes what is in c.                   *)
LEMMA PutsMoves ==
    ASSUME NEW s \in Sockets, s.up, NEW x \in Asked, s.work = <<x>>, NEW c \in Seq(Item),
           \A i \in DOMAIN c : i < Len(c) => c[i].part = "seg",
           x = "hello" => Len(c) <= 1,
           NEW k \in Nat, x # "hello" => OfRun(c, x, k),
           \A i \in DOMAIN c : c[i].part # "blank",
           NEW u, u = [s EXCEPT !.work = Tail(s.work), !.inbox = s.inbox \o c]
    PROVE  u \in Sockets /\ Moves(s, u) /\ u.work = <<>>
<1>1. s.work # <<>> /\ Tail(s.work) = <<>>
  OBVIOUS
<1>2. s.inbox \in Seq(Item) /\ s.inbox \o c \in Seq(Item)
  BY DEF Sockets
<1>3. u \in Sockets /\ u.work = <<>> /\ u.open = s.open /\ u.up = s.up
      /\ u.inbox = s.inbox \o c
  BY <1>1, <1>2 DEF Sockets, Works
<1>4. ~Quiet(s)
  BY <1>1 DEF Quiet
<1>5. <<>> \o c = c
  OBVIOUS
<1>6. ASSUME NEW y, Waits(s, y) PROVE y = x /\ u.inbox = c
  <2>1. s.work = <<y>> /\ s.inbox = <<>>
    BY <1>1, <1>6 DEF Waits
  <2>2. QED
    BY <1>3, <1>5, <2>1
<1>7. ASSUME NEW y \in Asked, Waits(s, y) PROVE Waits(u, y)
  BY <1>3, <1>6, <1>7 DEF Waits
<1>8. Waits(s, "hello") => Len(u.inbox) <= 1
  BY <1>6
<1>9. ASSUME NEW r \in Requests, NEW a \in Seq(Item), Waits(s, r), Brings(s, r, a)
      PROVE  Brings(u, r, a)
  <2>1. r = x /\ u.inbox = c /\ a = <<>>
    BY <1>1, <1>6, <1>9 DEF Brings
  <2>2. OfRun(<<>>, r, k)
    BY DEF OfRun
  <2>3. OfRun(c, r, k)
    BY <2>1, RequestsAssumption
  <2>4. QED
    BY <1>3, <2>1, <2>2, <2>3 DEF Brings
<1>10. QED
  BY <1>3, <1>4, <1>7, <1>8, <1>9 DEF Moves

(* Steps of the servers.  A request that is run (n: how often it ran after *)
(* the step) is no longer asked for.                                       *)
LEMMA ServersKeep ==
    ASSUME IInv, SInv, UNCHANGED <<con, pc, hold, req>>, SockOK', RanOK',
           \A f \in Fds : Moves(sock[f], sock'[f]),
           \A r \in Requests :
              \/ ran'[r] = ran[r]
              \/ /\ Len(ran'[r]) = Len(ran[r]) + 1
                 /\ \E f \in Fds : /\ sock[f].up /\ sock[f].work = <<r>>
                                   /\ sock'[f].work = <<>>
    PROVE  SInv'
<1>1. ASSUME NEW h \in Handles PROVE Owned(h)'
  <2>1. Owned(h)
    BY DEF SInv
  <2>2. QED
    BY <2>1 DEF Owned, Moves
<1>2. Distinct'
  BY DEF SInv, Distinct
<1>3. ASSUME NEW r \in Requests PROVE Talks(r)'
  <2>1. SUFFICES ASSUME pc[r] \in Talking PROVE Talks(r)'
    BY DEF Talks
  <2>2. PICK f : f = Fd(r)
    OBVIOUS
  <2>3. con[hold[r]].up /\ f \in Fds /\ Conversation(pc[r], r, sock[f], req[r].answer)
    BY <2>1, <2>2, TalkerOwns DEF Mine, SInv, Talks
  <2>4. Moves(sock[f], sock'[f]) /\ req[r].answer \in Seq(Item)
    BY <2>3, ReadyIs
  <2>5. r \in Asked /\ "hello" \in Asked
    BY DEF Asked
  <2>6. Conversation(pc[r], r, sock'[f], req[r].answer)
    BY <2>3, <2>4, <2>5 DEF Conversation, Moves
  <2>7. QED
    BY <2>2, <2>3, <2>6 DEF Talks, Fd
<1>4. ASSUME NEW r \in Requests PROVE Tally(pc[r], req[r], Len(ran[r]))'
  <2>1. CASE ran'[r] = ran[r]
    BY <2>1, ReadyIs
  <2>2. CASE /\ Len(ran'[r]) = Len(ran[r]) + 1
             /\ \E f \in Fds : sock[f].up /\ sock[f].work = <<r>>
    <3>1. PICK f \in Fds : sock[f].up /\ sock[f].work = <<r>>
      BY <2>2
    <3>2. pc[r] \in {"head", "body"} /\ Len(ran[r]) < req[r].tries
      BY <3>1 DEF SInv, Pending
    <3>3. Tally(pc[r], req[r], Len(ran[r]) + 1)
      BY <3>2, ReadyIs DEF Tally
    <3>4. QED
      BY <2>2, <3>3
  <2>3. QED
    BY <2>1, <2>2
<1>5. ASSUME NEW f \in Fds, NEW r \in Requests PROVE Pending(f, r)'
  <2>1. SUFFICES ASSUME sock'[f].up, sock'[f].work = <<r>> PROVE Pending(f, r)'
    BY DEF Pending
  <2>2. sock[f].up /\ sock[f].work = <<r>>
    <3>1. <<r>> # <<>>
      OBVIOUS
    <3>2. QED
      BY <2>1, <3>1 DEF Moves
  <2>3. pc[r] \in {"head", "body"} /\ con[hold[r]].up /\ Fd(r) = f /\ Len(ran[r]) < req[r].tries
    BY <2>2 DEF SInv, Pending
  <2>4. ran'[r] = ran[r]
    <3>1. ASSUME NEW g \in Fds, sock[g].up, sock[g].work = <<r>>, sock'[g].work = <<>>
          PROVE  FALSE
      <4>1. Fd(r) = g
        BY <3>1 DEF SInv, Pending
      <4>2. g = f /\ <<r>> # <<>>
        BY <2>3, <4>1
      <4>3. QED
        BY <2>1, <3>1, <4>2
    <3>2. QED
      BY <3>1
  <2>5. QED
    BY <2>3, <2>4 DEF Pending, Fd
<1>6. ReqOK' /\ \A r \in Requests : Answer(pc[r], r, req[r])'
  BY ReadyIs DEF SInv, ReqOK
<1>7. QED
  BY <1>1, <1>2, <1>3, <1>4, <1>5, <1>6 DEF SInv

(* One socket moves and nothing is run.                                    *)
LEMMA OneMoves ==
    ASSUME IInv, SInv, NEW f \in Fds, NEW u \in Sockets, Moves(sock[f], u),
           sock' = [sock EXCEPT ![f] = u], UNCHANGED <<con, pc, hold, req, ran>>
    PROVE  SInv'
<1>1. sock \in [Fds -> Sockets]
  BY DEF SInv, SockOK
<1>2. SockOK' /\ RanOK'
  BY <1>1 DEF SInv, SockOK, RanOK
<1>3. ASSUME NEW g \in Fds PROVE Moves(sock[g], sock'[g])
  BY <1>1, StillMoves
<1>4. QED
  BY <1>2, <1>3, ServersKeep

LEMMA DieTalks ==
    ASSUME IInv, SInv, NEW f \in Fds, Die(f)
    PROVE  SInv'
<1>1. UNCHANGED <<con, pc, hold, req, ran>>
  BY DEF Die
<1>2. sock \in [Fds -> Sockets] /\ sock[f] \in Sockets
  BY DEF SInv, SockOK
<1>3. PICK n \in 0 .. Len(sock[f].inbox) :
         sock' = [sock EXCEPT ![f].up = FALSE, ![f].inbox = SubSeq(@, 1, n)]
  BY DEF Die
<1>4. PICK u : u = [sock[f] EXCEPT !.up = FALSE, !.inbox = SubSeq(sock[f].inbox, 1, n)]
  OBVIOUS
<1>5. sock' = [sock EXCEPT ![f] = u]
  BY <1>2, <1>3, <1>4
<1>6. u \in Sockets /\ Moves(sock[f], u)
  BY <1>2, <1>4, CutMoves
<1>7. QED
  BY <1>1, <1>5, <1>6, OneMoves

LEMMA SaysReply ==
    ASSUME NEW t, NEW x, NEW say \in Says(t, x)
    PROVE  \E part \in {"port", "refuse", "blank"}, port \in Nat : say.reply = Reply(part, port)
<1>1. FreePorts(t) # {} => Least(FreePorts(t)) \in Nat
  <2>1. FreePorts(t) \subseteq Nat
    BY BoundsAssumption DEF FreePorts
  <2>2. QED
    BY <2>1, LeastIsIn
<1>2. QED
  BY <1>1 DEF Says

(* A child job that halts closes its port on the one that waits there.     *)
LEMMA QueueTalks ==
    ASSUME IInv, SInv, NEW f \in Fds, QueueCloses(f)
    PROVE  SInv'
<1>1. UNCHANGED <<con, pc, hold, req, ran>>
  BY DEF QueueCloses, serverVars
<1>2. sock \in [Fds -> Sockets] /\ sock[f] \in Sockets
  BY DEF SInv, SockOK
<1>3. PICK u : u = [sock[f] EXCEPT !.up = FALSE]
  OBVIOUS
<1>4. sock' = [sock EXCEPT ![f] = u]
  BY <1>2, <1>3 DEF QueueCloses
<1>5. u \in Sockets /\ Moves(sock[f], u)
  BY <1>2, <1>3, ResetMoves
<1>6. QED
  BY <1>1, <1>4, <1>5, OneMoves

(* The daemon's reply on f, and the connections it closes with it.         *)
Replied(f, reply, reset) ==
    [g \in Fds |->
        IF g = f THEN [sock[g] EXCEPT !.inbox = <<reply>>, !.up = FALSE]
        ELSE IF g \in reset THEN [sock[g] EXCEPT !.up = FALSE]
        ELSE sock[g]]

LEMMA DaemonTalks ==
    ASSUME IInv, SInv, NEW f \in Fds, DaemonServes(f)
    PROVE  SInv'
<1>1. UNCHANGED <<con, pc, hold, req, ran>> /\ sock[f].up /\ sock[f].work # <<>>
  BY DEF DaemonServes, HasWork
<1>2. sock \in [Fds -> Sockets]
  BY DEF SInv, SockOK
<1>3. PICK part \in {"port", "refuse", "blank"}, port \in Nat, reset \in SUBSET Fds :
         sock' = Replied(f, Reply(part, port), reset)
  <2> DEFINE waiting == {g \in Fds \ {f} : HasWork(g) /\ ByDaemon(g)
                                            /\ sock[g].peer = sock[f].peer}
             said == Says(sock[f].peer, Head(sock[f].work))
  <2>1. \E say \in said, reset \in SUBSET waiting : sock' = Replied(f, say.reply, reset)
    BY DEF DaemonServes, Replied
  <2>2. \A say \in said : \E part \in {"port", "refuse", "blank"}, port \in Nat :
            say.reply = Reply(part, port)
    BY SaysReply
  <2>3. SUBSET waiting \subseteq SUBSET Fds
    OBVIOUS
  <2> HIDE DEF waiting, said
  <2>4. PICK say \in said, reset \in SUBSET Fds : sock' = Replied(f, say.reply, reset)
    BY <2>1, <2>3
  <2>5. QED
    BY <2>2, <2>4
<1>4. ASSUME NEW g \in Fds PROVE sock'[g] \in Sockets /\ Moves(sock[g], sock'[g])
  <2>1. sock[g] \in Sockets
    BY <1>2
  <2>2. CASE g = f
    <3>1. sock'[g] = [sock[g] EXCEPT !.inbox = <<Reply(part, port)>>, !.up = FALSE]
      BY <1>3, <2>2 DEF Replied
    <3>2. QED
      BY <1>1, <2>1, <2>2, <3>1, DaemonMoves
  <2>3. CASE g # f /\ g \in reset
    <3>1. sock'[g] = [sock[g] EXCEPT !.up = FALSE]
      BY <1>3, <2>3 DEF Replied
    <3>2. QED
      BY <2>1, <3>1, ResetMoves
  <2>4. CASE g # f /\ g \notin reset
    <3>1. sock'[g] = sock[g]
      BY <1>3, <2>4 DEF Replied
    <3>2. QED
      BY <2>1, <3>1, StillMoves
  <2>5. QED
    BY <2>2, <2>3, <2>4
<1>5. SockOK' /\ RanOK'
  <2>1. sock' \in [Fds -> Sockets]
    BY <1>3, <1>4 DEF Replied
  <2>2. QED
    BY <1>1, <2>1 DEF SInv, SockOK, RanOK
<1>6. QED
  BY <1>1, <1>4, <1>5, ServersKeep

(* The answers of the jobs: pieces of one run, the last one last, or an    *)
(* error.                                                                  *)
LEMMA AnswersAre ==
    ASSUME NEW t, NEW parts \in Answers(t), NEW r \in Requests, NEW k \in Nat, NEW c,
           c = [i \in DOMAIN parts |-> [part |-> parts[i], of |-> r, run |-> k]]
    PROVE  /\ c \in Seq(Item) /\ OfRun(c, r, k)
           /\ \A i \in DOMAIN c : c[i].part # "blank"
           /\ \A i \in DOMAIN c : i < Len(c) => c[i].part = "seg"
<1>1. parts \in {<<"last">>, <<"seg", "seg", "last">>, <<"error">>}
  BY DEF Answers
<1>2. /\ DOMAIN parts = 1 .. Len(parts) /\ Len(parts) \in Nat
      /\ \A i \in DOMAIN parts : parts[i] \in {"seg", "last", "error"}
      /\ \A i \in DOMAIN parts : i < Len(parts) => parts[i] = "seg"
  <2>1. CASE parts = <<"last">>
    BY <2>1
  <2>2. CASE parts = <<"seg", "seg", "last">>
    BY <2>2
  <2>3. CASE parts = <<"error">>
    BY <2>3
  <2>4. QED
    BY <1>1, <2>1, <2>2, <2>3
<1>3. \A i \in DOMAIN parts : [part |-> parts[i], of |-> r, run |-> k] \in Item
  BY <1>2 DEF Item, Parts, Pieces
<1>4. c \in Seq(Item) /\ DOMAIN c = DOMAIN parts /\ Len(c) = Len(parts)
  BY <1>2, <1>3
<1>5. \A i \in DOMAIN c : c[i].part = parts[i] /\ c[i].of = r /\ c[i].run = k
  BY <1>4
<1>6. QED
  BY <1>2, <1>4, <1>5 DEF OfRun

LEMMA ServeTalks ==
    ASSUME IInv, SInv, NEW f \in Fds, Serve(f)
    PROVE  SInv'
<1>1. UNCHANGED <<con, pc, hold, req>> /\ sock[f].up /\ sock[f].work # <<>>
  BY DEF Serve, HasWork
<1>2. sock \in [Fds -> Sockets] /\ sock[f] \in Sockets /\ ran \in [Requests -> Seq(Peers)]
  BY DEF SInv, SockOK, RanOK
<1>3. PICK x \in Asked : sock[f].work = <<x>>
  BY <1>1, <1>2 DEF Sockets, Works
<1>4. Head(sock[f].work) = x
  BY <1>3
<1>5. PICK t : t = sock[f].peer
  OBVIOUS
<1>6. ASSUME NEW c PROVE Puts(f, c) = [sock EXCEPT ![f] = [sock[f] EXCEPT
                                          !.work = Tail(sock[f].work), !.inbox = sock[f].inbox \o c]]
  BY <1>2 DEF Puts
<1>7. CASE /\ x = "hello" /\ ran' = ran
           /\ \E part \in {"nopid", "pid"} : sock' = Puts(f, <<Reply(part, 0)>>)
  <2>1. PICK part \in {"nopid", "pid"} : sock' = Puts(f, <<Reply(part, 0)>>)
    BY <1>7
  <2>2. PICK c : c = <<Reply(part, 0)>>
    OBVIOUS
  <2>3. Reply(part, 0) \in Item /\ Reply(part, 0).part # "blank"
    BY DEF Reply, Item, Parts
  <2>4. c \in Seq(Item) /\ Len(c) = 1 /\ DOMAIN c = {1} /\ c[1] = Reply(part, 0)
    BY <2>2, <2>3
  <2>5. PICK u : u = [sock[f] EXCEPT !.work = Tail(sock[f].work), !.inbox = sock[f].inbox \o c]
    OBVIOUS
  <2>6. sock' = [sock EXCEPT ![f] = u]
    BY <1>6, <2>1, <2>2, <2>5
  <2>7. u \in Sockets /\ Moves(sock[f], u)
    <3>1. (\A i \in DOMAIN c : i < Len(c) => c[i].part = "seg") /\ Len(c) <= 1
          /\ (\A i \in DOMAIN c : c[i].part # "blank") /\ 0 \in Nat
      BY <2>3, <2>4
    <3>2. QED
      BY <1>1, <1>2, <1>3, <1>7, <2>4, <2>5, <3>1, PutsMoves
  <2>8. QED
    BY <1>1, <1>7, <2>6, <2>7, OneMoves
<1>8. CASE /\ x # "hello" /\ ran' = [ran EXCEPT ![x] = Append(@, t)]
           /\ \E parts \in Answers(t) :
                 sock' = Puts(f, [i \in DOMAIN parts |->
                            [part |-> parts[i], of |-> x, run |-> Len(ran[x]) + 1]])
  <2>1. x \in Requests
    BY <1>8 DEF Asked
  <2>2. PICK k : k = Len(ran[x]) + 1
    OBVIOUS
  <2>3. k \in Nat
    BY <2>1, <2>2, ReadyIs
  <2>4. PICK parts \in Answers(t) :
                 sock' = Puts(f, [i \in DOMAIN parts |->
                            [part |-> parts[i], of |-> x, run |-> k]])
    BY <1>8, <2>2
  <2>5. PICK c : c = [i \in DOMAIN parts |-> [part |-> parts[i], of |-> x, run |-> k]]
    OBVIOUS
  <2>6. PICK u : u = [sock[f] EXCEPT !.work = Tail(sock[f].work), !.inbox = sock[f].inbox \o c]
    OBVIOUS
  <2>7. sock' = [sock EXCEPT ![f] = u]
    BY <1>6, <2>4, <2>5, <2>6
  <2>8. u \in Sockets /\ Moves(sock[f], u) /\ u.work = <<>>
    <3>1. /\ c \in Seq(Item) /\ OfRun(c, x, k)
          /\ \A i \in DOMAIN c : c[i].part # "blank"
          /\ \A i \in DOMAIN c : i < Len(c) => c[i].part = "seg"
      BY <2>1, <2>3, <2>5, AnswersAre
    <3>2. QED
      BY <1>1, <1>2, <1>3, <1>8, <2>3, <2>6, <3>1, PutsMoves
  <2>9. t \in Peers
    BY <1>2, <1>5 DEF Sockets
  <2>10. /\ Append(ran[x], t) \in Seq(Peers)
         /\ Len(Append(ran[x], t)) = Len(ran[x]) + 1
    BY <1>2, <2>1, <2>9
  <2>11. RanOK'
    BY <1>2, <1>8, <2>1, <2>10 DEF RanOK
  <2>12. SockOK' /\ \A g \in Fds : Moves(sock[g], sock'[g])
    BY <1>2, <2>7, <2>8, StillMoves DEF SockOK
  <2>13. ASSUME NEW r \in Requests
         PROVE  \/ ran'[r] = ran[r]
                \/ /\ Len(ran'[r]) = Len(ran[r]) + 1
                   /\ \E g \in Fds : /\ sock[g].up /\ sock[g].work = <<r>>
                                     /\ sock'[g].work = <<>>
    <3>1. CASE r # x
      BY <1>2, <1>8, <3>1
    <3>2. CASE r = x
      <4>1. Len(ran'[r]) = Len(ran[r]) + 1
        BY <1>2, <1>8, <2>10, <3>2
      <4>2. sock[f].up /\ sock[f].work = <<r>> /\ sock'[f].work = <<>>
        BY <1>1, <1>2, <1>3, <2>7, <2>8, <3>2
      <4>3. QED
        BY <4>1, <4>2
    <3>3. QED
      BY <3>1, <3>2
  <2>14. QED
    BY <1>1, <2>11, <2>12, <2>13, ServersKeep
<1>9. QED
  BY <1>4, <1>5, <1>7, <1>8 DEF Serve

-----------------------------------------------------------------------------
LEMMA InitSInv ==
    ASSUME Init
    PROVE  SInv
<1>1. \A h \in Handles : con[h] = NoCon /\ ~con[h].up
  BY DEF Init, NoCon
<1>2. \A f \in Fds : sock[f] = Closed /\ ~sock[f].up
  BY ClosedIs DEF Init
<1>3. SockOK
  BY ClosedIs DEF Init, SockOK
<1>4. ReqOK
  BY StartIs DEF Init, ReqOK
<1>5. RanOK /\ \A r \in Requests : ran[r] = <<>> /\ Len(ran[r]) = 0
  BY DEF Init, RanOK
<1>6. (\A h \in Handles : Owned(h)) /\ Distinct
  BY <1>1 DEF Owned, Distinct
<1>7. \A f \in Fds, r \in Requests : Pending(f, r)
  BY <1>2 DEF Pending
<1>8. ASSUME NEW r \in Requests
      PROVE  Talks(r) /\ Answer(pc[r], r, req[r]) /\ Tally(pc[r], req[r], Len(ran[r]))
  <2>1. pc[r] = "idle" /\ req[r] = Start
    BY DEF Init
  <2>2. Start.answer = <<>> /\ Start.end = "none" /\ Start.tries = 0 /\ ~Start.greeted
    BY DEF Start
  <2>3. OneRun(<<>>, r)
    <3>1. DOMAIN <<>> = {} /\ 0 \in Nat
      OBVIOUS
    <3>2. QED
      BY <3>1 DEF OneRun
  <2>4. QED
    BY <1>5, <2>1, <2>2, <2>3 DEF Talks, Talking, Answer, Tally
<1>9. QED
  BY <1>3, <1>4, <1>5, <1>6, <1>7, <1>8 DEF SInv

LEMMA NextSInv ==
    ASSUME IInv, SInv, AddrOK, OneTarget, [Next]_vars
    PROVE  SInv'
<1>3. CASE UNCHANGED <<con, pc, hold, req, sock, ran>>
  <2>1. SockOK' /\ RanOK'
    BY <1>3 DEF SInv, SockOK, RanOK
  <2>2. QED
    BY <1>3, <2>1, StillMoves, ServersKeep
<1>1. ASSUME NEW r \in Requests, Thread(r) PROVE SInv'
  <2>1. CASE Address(r)
    BY <1>3, <2>1 DEF Address, serverVars
  <2>2. QED
    BY <1>1, <2>1, ConnectTalks, ConnectExTalks, ConnectFailsTalks, HelloTalks,
       ConnectChildTalks, ChildRefusesTalks, ChildGivesUpTalks, RehelloTalks, SendTalks,
       ReadHeadTalks, ReadBodyTalks, ReleaseTalks DEF Thread
<1>2. ASSUME NEW f \in Fds, Server(f) \/ Die(f) PROVE SInv'
  BY <1>2, ServeTalks, DaemonTalks, QueueTalks, DieTalks DEF Server
<1>4. ASSUME NEW t \in Targets, GoDown(t) \/ ComeBack(t) PROVE SInv'
  BY <1>3, <1>4 DEF GoDown, ComeBack
<1>5. CASE ChildExit
  BY <1>5, ChildExitTalks
<1>6. CASE UNCHANGED vars
  BY <1>3, <1>6 DEF vars
<1>7. QED
  BY <1>1, <1>2, <1>4, <1>5, <1>6 DEF Next, Done

(* The shared address is written by the thread that connects, or cleared.  *)
LEMMA NextAddrOK ==
    ASSUME IInv, SInv, AddrOK, [Next]_vars
    PROVE  AddrOK'
<1>1. CASE addr' = addr
  BY <1>1 DEF AddrOK
<1>2. CASE NewChild
  BY <1>2 DEF NewChild, Blank, AddrOK, Peers
<1>3. ASSUME NEW r \in Requests, Address(r) PROVE AddrOK'
  <2>1. world.want[r] \in Peers /\ req[r].port \in Nat /\ "none" \in Peers
    BY ReadyIs DEF IInv, WorldOK, Peers, Record
  <2>2. QED
    BY <1>3, <2>1 DEF Address, AddrOK
<1>4. ASSUME NEW r \in Requests, Thread(r) PROVE AddrOK'
  BY <1>1, <1>2, <1>3, <1>4
     DEF Thread, Connect, ConnectEx, ConnectFails, Hello, ConnectChild, ChildRefuses,
         ChildGivesUp, Rehello, Send, ReadHead, ReadBody, Release, Dials, netVars
<1>5. QED
  BY <1>1, <1>2, <1>4
     DEF Next, Server, Serve, DaemonServes, QueueCloses, Die, GoDown, ComeBack, ChildExit,
         Done, netVars, vars

THEOREM SocketInvariance == Spec => [](OneTarget => SInv /\ AddrOK)
<1>1. Init => (OneTarget => SInv /\ AddrOK)
  BY InitSInv DEF Init, AddrOK, Blank, Peers
<1>2. [Next]_vars => world' = world
  BY DEF Next, Thread, Server, Connect, Address, ConnectEx, ConnectFails, Hello, ConnectChild,
         ChildRefuses, ChildGivesUp, Rehello, Send, ReadHead, ReadBody, Release, Serve,
         DaemonServes, QueueCloses, Die, GoDown, ComeBack, ChildExit, Done, serverVars, vars
<1>3. IInv /\ (OneTarget => SInv /\ AddrOK) /\ [Next]_vars => (OneTarget => SInv /\ AddrOK)'
  BY <1>2, NextSInv, NextAddrOK DEF OneTarget
<1>4. QED
  BY <1>1, <1>3, Invariance, PTL DEF Spec

(* With one target a request that sends or reads has an open socket to     *)
(* itself, whatever was closed, forgotten or used again before.            *)
THEOREM SocketsAreOwned == Spec => [](OneTarget => RequestOwnsItsSocket)
<1>1. ASSUME IInv, SInv PROVE RequestOwnsItsSocket
  <2>1. ASSUME NEW r \in Requests, pc[r] \in Talking
        PROVE  /\ con[hold[r]].up
               /\ sock[Fd(r)].open
               /\ \A h \in Handles \ {hold[r]} : con[h].up => con[h].fd # Fd(r)
    BY <1>1, <2>1, TalkerOwns DEF Mine
  <2>2. QED
    BY <2>1 DEF RequestOwnsItsSocket, Talking
<1>2. IInv /\ (OneTarget => SInv /\ AddrOK) => (OneTarget => RequestOwnsItsSocket)
  BY <1>1
<1>3. QED
  BY <1>2, Invariance, SocketInvariance, PTL

(* With one target nothing is under way on a connection that waits in the  *)
(* pool.                                                                   *)
THEOREM IdleInStep == Spec => [](OneTarget => IdleConnectionsInStep)
<1>1. ASSUME SInv PROVE IdleConnectionsInStep
  <2>1. \A n \in Slots : Owned(n)
    BY <1>1 DEF SInv, Handles
  <2>2. QED
    BY <2>1 DEF Owned, Quiet, IdleConnectionsInStep
<1>2. (OneTarget => SInv /\ AddrOK) => (OneTarget => IdleConnectionsInStep)
  BY <1>1
<1>3. QED
  BY <1>2, SocketInvariance, PTL

(* With one target the pieces a client gets are of one run of its own      *)
(* request, and end with the last one when the request counts as answered. *)
THEOREM AnswersAreOwn == Spec => [](OneTarget => OwnAnswer)
<1>1. ASSUME SInv PROVE OwnAnswer
  <2>1. ASSUME NEW r \in Requests
        PROVE  LET a == req[r].answer
               IN  /\ \A i \in DOMAIN a : a[i].of = r /\ a[i].run = a[1].run
                   /\ req[r].end = "answered" => a # <<>> /\ a[Len(a)].part = "last"
    <3> DEFINE a == req[r].answer
    <3>1. Answer(pc[r], r, req[r]) /\ a \in Seq(Item)
      BY <1>1, ReadyIs
    <3>2. PICK k \in Nat : \A i \in DOMAIN a : a[i].of = r /\ a[i].run = k
      BY <3>1 DEF Answer, OneRun
    <3>3. \A i \in DOMAIN a : 1 \in DOMAIN a
      BY <3>1
    <3>4. \A i \in DOMAIN a : a[i].of = r /\ a[i].run = a[1].run
      BY <3>2, <3>3
    <3>5. req[r].end = "answered" => a # <<>> /\ a[Len(a)].part = "last"
      BY <3>1 DEF Answer, Complete
    <3>6. QED
      BY <3>4, <3>5
  <2>2. QED
    BY <2>1 DEF OwnAnswer
<1>2. (OneTarget => SInv /\ AddrOK) => (OneTarget => OwnAnswer)
  BY <1>1
<1>3. QED
  BY <1>2, SocketInvariance, PTL

(* With one target no request runs more than twice, and one that was sent  *)
(* after a greeting runs once.                                             *)
THEOREM RunsTwiceAtMost == Spec => [](OneTarget => TwiceOnlyUngreeted)
<1>1. ASSUME SInv PROVE TwiceOnlyUngreeted
  <2>1. ASSUME NEW r \in Requests
        PROVE  Len(ran[r]) <= 2 /\ (Len(ran[r]) = 2 => ~req[r].greeted)
    <3>1. Tally(pc[r], req[r], Len(ran[r])) /\ Len(ran[r]) \in Nat
      BY <1>1, ReadyIs
    <3>2. QED
      BY <3>1 DEF Tally
  <2>2. QED
    BY <2>1 DEF TwiceOnlyUngreeted
<1>2. (OneTarget => SInv /\ AddrOK) => (OneTarget => TwiceOnlyUngreeted)
  BY <1>1
<1>3. QED
  BY <1>2, SocketInvariance, PTL
=============================================================================
