--------------------------- MODULE TcpServerProofs ---------------------------
(***************************************************************************)
(* Theorems about TcpServer: its invariants for any number of sockets,     *)
(* slots and calls, the order of its events, and that it implements        *)
(* ServerLife.                                                             *)
(***************************************************************************)
EXTENDS TcpServer, FiniteSetTheorems, SequenceTheorems, WellFoundedInduction, TLAPS

-----------------------------------------------------------------------------
(* Entries of a queue: Has, that there is one of these operations with one  *)
(* of these arguments; One, that there are no two.                          *)

Among(e, O, A) == e.op \in O /\ e.arg \in A

Has(q, O, A) == \E i \in DOMAIN q : Among(q[i], O, A)

One(q, O, A) ==
    \A i, j \in DOMAIN q : Among(q[i], O, A) /\ Among(q[j], O, A) => i = j

\* on_connected_ of s is before the closures of its read loop.
LoopOps == {"start", "read", "readOk", "readClosed", "readError"}

ConnectedFirst(q, s) ==
    \A i, j \in DOMAIN q :
        Among(q[i], {"onConnected"}, {s}) /\ Among(q[j], LoopOps, {s}) => i < j

Args == Sockets \cup {Null}
AcceptOps == {"listen", "acceptDone", "OnAccepted", "rearm"}
AcceptedOps == {"acceptDone", "OnAccepted"}
GoingOps == {"read", "readOk", "readClosed", "readError"}
EndOps == {"disconnected", "release"}
EventOps == {"onConnected", "read", "readOk", "disconnected", "release"}

-----------------------------------------------------------------------------
(* The inductive invariant. *)

\* One accept loop.
AcceptInv ==
    /\ One(strand, AcceptOps, Args)
    /\ accepting => ~Has(strand, AcceptOps, Args)

\* The closures that lead to an event of a client have its socket.
ArgsInv == ~Has(strand, EventOps, {Null})

\* on_stopped_ is raised when no slot is taken, and not while running.
StopsInv ==
    /\ stops <= 1
    /\ is_running => stops = 0
    /\ stops = 1 => \A i \in Slots : client_connections[i] = Null

InSlot(s) == id[s] \in Slots /\ client_connections[id[s]] = s

\* The connection of s is in its slot and nobody has noticed its end.
Live(s) == InSlot(s) /\ ~stopped[s] /\ ~Has(strand, EndOps, {s})

Going(s) == Has(strand, GoingOps, {s}) \/ s \in reading

\* One read loop for each socket, or one write, to the socket itself.
LoopInv(s) ==
    /\ One(strand, LoopOps, {s})
    /\ s \in reading => ~Has(strand, LoopOps, {s})
    /\ writing[s] \in {Null, s}
    /\ writing[s] # Null => s \notin reading /\ ~Has(strand, LoopOps, {s})
    /\ Has(strand, {"writeDone"}, {s}) => writing[s] # Null
    /\ One(strand, {"writeDone"}, {s})

\* The loop reads a connection whose end nobody has noticed.
LiveInv(s) ==
    /\ Going(s) => Live(s)
    /\ Has(strand, {"start"}, {s}) \/ writing[s] # Null => Live(s) \/ stopped[s]
    /\ stopped[s] => ~open[s]

\* The end of a connection is on its way once, to the slot of the socket.
EndInv(s) ==
    /\ One(strand, EndOps, {s})
    /\ Has(strand, EndOps, {s}) => InSlot(s) /\ told[s] = "connected"

\* A socket is in the slot of its id until its end is told.
SlotInv(s) ==
    /\ \A i \in Slots : client_connections[i] = s => id[s] = i
    /\ InSlot(s) => told[s] # "disconnected"
    /\ disconnects[s] = IF told[s] = "disconnected" THEN 1 ELSE 0

\* on_connected_ is raised before anything else of the socket happens.
ToldInv(s) ==
    /\ told[s] = "nothing" /\ InSlot(s) => Has(strand, {"onConnected"}, {s})
    /\ Has(strand, {"onConnected"}, {s}) =>
          /\ told[s] = "nothing" /\ InSlot(s)
          /\ s \notin reading /\ writing[s] = Null
          /\ ~Has(strand, (EndOps \cup LoopOps) \ {"read"}, {s})
    /\ One(strand, {"onConnected"}, {s})
    /\ ConnectedFirst(strand, s)

\* What a socket is before it gets a slot.
Blank(s) ==
    /\ told[s] = "nothing"
    /\ \A i \in Slots : client_connections[i] # s
    /\ delivered[s] = 0
    /\ ~stopped[s]
    /\ s \notin reading
    /\ writing[s] = Null
    /\ ~Has(strand, LoopOps \cup EndOps \cup {"onConnected", "writeDone"}, {s})

NewInv(s) ==
    /\ peer[s] \in {"idle", "connecting"} =>
          Blank(s) /\ ~unread[s] /\ ~Has(strand, AcceptedOps, {s})
    /\ Has(strand, AcceptedOps, {s}) => Blank(s)

Flag(b) == IF b THEN 1 ELSE 0

\* What has been delivered, is about to be, or may still be read.
Received(s) == delivered[s] + Flag(unread[s]) + Flag(Has(strand, {"readOk"}, {s}))

\* It was sent, but for a buffer that the last read of a closed socket made up.
DataInv(s) ==
    \/ Received(s) <= sent[s]
    \/ ~open[s] /\ ~Going(s) /\ Received(s) <= sent[s] + 1

SocketInv(s) ==
    /\ LoopInv(s) /\ LiveInv(s) /\ EndInv(s) /\ SlotInv(s) /\ ToldInv(s) /\ NewInv(s) /\ DataInv(s)

ServerInv ==
    TypeOK /\ AcceptInv /\ ArgsInv /\ StopsInv /\ \A s \in Sockets : SocketInv(s)

-----------------------------------------------------------------------------
(* Queues: what is in one after an entry was taken and others were posted. *)

\* A queue and what is behind it.
LEMMA Concat ==
    ASSUME NEW q \in Seq(Entry), NEW p \in Seq(Entry)
    PROVE  /\ q \o p \in Seq(Entry)
           /\ \A O, A :
                 /\ Has(q \o p, O, A) <=> Has(q, O, A) \/ Has(p, O, A)
                 /\ One(q, O, A) /\ One(p, O, A) /\ ~(Has(q, O, A) /\ Has(p, O, A)) =>
                       One(q \o p, O, A)
           /\ \A s : /\ ConnectedFirst(q, s) /\ ConnectedFirst(p, s)
                     /\ ~(Has(q, LoopOps, {s}) /\ Has(p, {"onConnected"}, {s}))
                     => ConnectedFirst(q \o p, s)
<1>1. PICK m \in Nat, n \in Nat : m = Len(q) /\ n = Len(p)
  OBVIOUS
<1> DEFINE r == q \o p
<1>2. /\ r \in Seq(Entry)
      /\ DOMAIN q = 1 .. m /\ DOMAIN p = 1 .. n /\ DOMAIN r = 1 .. m + n
      /\ \A i \in 1 .. m : r[i] = q[i]
      /\ \A i \in 1 .. n : r[m + i] = p[i]
  BY <1>1
<1>3. \A i \in DOMAIN r : \/ i \in DOMAIN q /\ r[i] = q[i]
                          \/ i - m \in DOMAIN p /\ r[i] = p[i - m] /\ i > m
  <2> TAKE i \in DOMAIN r
  <2>1. CASE i <= m
    BY <2>1, <1>2
  <2>2. CASE i > m
    <3>1. i - m \in 1 .. n /\ m + (i - m) = i
      BY <2>2, <1>2
    <3> QED
      BY <2>2, <3>1, <1>2
  <2> QED
    BY <2>1, <2>2, <1>2
<1>4. /\ \A i \in DOMAIN q : i \in DOMAIN r /\ r[i] = q[i]
      /\ \A i \in DOMAIN p : m + i \in DOMAIN r /\ r[m + i] = p[i]
  BY <1>2
<1>5. \A i \in DOMAIN q : i <= m /\ i \in Nat
  BY <1>2
<1>6. \A i \in DOMAIN r : i \in Nat
  BY <1>2
<1> HIDE DEF r
<1>7. ASSUME NEW O, NEW A
      PROVE  /\ Has(r, O, A) <=> Has(q, O, A) \/ Has(p, O, A)
             /\ One(q, O, A) /\ One(p, O, A) /\ ~(Has(q, O, A) /\ Has(p, O, A)) => One(r, O, A)
  <2>1. Has(r, O, A) => Has(q, O, A) \/ Has(p, O, A)
    BY <1>3 DEF Has
  <2>2. Has(q, O, A) \/ Has(p, O, A) => Has(r, O, A)
    BY <1>4 DEF Has
  <2>3. ASSUME One(q, O, A), One(p, O, A), ~(Has(q, O, A) /\ Has(p, O, A)),
               NEW i \in DOMAIN r, NEW j \in DOMAIN r, Among(r[i], O, A), Among(r[j], O, A)
        PROVE  i = j
    <3>1. CASE i \in DOMAIN q /\ r[i] = q[i] /\ j \in DOMAIN q /\ r[j] = q[j]
      BY <3>1, <2>3 DEF One
    <3>2. CASE i - m \in DOMAIN p /\ r[i] = p[i - m] /\ j - m \in DOMAIN p /\ r[j] = p[j - m]
      <4>1. i - m = j - m
        BY <3>2, <2>3 DEF One
      <4> QED
        BY <4>1, <1>6
    <3>3. \A k \in DOMAIN r : Among(r[k], O, A) =>
             \/ k \in DOMAIN q /\ r[k] = q[k] /\ Has(q, O, A)
             \/ k - m \in DOMAIN p /\ r[k] = p[k - m] /\ Has(p, O, A)
      BY <1>3 DEF Has
    <3> QED
      BY <2>3, <3>1, <3>2, <3>3
  <2> QED
    BY <2>1, <2>2, <2>3 DEF One
<1>8. ASSUME NEW s, ConnectedFirst(q, s), ConnectedFirst(p, s),
             ~(Has(q, LoopOps, {s}) /\ Has(p, {"onConnected"}, {s}))
      PROVE  ConnectedFirst(r, s)
  <2> SUFFICES ASSUME NEW i \in DOMAIN r, NEW j \in DOMAIN r,
                      Among(r[i], {"onConnected"}, {s}), Among(r[j], LoopOps, {s})
               PROVE  i < j
    BY DEF ConnectedFirst
  <2>1. CASE i \in DOMAIN q /\ r[i] = q[i] /\ j \in DOMAIN q /\ r[j] = q[j]
    BY <2>1, <1>8 DEF ConnectedFirst
  <2>2. CASE i - m \in DOMAIN p /\ r[i] = p[i - m] /\ j - m \in DOMAIN p /\ r[j] = p[j - m]
    <3>1. i - m < j - m
      BY <2>2, <1>8 DEF ConnectedFirst
    <3> QED
      BY <3>1, <1>6
  <2>3. CASE i \in DOMAIN q /\ j > m
    BY <2>3, <1>5, <1>6
  <2>4. ~(i - m \in DOMAIN p /\ r[i] = p[i - m] /\ j \in DOMAIN q /\ r[j] = q[j])
    BY <1>8 DEF Has
  <2> QED
    BY <1>3, <2>1, <2>2, <2>3, <2>4
<1> QED
  BY <1>2, <1>7, <1>8 DEF r

\* The first entry and the others.
LEMMA HeadTail ==
    ASSUME NEW q \in Seq(Entry), q # <<>>
    PROVE  /\ Head(q) \in Entry
           /\ Tail(q) \in Seq(Entry)
           /\ \A O, A :
                 /\ Has(q, O, A) <=> Among(Head(q), O, A) \/ Has(Tail(q), O, A)
                 /\ One(q, O, A) => One(Tail(q), O, A)
                 /\ One(q, O, A) /\ Among(Head(q), O, A) => ~Has(Tail(q), O, A)
           /\ \A s : ConnectedFirst(q, s) => ConnectedFirst(Tail(q), s)
           /\ \A s : ConnectedFirst(q, s) /\ Among(Head(q), LoopOps, {s}) =>
                       ~Has(q, {"onConnected"}, {s})
<1>1. PICK n \in Nat : n + 1 = Len(q)
  <2>1. Len(q) \in Nat /\ Len(q) # 0
    OBVIOUS
  <2>2. Len(q) - 1 \in Nat /\ (Len(q) - 1) + 1 = Len(q)
    BY <2>1
  <2> QED
    BY <2>2
<1> DEFINE r == Tail(q)
<1>2. /\ Head(q) = q[1] /\ Head(q) \in Entry
      /\ r \in Seq(Entry)
      /\ DOMAIN q = 1 .. n + 1 /\ DOMAIN r = 1 .. n
      /\ \A i \in 1 .. n : r[i] = q[i + 1]
  BY <1>1
<1>3. /\ 1 \in DOMAIN q
      /\ \A i \in DOMAIN r : i \in Nat /\ i + 1 \in DOMAIN q /\ i + 1 # 1 /\ r[i] = q[i + 1]
      /\ \A i \in DOMAIN q : i \in Nat /\ i >= 1
      /\ \A i \in DOMAIN q : i = 1 \/ (i - 1 \in DOMAIN r /\ r[i - 1] = q[i])
  <2>1. \A i \in DOMAIN q : i = 1 \/ (i - 1 \in DOMAIN r /\ r[i - 1] = q[i])
    <3> TAKE i \in DOMAIN q
    <3>1. i # 1 => i - 1 \in 1 .. n /\ (i - 1) + 1 = i
      BY <1>2
    <3> QED
      BY <3>1, <1>2
  <2> QED
    BY <2>1, <1>2
<1> HIDE DEF r
<1>4. ASSUME NEW O, NEW A
      PROVE  /\ Has(q, O, A) <=> Among(Head(q), O, A) \/ Has(r, O, A)
             /\ One(q, O, A) => One(r, O, A)
             /\ One(q, O, A) /\ Among(Head(q), O, A) => ~Has(r, O, A)
  <2>1. Has(q, O, A) <=> Among(Head(q), O, A) \/ Has(r, O, A)
    BY <1>2, <1>3 DEF Has
  <2>2. ASSUME One(q, O, A), NEW i \in DOMAIN r, NEW j \in DOMAIN r,
               Among(r[i], O, A), Among(r[j], O, A)
        PROVE  i = j
    <3>1. i + 1 = j + 1
      BY <2>2, <1>3 DEF One
    <3> QED
      BY <3>1, <1>3
  <2>3. One(q, O, A) /\ Among(Head(q), O, A) => ~Has(r, O, A)
    BY <1>2, <1>3 DEF One, Has
  <2> QED
    BY <2>1, <2>2, <2>3 DEF One
<1>5. ASSUME NEW s, ConnectedFirst(q, s)
      PROVE  ConnectedFirst(r, s)
  <2> SUFFICES ASSUME NEW i \in DOMAIN r, NEW j \in DOMAIN r,
                      Among(r[i], {"onConnected"}, {s}), Among(r[j], LoopOps, {s})
               PROVE  i < j
    BY DEF ConnectedFirst
  <2>1. i + 1 < j + 1
    BY <1>3, <1>5 DEF ConnectedFirst
  <2> QED
    BY <2>1, <1>3
<1>6. ASSUME NEW s, ConnectedFirst(q, s), Among(Head(q), LoopOps, {s})
      PROVE  ~Has(q, {"onConnected"}, {s})
  <2> SUFFICES ASSUME NEW i \in DOMAIN q, Among(q[i], {"onConnected"}, {s})
               PROVE  FALSE
    BY DEF Has
  <2>1. i < 1
    BY <1>2, <1>3, <1>6 DEF ConnectedFirst
  <2> QED
    BY <2>1, <1>3
<1> QED
  BY <1>2, <1>4, <1>5, <1>6 DEF r

\* Nothing, and one entry.
LEMMA Posts ==
    /\ <<>> \in Seq(Entry)
    /\ \A O, A : ~Has(<<>>, O, A) /\ One(<<>>, O, A)
    /\ \A s : ConnectedFirst(<<>>, s)
    /\ \A op \in Closures, a \in Args :
          /\ <<E(op, a)>> \in Seq(Entry)
          /\ \A O, A : /\ Has(<<E(op, a)>>, O, A) <=> op \in O /\ a \in A
                       /\ One(<<E(op, a)>>, O, A)
          /\ \A s : ConnectedFirst(<<E(op, a)>>, s)
<1>1. <<>> \in Seq(Entry)
  OBVIOUS
<1>2. \A O, A : ~Has(<<>>, O, A) /\ One(<<>>, O, A)
  BY DEF Has, One
<1>3. \A s : ConnectedFirst(<<>>, s)
  BY DEF ConnectedFirst
<1>4. ASSUME NEW op \in Closures, NEW a \in Args
      PROVE  /\ <<E(op, a)>> \in Seq(Entry)
             /\ \A O, A : /\ Has(<<E(op, a)>>, O, A) <=> op \in O /\ a \in A
                          /\ One(<<E(op, a)>>, O, A)
             /\ \A s : ConnectedFirst(<<E(op, a)>>, s)
  <2> DEFINE e == E(op, a)
  <2>1. e \in Entry /\ e.op = op /\ e.arg = a
    BY DEF E, Entry, Args
  <2> HIDE DEF e
  <2>2. <<e>> \in Seq(Entry) /\ DOMAIN <<e>> = {1} /\ <<e>>[1] = e
    BY <2>1
  <2>3. \A O, A : Has(<<e>>, O, A) <=> op \in O /\ a \in A
    BY <2>1, <2>2 DEF Has, Among
  <2>4. \A O, A : One(<<e>>, O, A)
    BY <2>2 DEF One
  <2>5. \A s : ConnectedFirst(<<e>>, s)
    BY <2>1, <2>2 DEF ConnectedFirst, Among, LoopOps
  <2> QED
    BY <2>2, <2>3, <2>4, <2>5 DEF e
<1> QED
  BY <1>1, <1>2, <1>3, <1>4

\* What a queue has none of, it has not twice.
LEMMA NoneOne ==
    ASSUME NEW q
    PROVE  /\ \A O, A : ~Has(q, O, A) => One(q, O, A)
           /\ \A s : ~Has(q, {"onConnected"}, {s}) => ConnectedFirst(q, s)
           /\ \A O, P, A : O \subseteq P /\ Has(q, O, A) => Has(q, P, A)
           /\ \A O, A, B : A \subseteq B /\ Has(q, O, A) => Has(q, O, B)
           /\ \A O, P, A : Has(q, O \cup P, A) => Has(q, O, A) \/ Has(q, P, A)
BY DEF Has, One, Among, ConnectedFirst

\* The strand runs an entry, which posts others.
LEMMA StepFlow ==
    ASSUME strand \in Seq(Entry), NEW op, NEW a, NEW p \in Seq(Entry), Step(op, a, p)
    PROVE  /\ strand' \in Seq(Entry)
           /\ \A O, A :
                 /\ op \in O /\ a \in A => Has(strand, O, A)
                 /\ Has(strand', O, A) => Has(strand, O, A) \/ Has(p, O, A)
                 /\ Has(p, O, A) => Has(strand', O, A)
                 /\ Has(strand, O, A) /\ ~(op \in O /\ a \in A) => Has(strand', O, A)
                 /\ One(strand, O, A) /\ op \in O /\ a \in A /\ ~Has(p, O, A) =>
                       ~Has(strand', O, A)
                 /\ One(strand, O, A) /\ ~Has(p, O, A) => One(strand', O, A)
                 /\ /\ One(strand, O, A) /\ One(p, O, A)
                    /\ (op \in O /\ a \in A) \/ ~Has(strand, O, A)
                    => One(strand', O, A)
           /\ \A s :
                 /\ ConnectedFirst(strand, s) /\ ~Has(p, {"onConnected"}, {s}) =>
                       ConnectedFirst(strand', s)
                 /\ ConnectedFirst(p, s) /\ ~Has(strand, LoopOps, {s}) =>
                       ConnectedFirst(strand', s) \/ ~ConnectedFirst(strand, s)
                 /\ ConnectedFirst(strand, s) /\ op \in LoopOps /\ a = s =>
                       ~Has(strand, {"onConnected"}, {s})
<1> DEFINE r == Tail(strand)
<1>1. strand # <<>> /\ Head(strand) = E(op, a) /\ strand' = r \o p
  BY DEF Step, Runs
<1>2. \A O, A : Among(Head(strand), O, A) <=> op \in O /\ a \in A
  BY <1>1 DEF Among, E
<1>3. /\ r \in Seq(Entry)
      /\ \A O, A :
            /\ Has(strand, O, A) <=> (op \in O /\ a \in A) \/ Has(r, O, A)
            /\ One(strand, O, A) => One(r, O, A)
            /\ One(strand, O, A) /\ op \in O /\ a \in A => ~Has(r, O, A)
      /\ \A s : ConnectedFirst(strand, s) => ConnectedFirst(r, s)
      /\ \A s : ConnectedFirst(strand, s) /\ op \in LoopOps /\ a = s =>
                  ~Has(strand, {"onConnected"}, {s})
  BY <1>1, <1>2, HeadTail
<1> HIDE DEF r
<1>4. /\ strand' \in Seq(Entry)
      /\ \A O, A :
            /\ Has(strand', O, A) <=> Has(r, O, A) \/ Has(p, O, A)
            /\ One(r, O, A) /\ One(p, O, A) /\ ~(Has(r, O, A) /\ Has(p, O, A)) =>
                  One(strand', O, A)
      /\ \A s : /\ ConnectedFirst(r, s) /\ ConnectedFirst(p, s)
                /\ ~(Has(r, LoopOps, {s}) /\ Has(p, {"onConnected"}, {s}))
                => ConnectedFirst(strand', s)
  BY <1>1, <1>3, Concat
<1>5. /\ \A O, A : ~Has(p, O, A) => One(p, O, A)
      /\ \A s : ~Has(p, {"onConnected"}, {s}) => ConnectedFirst(p, s)
  BY NoneOne
<1>6. ASSUME NEW O, NEW A
      PROVE  /\ op \in O /\ a \in A => Has(strand, O, A)
             /\ Has(strand', O, A) => Has(strand, O, A) \/ Has(p, O, A)
             /\ Has(p, O, A) => Has(strand', O, A)
             /\ Has(strand, O, A) /\ ~(op \in O /\ a \in A) => Has(strand', O, A)
             /\ One(strand, O, A) /\ op \in O /\ a \in A /\ ~Has(p, O, A) => ~Has(strand', O, A)
             /\ One(strand, O, A) /\ ~Has(p, O, A) => One(strand', O, A)
             /\ /\ One(strand, O, A) /\ One(p, O, A)
                /\ (op \in O /\ a \in A) \/ ~Has(strand, O, A)
                => One(strand', O, A)
  BY <1>3, <1>4, <1>5
<1>7. ASSUME NEW s
      PROVE  /\ ConnectedFirst(strand, s) /\ ~Has(p, {"onConnected"}, {s}) =>
                   ConnectedFirst(strand', s)
             /\ ConnectedFirst(p, s) /\ ~Has(strand, LoopOps, {s}) =>
                   ConnectedFirst(strand', s) \/ ~ConnectedFirst(strand, s)
             /\ ConnectedFirst(strand, s) /\ op \in LoopOps /\ a = s =>
                   ~Has(strand, {"onConnected"}, {s})
  BY <1>3, <1>4, <1>5
<1> QED
  BY <1>4, <1>6, <1>7

\* An entry is posted, by a call or a completion.
LEMMA PostFlow ==
    ASSUME strand \in Seq(Entry), NEW op \in Closures, NEW a \in Args, Post(op, a)
    PROVE  /\ strand' \in Seq(Entry)
           /\ \A O, A :
                 /\ Has(strand', O, A) <=> Has(strand, O, A) \/ (op \in O /\ a \in A)
                 /\ One(strand, O, A) /\ ~(op \in O /\ a \in A) => One(strand', O, A)
                 /\ ~Has(strand, O, A) => One(strand', O, A)
           /\ \A s : ConnectedFirst(strand, s) /\ op # "onConnected" => ConnectedFirst(strand', s)
<1>1. strand' = strand \o <<E(op, a)>> /\ <<E(op, a)>> \in Seq(Entry)
  <2>1. E(op, a) \in Entry
    BY DEF E, Entry, Args
  <2> QED
    BY <2>1, AppendIsConcat DEF Post
<1>2. /\ \A O, A : Has(<<E(op, a)>>, O, A) <=> op \in O /\ a \in A
      /\ \A O, A : One(<<E(op, a)>>, O, A)
      /\ \A s : ConnectedFirst(<<E(op, a)>>, s)
  BY Posts
<1>3. /\ strand' \in Seq(Entry)
      /\ \A O, A :
            /\ Has(strand', O, A) <=> Has(strand, O, A) \/ (op \in O /\ a \in A)
            /\ One(strand, O, A) /\ ~(Has(strand, O, A) /\ op \in O /\ a \in A) =>
                  One(strand', O, A)
      /\ \A s : /\ ConnectedFirst(strand, s)
                /\ ~(Has(strand, LoopOps, {s}) /\ Has(<<E(op, a)>>, {"onConnected"}, {s}))
                => ConnectedFirst(strand', s)
  BY <1>1, <1>2, Concat
<1>4. \A O, A : ~Has(strand, O, A) => One(strand, O, A)
  BY NoneOne
<1>5. op # "onConnected" => \A s : ~Has(<<E(op, a)>>, {"onConnected"}, {s})
  BY <1>2
<1> QED
  BY <1>3, <1>4, <1>5

-----------------------------------------------------------------------------
(* Sockets that a step is not about. *)

\* The queue is for s what it was, but for calls of Stop and for an accept that
\* has come to its end.
SameQueue(s) ==
    /\ \A O : O \cap (AcceptedOps \cup {"close"}) = {} =>
          /\ Has(strand', O, {s}) <=> Has(strand, O, {s})
          /\ One(strand, O, {s}) => One(strand', O, {s})
    /\ ConnectedFirst(strand, s) => ConnectedFirst(strand', s)
    /\ Has(strand', AcceptedOps, {s}) => Has(strand, AcceptedOps, {s})

\* So are the variables; the socket may be closed, and the client go on from
\* connecting to connected and to its end.
SameSocket(s) ==
    /\ \A i \in Slots : client_connections'[i] = s <=> client_connections[i] = s
    /\ id'[s] = id[s] /\ stopped'[s] = stopped[s]
    /\ s \in reading' <=> s \in reading
    /\ writing'[s] = writing[s]
    /\ open'[s] => open[s]
    /\ peer'[s] \in {"idle", "connecting"} => peer[s] \in {"idle", "connecting"}
    /\ unread'[s] = unread[s] /\ sent'[s] = sent[s] /\ delivered'[s] = delivered[s]
    /\ told'[s] = told[s] /\ disconnects'[s] = disconnects[s]

\* The parts of the invariant stay.
LEMMA Aside ==
    ASSUME NEW s \in Sockets, SocketInv(s), SameQueue(s), SameSocket(s)
    PROVE  SocketInv(s)'
<1>1. /\ Has(strand', LoopOps, {s}) <=> Has(strand, LoopOps, {s})
      /\ Has(strand', GoingOps, {s}) <=> Has(strand, GoingOps, {s})
      /\ Has(strand', EndOps, {s}) <=> Has(strand, EndOps, {s})
      /\ Has(strand', {"start"}, {s}) <=> Has(strand, {"start"}, {s})
      /\ Has(strand', {"readOk"}, {s}) <=> Has(strand, {"readOk"}, {s})
      /\ Has(strand', {"writeDone"}, {s}) <=> Has(strand, {"writeDone"}, {s})
      /\ Has(strand', {"onConnected"}, {s}) <=> Has(strand, {"onConnected"}, {s})
      /\ Has(strand', AcceptedOps, {s}) => Has(strand, AcceptedOps, {s})
      /\ Has(strand', (EndOps \cup LoopOps) \ {"read"}, {s}) <=>
            Has(strand, (EndOps \cup LoopOps) \ {"read"}, {s})
      /\ Has(strand', LoopOps \cup EndOps \cup {"onConnected", "writeDone"}, {s}) <=>
            Has(strand, LoopOps \cup EndOps \cup {"onConnected", "writeDone"}, {s})
  BY DEF SameQueue, LoopOps, GoingOps, EndOps, AcceptedOps
<1>2. /\ One(strand, LoopOps, {s}) => One(strand', LoopOps, {s})
      /\ One(strand, EndOps, {s}) => One(strand', EndOps, {s})
      /\ One(strand, {"writeDone"}, {s}) => One(strand', {"writeDone"}, {s})
      /\ One(strand, {"onConnected"}, {s}) => One(strand', {"onConnected"}, {s})
  BY DEF SameQueue, LoopOps, EndOps, AcceptedOps
<1>3. InSlot(s)' <=> InSlot(s)
  BY DEF SameSocket, InSlot
<1>4. Live(s)' <=> Live(s)
  BY <1>1, <1>3 DEF SameSocket, Live
<1>5. Going(s)' <=> Going(s)
  BY <1>1 DEF SameSocket, Going
<1>6. LoopInv(s)'
  BY <1>1, <1>2 DEF SocketInv, LoopInv, SameSocket
<1>7. LiveInv(s)'
  BY <1>1, <1>4, <1>5 DEF SocketInv, LiveInv, SameSocket
<1>8. EndInv(s)'
  BY <1>1, <1>2, <1>3 DEF SocketInv, EndInv, SameSocket
<1>9. SlotInv(s)'
  BY <1>3 DEF SocketInv, SlotInv, SameSocket
<1>10. ToldInv(s)'
  BY <1>1, <1>2, <1>3 DEF SocketInv, ToldInv, SameSocket, SameQueue
<1>11. Blank(s)' <=> Blank(s)
  BY <1>1 DEF Blank, SameSocket
<1>12. NewInv(s)'
  BY <1>1, <1>11 DEF SocketInv, NewInv, SameSocket
<1>13. Received(s)' = Received(s)
  BY <1>1 DEF Received, Flag, SameSocket
<1>14. DataInv(s)'
  BY <1>5, <1>13 DEF SocketInv, DataInv, SameSocket
<1> QED
  BY <1>6, <1>7, <1>8, <1>9, <1>10, <1>12, <1>14 DEF SocketInv

\* A queue is not changed for a socket by a step that is about another, or
\* about no socket, and posts nothing for this one but a call of Stop.
Apart(p, t) ==
    /\ \A O : O \cap (AcceptedOps \cup {"close"}) = {} => ~Has(p, O, {t})
    /\ ~Has(p, AcceptedOps, {t}) 

\* A closure of another socket, or of the server, leaves s alone.
LEMMA OtherStep ==
    ASSUME strand \in Seq(Entry), NEW op, NEW a, NEW p \in Seq(Entry), Step(op, a, p),
           NEW t, t # a \/ op \in AcceptedOps \cup {"close"}, Apart(p, t)
    PROVE  SameQueue(t)
<1>1. ASSUME NEW O, O \cap (AcceptedOps \cup {"close"}) = {}
      PROVE  /\ Has(strand', O, {t}) <=> Has(strand, O, {t})
             /\ One(strand, O, {t}) => One(strand', O, {t})
  <2>1. ~Has(p, O, {t})
    BY <1>1 DEF Apart
  <2>2. ~(op \in O /\ a \in {t})
    BY <1>1
  <2> QED
    BY <2>1, <2>2, StepFlow
<1>2. ~Has(p, {"onConnected"}, {t})
  BY DEF Apart, AcceptedOps
<1>3. ConnectedFirst(strand, t) => ConnectedFirst(strand', t)
  BY <1>2, StepFlow
<1>4. Has(strand', AcceptedOps, {t}) => Has(strand, AcceptedOps, {t})
  BY StepFlow DEF Apart
<1> QED
  BY <1>1, <1>3, <1>4 DEF SameQueue

\* So does posting one.
LEMMA OtherPost ==
    ASSUME strand \in Seq(Entry), NEW op \in Closures, NEW a \in Args, Post(op, a),
           NEW t, t # a
    PROVE  SameQueue(t)
<1>1. ASSUME NEW O
      PROVE  /\ Has(strand', O, {t}) <=> Has(strand, O, {t})
             /\ One(strand, O, {t}) => One(strand', O, {t})
  BY PostFlow
<1>2. ConnectedFirst(strand, t) => ConnectedFirst(strand', t)
  <2>1. /\ <<E(op, a)>> \in Seq(Entry) /\ strand' = strand \o <<E(op, a)>>
        /\ ConnectedFirst(<<E(op, a)>>, t)
        /\ ~Has(<<E(op, a)>>, {"onConnected"}, {t})
    <3>1. E(op, a) \in Entry
      BY DEF E, Entry, Args
    <3> QED
      BY <3>1, AppendIsConcat, Posts DEF Post
  <2> QED
    BY <2>1, Concat
<1> QED
  BY <1>1, <1>2 DEF SameQueue

\* The queue is not changed at all.
LEMMA OtherNone ==
    ASSUME strand' = strand, NEW t
    PROVE  SameQueue(t)
BY DEF SameQueue

\* What posts consist of: nothing, one entry, two parts.
LEMMA ApartPosts ==
    ASSUME NEW t
    PROVE  /\ Apart(<<>>, t)
           /\ \A op \in Closures, a \in Args : t # a \/ op = "close" => Apart(<<E(op, a)>>, t)
           /\ \A p, q \in Seq(Entry) : Apart(p, t) /\ Apart(q, t) => Apart(p \o q, t)
<1>1. Apart(<<>>, t)
  BY Posts DEF Apart
<1>2. ASSUME NEW op \in Closures, NEW a \in Args, t # a \/ op = "close"
      PROVE  Apart(<<E(op, a)>>, t)
  <2>1. \A O : Has(<<E(op, a)>>, O, {t}) <=> op \in O /\ a \in {t}
    BY Posts
  <2> QED
    BY <2>1, <1>2 DEF Apart, AcceptedOps
<1>3. ASSUME NEW p \in Seq(Entry), NEW q \in Seq(Entry), Apart(p, t), Apart(q, t)
      PROVE  Apart(p \o q, t)
  <2>1. \A O : Has(p \o q, O, {t}) <=> Has(p, O, {t}) \/ Has(q, O, {t})
    BY Concat
  <2> QED
    BY <2>1, <1>3 DEF Apart
<1> QED
  BY <1>1, <1>2, <1>3

\* The accept loop: a step that is not of it; a step of it that goes on with
\* one entry or with async_accept, or ends it.
LEMMA AcceptStep ==
    ASSUME TypeOK, AcceptInv, NEW op, NEW a \in Args, NEW p \in Seq(Entry), Step(op, a, p),
           \/ ~Has(p, AcceptOps, Args) /\ (accepting' => accepting)
           \/ /\ op \in AcceptOps /\ One(p, AcceptOps, Args)
              /\ accepting' => ~Has(p, AcceptOps, Args)
              /\ Has(p, AcceptOps, Args) => accepting' = accepting
    PROVE  AcceptInv'
<1> DEFINE O == AcceptOps
<1>1. strand \in Seq(Entry) /\ One(strand, O, Args) /\ (accepting => ~Has(strand, O, Args))
  BY DEF TypeOK, AcceptInv
<1>2. /\ One(strand, O, Args) /\ ~Has(p, O, Args) => One(strand', O, Args)
      /\ Has(strand', O, Args) => Has(strand, O, Args) \/ Has(p, O, Args)
      /\ op \in O /\ a \in Args => Has(strand, O, Args)
      /\ One(strand, O, Args) /\ op \in O /\ a \in Args /\ ~Has(p, O, Args) =>
            ~Has(strand', O, Args)
      /\ One(strand, O, Args) /\ One(p, O, Args) /\ op \in O /\ a \in Args =>
            One(strand', O, Args)
  BY <1>1, StepFlow
<1> HIDE DEF O
<1>3. One(strand', O, Args) /\ (accepting' => ~Has(strand', O, Args))
  BY <1>1, <1>2 DEF O
<1> QED
  BY <1>3 DEF AcceptInv, O

\* Posting continues the accept loop, or has nothing to do with it.
LEMMA AcceptPost ==
    ASSUME TypeOK, AcceptInv, NEW op \in Closures, NEW a \in Args, Post(op, a),
           \/ op \notin AcceptOps /\ (accepting' => accepting)
           \/ accepting /\ ~accepting'
           \/ ~accepting' /\ ~Has(strand, AcceptOps, Args)
    PROVE  AcceptInv'
<1> DEFINE O == AcceptOps
<1>1. strand \in Seq(Entry) /\ One(strand, O, Args) /\ (accepting => ~Has(strand, O, Args))
  BY DEF TypeOK, AcceptInv
<1>2. /\ Has(strand', O, Args) <=> Has(strand, O, Args) \/ (op \in O /\ a \in Args)
      /\ One(strand, O, Args) /\ ~(op \in O /\ a \in Args) => One(strand', O, Args)
      /\ ~Has(strand, O, Args) => One(strand', O, Args)
  BY <1>1, PostFlow
<1> HIDE DEF O
<1>3. One(strand', O, Args) /\ (accepting' => ~Has(strand', O, Args))
  BY <1>1, <1>2 DEF O
<1> QED
  BY <1>3 DEF AcceptInv, O

\* A step that touches neither the strand nor async_accept.
LEMMA AcceptNone ==
    ASSUME AcceptInv, strand' = strand, accepting' = accepting
    PROVE  AcceptInv'
BY DEF AcceptInv

\* on_stopped_ and the slots are as they were.
LEMMA StopsNone ==
    ASSUME StopsInv, UNCHANGED <<stops, is_running, client_connections>>
    PROVE  StopsInv'
BY DEF StopsInv

-----------------------------------------------------------------------------
(* The socket that a step is about. *)

RestOps == {"readOk", "readClosed", "readError"}

\* The operations of a socket, class by class.
LEMMA Classes ==
    ASSUME NEW q, NEW s
    PROVE  /\ Has(q, LoopOps, {s}) <=> Has(q, {"start"}, {s}) \/ Has(q, GoingOps, {s})
           /\ Has(q, GoingOps, {s}) <=> Has(q, {"read"}, {s}) \/ Has(q, RestOps, {s})
           /\ Has(q, {"readOk"}, {s}) => Has(q, RestOps, {s})
           /\ Has(q, (EndOps \cup LoopOps) \ {"read"}, {s}) <=>
                 Has(q, EndOps, {s}) \/ Has(q, {"start"}, {s}) \/ Has(q, RestOps, {s})
           /\ Has(q, LoopOps \cup EndOps \cup {"onConnected", "writeDone"}, {s}) <=>
                 \/ Has(q, LoopOps, {s}) \/ Has(q, EndOps, {s})
                 \/ Has(q, {"onConnected"}, {s}) \/ Has(q, {"writeDone"}, {s})
           /\ One(q, LoopOps, {s}) =>
                 /\ One(q, GoingOps, {s}) /\ One(q, RestOps, {s})
                 /\ One(q, {"start"}, {s}) /\ One(q, {"read"}, {s}) /\ One(q, {"readOk"}, {s})
                 /\ ~(Has(q, {"start"}, {s}) /\ Has(q, GoingOps, {s}))
                 /\ ~(Has(q, {"read"}, {s}) /\ Has(q, RestOps, {s}))
<1>1. Has(q, LoopOps, {s}) <=> Has(q, {"start"}, {s}) \/ Has(q, GoingOps, {s})
  BY DEF Has, Among, LoopOps, GoingOps
<1>2. Has(q, GoingOps, {s}) <=> Has(q, {"read"}, {s}) \/ Has(q, RestOps, {s})
  BY DEF Has, Among, RestOps, GoingOps
<1>3. Has(q, {"readOk"}, {s}) => Has(q, RestOps, {s})
  BY DEF Has, Among, RestOps
<1>4. Has(q, (EndOps \cup LoopOps) \ {"read"}, {s}) <=>
         Has(q, EndOps, {s}) \/ Has(q, {"start"}, {s}) \/ Has(q, RestOps, {s})
  <2>1. (EndOps \cup LoopOps) \ {"read"} = EndOps \cup {"start"} \cup RestOps
    BY DEF EndOps, LoopOps, RestOps
  <2> QED
    BY <2>1 DEF Has, Among
<1>5. Has(q, LoopOps \cup EndOps \cup {"onConnected", "writeDone"}, {s}) <=>
         \/ Has(q, LoopOps, {s}) \/ Has(q, EndOps, {s})
         \/ Has(q, {"onConnected"}, {s}) \/ Has(q, {"writeDone"}, {s})
  BY DEF Has, Among
<1>6. ASSUME NEW O, O \subseteq LoopOps, One(q, LoopOps, {s})
      PROVE  One(q, O, {s})
  BY <1>6 DEF One, Among
<1>7. /\ GoingOps \subseteq LoopOps /\ RestOps \subseteq LoopOps /\ {"start"} \subseteq LoopOps
      /\ {"read"} \subseteq LoopOps /\ {"readOk"} \subseteq LoopOps
  BY DEF GoingOps, RestOps, LoopOps
<1>8. ASSUME NEW O, NEW P, O \subseteq LoopOps, P \subseteq LoopOps, O \cap P = {},
             One(q, LoopOps, {s}), Has(q, O, {s}), Has(q, P, {s})
      PROVE  FALSE
  <2>1. PICK i \in DOMAIN q : Among(q[i], O, {s})
    BY <1>8 DEF Has
  <2>2. PICK j \in DOMAIN q : Among(q[j], P, {s})
    BY <1>8 DEF Has
  <2>3. i = j
    BY <1>8, <2>1, <2>2 DEF One, Among
  <2> QED
    BY <1>8, <2>1, <2>2, <2>3 DEF Among
<1>9. {"start"} \cap GoingOps = {} /\ {"read"} \cap RestOps = {}
  BY DEF GoingOps, RestOps
<1>10. One(q, LoopOps, {s}) => /\ ~(Has(q, {"start"}, {s}) /\ Has(q, GoingOps, {s}))
                              /\ ~(Has(q, {"read"}, {s}) /\ Has(q, RestOps, {s}))
  BY <1>7, <1>8, <1>9
<1> QED
  BY <1>1, <1>2, <1>3, <1>4, <1>5, <1>6, <1>7, <1>10

\* After p was posted by the operation op of s.
After(op, p, O, s) ==
    Has(strand', O, {s}) <=> Has(p, O, {s}) \/ (Has(strand, O, {s}) /\ op \notin O)

\* What the strand holds of s after one of its closures.
LEMMA OwnStep ==
    ASSUME strand \in Seq(Entry), NEW s, SocketInv(s),
           NEW op, NEW p \in Seq(Entry), Step(op, s, p)
    PROVE  /\ strand' \in Seq(Entry)
           /\ \A O : op \in O => Has(strand, O, {s})
           /\ After(op, p, LoopOps, s) /\ After(op, p, GoingOps, s) /\ After(op, p, RestOps, s)
           /\ After(op, p, {"start"}, s) /\ After(op, p, {"read"}, s)
           /\ After(op, p, {"readOk"}, s)
           /\ After(op, p, EndOps, s) /\ After(op, p, {"writeDone"}, s)
           /\ After(op, p, {"onConnected"}, s)
           /\ \A O : /\ One(strand, O, {s}) /\ One(p, O, {s})
                     /\ op \in O \/ ~Has(strand, O, {s}) \/ ~Has(p, O, {s})
                     => One(strand', O, {s})
           /\ ~Has(p, {"onConnected"}, {s}) => ConnectedFirst(strand', s)
           /\ Has(strand', AcceptedOps, {s}) =>
                 Has(strand, AcceptedOps, {s}) \/ Has(p, AcceptedOps, {s})
           /\ op \in LoopOps => ~Has(strand, {"onConnected"}, {s})
<1>1. /\ One(strand, LoopOps, {s}) /\ One(strand, EndOps, {s}) /\ One(strand, {"writeDone"}, {s})
      /\ One(strand, {"onConnected"}, {s}) /\ ConnectedFirst(strand, s)
  BY DEF SocketInv, LoopInv, EndInv, ToldInv
<1>2. /\ One(strand, GoingOps, {s}) /\ One(strand, RestOps, {s})
      /\ One(strand, {"start"}, {s}) /\ One(strand, {"read"}, {s}) /\ One(strand, {"readOk"}, {s})
  BY <1>1, Classes
<1>3. ASSUME NEW O, One(strand, O, {s})
      PROVE  After(op, p, O, s)
  <2>1. /\ Has(strand', O, {s}) => Has(strand, O, {s}) \/ Has(p, O, {s})
        /\ Has(p, O, {s}) => Has(strand', O, {s})
        /\ Has(strand, O, {s}) /\ ~(op \in O /\ s \in {s}) => Has(strand', O, {s})
        /\ One(strand, O, {s}) /\ op \in O /\ s \in {s} /\ ~Has(p, O, {s}) =>
              ~Has(strand', O, {s})
    BY StepFlow
  <2> QED
    BY <2>1, <1>3 DEF After
<1>4. ASSUME NEW O
      PROVE  /\ op \in O => Has(strand, O, {s})
             /\ /\ One(strand, O, {s}) /\ One(p, O, {s})
                /\ op \in O \/ ~Has(strand, O, {s}) \/ ~Has(p, O, {s})
                => One(strand', O, {s})
             /\ Has(strand', O, {s}) => Has(strand, O, {s}) \/ Has(p, O, {s})
  <2>1. /\ op \in O /\ s \in {s} => Has(strand, O, {s})
        /\ One(strand, O, {s}) /\ ~Has(p, O, {s}) => One(strand', O, {s})
        /\ /\ One(strand, O, {s}) /\ One(p, O, {s})
           /\ (op \in O /\ s \in {s}) \/ ~Has(strand, O, {s})
           => One(strand', O, {s})
        /\ Has(strand', O, {s}) => Has(strand, O, {s}) \/ Has(p, O, {s})
    BY StepFlow
  <2> QED
    BY <2>1
<1>5. /\ strand' \in Seq(Entry)
      /\ ~Has(p, {"onConnected"}, {s}) => ConnectedFirst(strand', s)
      /\ op \in LoopOps => ~Has(strand, {"onConnected"}, {s})
  BY <1>1, StepFlow
<1> QED
  BY <1>1, <1>2, <1>3, <1>4, <1>5

\* The same with an entry of s posted by a completion.
LEMMA OwnPost ==
    ASSUME strand \in Seq(Entry), NEW s \in Sockets, NEW op \in Closures, Post(op, s),
           op # "onConnected"
    PROVE  /\ strand' \in Seq(Entry)
           /\ \A O : Has(strand', O, {s}) <=> Has(strand, O, {s}) \/ op \in O
           /\ \A O : One(strand, O, {s}) /\ (op \notin O \/ ~Has(strand, O, {s})) =>
                        One(strand', O, {s})
           /\ ConnectedFirst(strand, s) => ConnectedFirst(strand', s)
<1>1. s \in Args
  BY DEF Args
<1>2. ASSUME NEW O
      PROVE  /\ Has(strand', O, {s}) <=> Has(strand, O, {s}) \/ op \in O
             /\ One(strand, O, {s}) /\ (op \notin O \/ ~Has(strand, O, {s})) =>
                   One(strand', O, {s})
  <2>1. /\ Has(strand', O, {s}) <=> Has(strand, O, {s}) \/ (op \in O /\ s \in {s})
        /\ One(strand, O, {s}) /\ ~(op \in O /\ s \in {s}) => One(strand', O, {s})
        /\ ~Has(strand, O, {s}) => One(strand', O, {s})
    BY <1>1, PostFlow
  <2> QED
    BY <2>1
<1>3. strand' \in Seq(Entry) /\ (ConnectedFirst(strand, s) => ConnectedFirst(strand', s))
  BY <1>1, PostFlow
<1> QED
  BY <1>2, <1>3

\* Which operation is of which class.
LEMMA Members ==
    /\ \A x : x \in LoopOps <=> x \in GoingOps \/ x = "start"
    /\ \A x : x \in GoingOps <=> x \in RestOps \/ x = "read"
    /\ \A x : x \in RestOps <=> x = "readOk" \/ x = "readClosed" \/ x = "readError"
    /\ \A x : x \in EndOps <=> x = "disconnected" \/ x = "release"
    /\ \A x : x \in EventOps <=>
                x \in EndOps \/ x = "onConnected" \/ x = "read" \/ x = "readOk"
    /\ \A x : x \in AcceptedOps <=> x = "acceptDone" \/ x = "OnAccepted"
    /\ \A x : x \in AcceptOps <=> x \in AcceptedOps \/ x = "listen" \/ x = "rearm"
    /\ LoopOps \subseteq Closures /\ EndOps \subseteq Closures /\ AcceptOps \subseteq Closures
BY DEF LoopOps, GoingOps, RestOps, EndOps, EventOps, AcceptedOps, AcceptOps, Closures

\* The socket has left what it was before it got a slot.
LEMMA NotNew ==
    ASSUME NEW s, SocketInv(s),
           \/ Has(strand, LoopOps, {s}) \/ Has(strand, EndOps, {s})
           \/ Has(strand, {"onConnected"}, {s}) \/ Has(strand, {"writeDone"}, {s})
           \/ s \in reading \/ writing[s] # Null,
           peer'[s] = peer[s],
           Has(strand', AcceptedOps, {s}) => Has(strand, AcceptedOps, {s})
    PROVE  NewInv(s)'
<1>1. ~Blank(s)
  BY Classes DEF Blank
<1>2. peer[s] \notin {"idle", "connecting"} /\ ~Has(strand, AcceptedOps, {s})
  BY <1>1 DEF SocketInv, NewInv
<1> QED
  BY <1>2 DEF NewInv

\* A step of the read loop of s, which posts the next and, when it noticed the
\* end of the connection, on_disconnected_ or the release.
LEMMA LoopStep ==
    ASSUME TypeOK, NEW s \in Sockets, SocketInv(s),
           NEW op \in LoopOps, NEW p \in Seq(Entry), Step(op, s, p),
           One(p, LoopOps, {s}), One(p, EndOps, {s}),
           ~Has(p, AcceptedOps, {s}), ~Has(p, {"onConnected"}, {s}), ~Has(p, {"writeDone"}, {s}),
           Has(p, EndOps, {s}) => op \in GoingOps,
           UNCHANGED <<client_connections, id, told, disconnects, peer>>
    PROVE  /\ s \notin reading /\ writing[s] = Null
           /\ ~Has(strand', {"writeDone"}, {s}) /\ One(strand', {"writeDone"}, {s})
           /\ One(strand', LoopOps, {s})
           /\ \A O : O \subseteq LoopOps => (Has(strand', O, {s}) <=> Has(p, O, {s}))
           /\ Has(strand', EndOps, {s}) <=> Has(strand, EndOps, {s}) \/ Has(p, EndOps, {s})
           /\ Has(strand, {op}, {s})
           /\ op = "start" => ~Going(s)
           /\ op = "start" => Live(s) \/ stopped[s]
           /\ op \in GoingOps => Live(s) /\ told[s] = "connected" /\ Going(s)
           /\ InSlot(s)' <=> InSlot(s)
           /\ EndInv(s)' /\ SlotInv(s)' /\ ToldInv(s)' /\ NewInv(s)'
<1>1. strand \in Seq(Entry)
  BY DEF TypeOK
<1>2. /\ Has(strand, LoopOps, {s}) /\ Has(strand, {op}, {s})
      /\ op \in GoingOps => Has(strand, GoingOps, {s})
      /\ ~Has(strand, {"onConnected"}, {s})
  BY <1>1, OwnStep
<1>3. s \notin reading /\ writing[s] = Null /\ ~Has(strand, {"writeDone"}, {s})
  BY <1>2 DEF SocketInv, LoopInv
<1>4. /\ After(op, p, EndOps, s) /\ After(op, p, {"writeDone"}, s)
      /\ After(op, p, {"onConnected"}, s) /\ ConnectedFirst(strand', s)
      /\ Has(strand', AcceptedOps, {s}) => Has(strand, AcceptedOps, {s})
  BY <1>1, OwnStep
<1>5. /\ Has(strand', EndOps, {s}) <=> Has(strand, EndOps, {s}) \/ Has(p, EndOps, {s})
      /\ ~Has(strand', {"writeDone"}, {s}) /\ ~Has(strand', {"onConnected"}, {s})
  BY <1>2, <1>3, <1>4, Members DEF After
<1>6. /\ One(strand', {"writeDone"}, {s}) /\ One(strand', {"onConnected"}, {s})
  BY <1>5, NoneOne
<1>7. One(strand', LoopOps, {s})
  BY <1>1, OwnStep DEF SocketInv, LoopInv
<1>8. InSlot(s)' <=> InSlot(s)
  BY DEF InSlot
<1>9. ASSUME op \in GoingOps
      PROVE  Live(s) /\ told[s] = "connected" /\ Going(s)
  <2>1. Going(s) /\ Live(s)
    BY <1>2, <1>9 DEF SocketInv, LiveInv, Going
  <2>2. told[s] # "nothing" /\ told[s] # "disconnected"
    BY <1>2, <2>1 DEF SocketInv, ToldInv, SlotInv, Live
  <2>3. told[s] \in {"nothing", "connected", "disconnected"}
    BY DEF TypeOK
  <2> QED
    BY <2>1, <2>2, <2>3
<1>10. op = "start" => ~Going(s) /\ (Live(s) \/ stopped[s])
  <2> SUFFICES ASSUME op = "start"
               PROVE  ~Going(s) /\ (Live(s) \/ stopped[s])
    OBVIOUS
  <2>1. Has(strand, {"start"}, {s}) /\ One(strand, LoopOps, {s})
    BY <1>2 DEF SocketInv, LoopInv
  <2>2. ~Has(strand, GoingOps, {s})
    BY <2>1, Classes
  <2> QED
    BY <1>3, <2>1, <2>2 DEF SocketInv, LiveInv, Going
<1>11. EndInv(s)'
  <2>1. One(strand, EndOps, {s}) /\ (Has(strand, EndOps, {s}) => InSlot(s) /\ told[s] = "connected")
    BY DEF SocketInv, EndInv
  <2>2. Has(p, EndOps, {s}) => ~Has(strand, EndOps, {s}) /\ InSlot(s) /\ told[s] = "connected"
    BY <1>9 DEF Live
  <2>3. One(strand', EndOps, {s})
    BY <1>1, <2>1, <2>2, OwnStep
  <2> QED
    BY <1>5, <1>8, <2>1, <2>2, <2>3 DEF EndInv
<1>12. SlotInv(s)'
  BY <1>8 DEF SocketInv, SlotInv
<1>13. ToldInv(s)'
  BY <1>2, <1>4, <1>5, <1>6, <1>8 DEF SocketInv, ToldInv
<1>14. NewInv(s)'
  BY <1>2, <1>4, NotNew
<1>15. ASSUME NEW O, O \subseteq LoopOps
       PROVE  Has(strand', O, {s}) <=> Has(p, O, {s})
  <2> DEFINE r == Tail(strand)
  <2>1. strand # <<>> /\ Head(strand) = E(op, s) /\ strand' = r \o p
    BY DEF Step, Runs
  <2>2. Among(Head(strand), LoopOps, {s})
    BY <2>1 DEF Among, E
  <2>3. r \in Seq(Entry) /\ ~Has(r, LoopOps, {s})
    BY <1>1, <2>1, <2>2, HeadTail DEF SocketInv, LoopInv
  <2> HIDE DEF r
  <2>4. ~Has(r, O, {s})
    BY <1>15, <2>3, NoneOne
  <2> QED
    BY <2>1, <2>3, <2>4, Concat
<1> QED
  BY <1>2, <1>3, <1>5, <1>6, <1>7, <1>8, <1>9, <1>10, <1>11, <1>12, <1>13, <1>14, <1>15

\* Nothing was received or delivered, and no read began on a closed socket.
LEMMA DataKept ==
    ASSUME NEW s, SocketInv(s),
           Has(strand', {"readOk"}, {s}) <=> Has(strand, {"readOk"}, {s}),
           delivered'[s] = delivered[s], unread'[s] = unread[s], sent'[s] = sent[s],
           open'[s] => open[s], ~open[s] /\ Going(s)' => Going(s)
    PROVE  DataInv(s)'
<1>1. Received(s)' = Received(s)
  BY DEF Received, Flag
<1> QED
  BY <1>1 DEF SocketInv, DataInv

\* TcpSocket::Start goes on only with a socket that is open.
LEMMA StartSocketOwn ==
    ASSUME TypeOK, NEW s \in Sockets, SocketInv(s), StartSocket(s)
    PROVE  SocketInv(s)'
<1> DEFINE p == IF open[s] THEN <<E("read", s)>> ELSE <<>>
<1>1. /\ p \in Seq(Entry) /\ \A O : One(p, O, {s})
      /\ \A O : Has(p, O, {s}) <=> open[s] /\ "read" \in O
  BY Posts DEF Args, Closures
<1>2. Step("start", s, p)
  BY DEF StartSocket
<1>3. UNCHANGED <<client_connections, id, stopped, open, reading, writing, peer, unread, sent,
                  delivered, told, disconnects>>
  BY DEF StartSocket, socketVars, ioVars, peerVars, events
<1> HIDE DEF p
<1>4. /\ ~Has(p, AcceptedOps, {s}) /\ ~Has(p, {"onConnected"}, {s})
      /\ ~Has(p, {"writeDone"}, {s}) /\ ~Has(p, EndOps, {s}) /\ "start" \in LoopOps
      /\ GoingOps \subseteq LoopOps /\ {"start"} \subseteq LoopOps /\ {"readOk"} \subseteq LoopOps
      /\ "start" \notin GoingOps
      /\ ~Has(p, {"start"}, {s}) /\ ~Has(p, {"readOk"}, {s})
      /\ Has(p, GoingOps, {s}) <=> open[s]
  BY <1>1, Members
<1>5. /\ s \notin reading /\ writing[s] = Null
      /\ ~Has(strand', {"writeDone"}, {s}) /\ One(strand', {"writeDone"}, {s})
      /\ One(strand', LoopOps, {s})
      /\ Has(strand', EndOps, {s}) <=> Has(strand, EndOps, {s})
      /\ Has(strand', GoingOps, {s}) <=> open[s]
      /\ ~Has(strand', {"start"}, {s}) /\ ~Has(strand', {"readOk"}, {s})
      /\ ~Going(s) /\ (Live(s) \/ stopped[s])
      /\ InSlot(s)' <=> InSlot(s)
      /\ EndInv(s)' /\ SlotInv(s)' /\ ToldInv(s)' /\ NewInv(s)'
  BY <1>1, <1>2, <1>3, <1>4, LoopStep
<1>6. LoopInv(s)'
  BY <1>3, <1>5 DEF LoopInv
<1>7. LiveInv(s)'
  BY <1>3, <1>5 DEF SocketInv, LiveInv, Going, Live
<1>8. Going(s)' <=> open[s]
  BY <1>3, <1>5 DEF Going
<1>9. Has(strand, {"readOk"}, {s}) => Going(s)
  BY Classes DEF Going
<1>10. DataInv(s)'
  BY <1>3, <1>5, <1>8, <1>9, DataKept
<1> QED
  BY <1>5, <1>6, <1>7, <1>10 DEF SocketInv

\* on_data_ is raised by the read loop, which goes on, or waits for a write to
\* the socket itself: it is in the slot of its id.
LEMMA RaiseOwn ==
    ASSUME TypeOK, NEW s \in Sockets, SocketInv(s),
           NEW op \in GoingOps, NEW posts \in Seq(Entry), RaiseOnData(s, op, posts),
           One(posts, EndOps, {s}), \A O : O \cap EndOps = {} => ~Has(posts, O, {s}),
           UNCHANGED <<client_connections, id, told, disconnects, peer, open, reading>>,
           Has(posts, EndOps, {s}) => stopped'[s], stopped'[s] => ~open[s],
           Null \notin Sockets
    PROVE  /\ LoopInv(s)' /\ LiveInv(s)' /\ EndInv(s)' /\ SlotInv(s)' /\ ToldInv(s)' /\ NewInv(s)'
           /\ ~Going(s)' /\ ~Has(strand', {"readOk"}, {s})
           /\ Going(s) /\ delivered'[s] = delivered[s] + 1
<1> DEFINE next == <<E("start", s)>>
<1>1. /\ next \in Seq(Entry)
      /\ \A O : Has(next, O, {s}) <=> "start" \in O
      /\ \A O : One(next, O, {s})
  BY Posts DEF Args, Closures
<1> HIDE DEF next
<1>2. /\ posts \o next \in Seq(Entry)
      /\ \A O : Has(posts \o next, O, {s}) <=> Has(posts, O, {s}) \/ "start" \in O
      /\ \A O : One(posts, O, {s}) /\ ~(Has(posts, O, {s}) /\ "start" \in O) =>
                   One(posts \o next, O, {s})
  BY <1>1, Concat
<1>3. /\ LoopOps \cap EndOps = {} /\ "start" \notin EndOps /\ AcceptedOps \cap EndOps = {}
      /\ {"onConnected"} \cap EndOps = {} /\ {"writeDone"} \cap EndOps = {}
      /\ GoingOps \cap EndOps = {} /\ {"readOk"} \cap EndOps = {}
      /\ "start" \notin AcceptedOps /\ "start" \notin {"onConnected"}
      /\ "start" \notin {"writeDone"} /\ "start" \notin GoingOps /\ "start" \notin {"readOk"}
      /\ GoingOps \subseteq LoopOps /\ {"readOk"} \subseteq LoopOps /\ {"start"} \subseteq LoopOps
      /\ op \in LoopOps /\ op # "start" /\ {"start"} \cap EndOps = {}
  BY Members
<1>4. /\ ~Has(posts, LoopOps, {s}) /\ ~Has(posts, AcceptedOps, {s})
      /\ ~Has(posts, {"onConnected"}, {s}) /\ ~Has(posts, {"writeDone"}, {s})
      /\ ~Has(posts, GoingOps, {s}) /\ ~Has(posts, {"readOk"}, {s}) /\ ~Has(posts, {"start"}, {s})
  BY <1>3
<1>5. One(posts, LoopOps, {s})
  BY <1>4, NoneOne
<1> DEFINE to == GetSocket(id[s])
<1>6. PICK p \in Seq(Entry) :
         /\ Step(op, s, p)
         /\ \/ p = posts \o next /\ writing' = writing
            \/ p = posts /\ to # Null /\ writing' = [writing EXCEPT ![s] = to]
  <2>1. \/ to # Null /\ writing' = [writing EXCEPT ![s] = to] /\ Step(op, s, posts)
        \/ UNCHANGED writing /\ Step(op, s, posts \o next)
    BY DEF RaiseOnData, next
  <2> QED
    BY <1>2, <2>1
<1> HIDE DEF to
<1>7. /\ One(p, LoopOps, {s}) /\ One(p, EndOps, {s})
      /\ ~Has(p, AcceptedOps, {s}) /\ ~Has(p, {"onConnected"}, {s}) /\ ~Has(p, {"writeDone"}, {s})
      /\ ~Has(p, GoingOps, {s}) /\ ~Has(p, {"readOk"}, {s})
      /\ Has(p, EndOps, {s}) <=> Has(posts, EndOps, {s})
      /\ p = posts => ~Has(p, LoopOps, {s}) /\ ~Has(p, {"start"}, {s})
  BY <1>2, <1>3, <1>4, <1>5, <1>6
<1>8. /\ s \notin reading /\ writing[s] = Null
      /\ ~Has(strand', {"writeDone"}, {s}) /\ One(strand', {"writeDone"}, {s})
      /\ One(strand', LoopOps, {s})
      /\ \A O : O \subseteq LoopOps => (Has(strand', O, {s}) <=> Has(p, O, {s}))
      /\ Has(strand', EndOps, {s}) <=> Has(strand, EndOps, {s}) \/ Has(p, EndOps, {s})
      /\ Live(s) /\ told[s] = "connected" /\ Going(s)
      /\ InSlot(s)' <=> InSlot(s)
      /\ EndInv(s)' /\ SlotInv(s)' /\ ToldInv(s)' /\ NewInv(s)'
  BY <1>3, <1>6, <1>7, LoopStep
<1>9. /\ ~Has(strand', GoingOps, {s}) /\ ~Has(strand', {"readOk"}, {s})
      /\ Has(strand', LoopOps, {s}) <=> Has(p, LoopOps, {s})
      /\ Has(strand', {"start"}, {s}) <=> Has(p, {"start"}, {s})
  BY <1>3, <1>7, <1>8
<1>10. to = s /\ s # Null
  BY <1>8 DEF Live, InSlot, to, GetSocket
<1>11. /\ writing'[s] \in {Null, s}
       /\ writing'[s] # Null => p = posts
  BY <1>6, <1>8, <1>10 DEF TypeOK
<1>12. LoopInv(s)'
  BY <1>7, <1>8, <1>9, <1>11 DEF LoopInv
<1>13. ~Going(s)'
  BY <1>8, <1>9 DEF Going
<1>14. LiveInv(s)'
  <2>1. ~stopped'[s] => Live(s)'
    BY <1>7, <1>8 DEF Live
  <2>2. Live(s)' \/ stopped'[s]
    BY <2>1
  <2> QED
    BY <1>13, <2>2 DEF LiveInv
<1>15. delivered'[s] = delivered[s] + 1
  BY DEF RaiseOnData, TypeOK
<1> QED
  BY <1>8, <1>9, <1>12, <1>13, <1>14, <1>15

\* Start's closure: async_read_some, or, with a closed socket, the buffer.
LEMMA ReadOwn ==
    ASSUME TypeOK, NEW s \in Sockets, SocketInv(s), Read(s), Null \notin Sockets
    PROVE  SocketInv(s)'
<1>1. UNCHANGED <<client_connections, id, stopped, open, peer, unread, sent, told, disconnects>>
  BY DEF Read, socketVars, peerVars
<1>2. "read" \in GoingOps /\ "read" \in LoopOps
  BY Members
<1>3. CASE open[s]
  <2>1. /\ Step("read", s, <<>>) /\ reading' = reading \cup {s}
        /\ UNCHANGED <<delivered, writing>>
    BY <1>3 DEF Read
  <2>2. /\ <<>> \in Seq(Entry)
        /\ \A O : ~Has(<<>>, O, {s}) /\ One(<<>>, O, {s})
    BY Posts
  <2>3. /\ writing[s] = Null
        /\ ~Has(strand', {"writeDone"}, {s}) /\ One(strand', {"writeDone"}, {s})
        /\ One(strand', LoopOps, {s})
        /\ \A O : O \subseteq LoopOps => ~Has(strand', O, {s})
        /\ Has(strand', EndOps, {s}) <=> Has(strand, EndOps, {s})
        /\ Live(s) /\ Going(s)
        /\ InSlot(s)' <=> InSlot(s)
        /\ EndInv(s)' /\ SlotInv(s)' /\ ToldInv(s)' /\ NewInv(s)'
    BY <1>1, <1>2, <2>1, <2>2, LoopStep
  <2>4. /\ ~Has(strand', LoopOps, {s}) /\ ~Has(strand', {"start"}, {s})
        /\ ~Has(strand', {"readOk"}, {s})
    BY <2>3, Members
  <2>5. ~Has(strand, {"readOk"}, {s})
    <3>1. Has(strand, {"read"}, {s}) /\ One(strand, LoopOps, {s})
      BY <2>1, <2>2, OwnStep DEF TypeOK, SocketInv, LoopInv
    <3> QED
      BY <3>1, Classes
  <2>6. LoopInv(s)'
    BY <2>1, <2>3, <2>4 DEF LoopInv
  <2>7. LiveInv(s)'
    BY <1>1, <2>3 DEF LiveInv, Live, SocketInv
  <2>8. DataInv(s)'
    BY <1>1, <1>3, <2>1, <2>4, <2>5, DataKept
  <2> QED
    BY <2>3, <2>6, <2>7, <2>8 DEF SocketInv
<1>4. CASE ~open[s]
  <2>1. RaiseOnData(s, "read", <<>>) /\ UNCHANGED reading
    BY <1>4 DEF Read
  <2>2. <<>> \in Seq(Entry) /\ \A O : ~Has(<<>>, O, {s}) /\ One(<<>>, O, {s})
    BY Posts
  <2>3. /\ LoopInv(s)' /\ LiveInv(s)' /\ EndInv(s)' /\ SlotInv(s)' /\ ToldInv(s)' /\ NewInv(s)'
        /\ ~Going(s)' /\ ~Has(strand', {"readOk"}, {s})
        /\ Going(s) /\ delivered'[s] = delivered[s] + 1
    BY <1>1, <1>2, <1>4, <2>1, <2>2, RaiseOwn
  <2>4. Received(s) <= sent[s]
    BY <1>4, <2>3 DEF SocketInv, DataInv
  <2>5. Received(s)' <= Received(s) + 1
    <3>1. delivered[s] \in Nat
      BY DEF TypeOK
    <3> QED
      BY <1>1, <2>3, <3>1 DEF Received, Flag
  <2>6. Received(s) \in Nat /\ sent[s] \in Nat /\ Received(s)' \in Nat
    <3>1. delivered[s] \in Nat /\ sent[s] \in Nat
      BY DEF TypeOK
    <3> QED
      BY <2>3, <3>1 DEF Received, Flag
  <2>7. Received(s)' <= sent'[s] + 1
    BY <1>1, <2>4, <2>5, <2>6
  <2>8. DataInv(s)'
    BY <1>1, <1>4, <2>3, <2>7 DEF DataInv
  <2> QED
    BY <2>3, <2>8 DEF SocketInv
<1> QED
  BY <1>3, <1>4

\* What PostDisconnected posts, and what it marks.
LEMMA Notices ==
    ASSUME TypeOK, NEW s \in Sockets, ClosedAfter(s)
    PROVE  /\ PostDisconnected(s) \in Seq(Entry)
           /\ \A O, A : One(PostDisconnected(s), O, A)
           /\ \A O, A : Has(PostDisconnected(s), O, A) <=>
                           ~open[s] /\ ~stopped[s] /\ "disconnected" \in O /\ s \in A
           /\ \A t \in Sockets : t # s => Apart(PostDisconnected(s), t) /\ stopped'[t] = stopped[t]
           /\ stopped'[s] <=> stopped[s] \/ ~open[s]
           /\ stopped' \in [Sockets -> BOOLEAN]
<1> DEFINE p == <<E("disconnected", s)>>
<1>1. /\ p \in Seq(Entry)
      /\ \A O, A : Has(p, O, A) <=> "disconnected" \in O /\ s \in A
      /\ \A O, A : One(p, O, A)
      /\ <<>> \in Seq(Entry)
      /\ \A O, A : ~Has(<<>>, O, A) /\ One(<<>>, O, A)
  BY Posts DEF Args, Closures
<1>2. PostDisconnected(s) = IF Noticed(s) THEN p ELSE <<>>
  BY DEF PostDisconnected
<1>3. \A t \in Sockets : t # s => Apart(p, t) /\ Apart(<<>>, t)
  BY ApartPosts DEF Args, Closures
<1>4. stopped' = IF Noticed(s) THEN [stopped EXCEPT ![s] = TRUE] ELSE stopped
  BY DEF ClosedAfter
<1>5. stopped \in [Sockets -> BOOLEAN]
  BY DEF TypeOK
<1>6. Noticed(s) <=> ~open[s] /\ ~stopped[s]
  BY DEF Noticed
<1> HIDE DEF p
<1>7. /\ \A t \in Sockets : t # s => stopped'[t] = stopped[t]
      /\ stopped' \in [Sockets -> BOOLEAN]
  BY <1>4, <1>5
<1>8. stopped'[s] <=> stopped[s] \/ ~open[s]
  <2>1. CASE Noticed(s)
    BY <2>1, <1>4, <1>5, <1>6
  <2>2. CASE ~Noticed(s)
    BY <2>2, <1>4, <1>6
  <2> QED
    BY <2>1, <2>2
<1>9. CASE Noticed(s)
  BY <1>1, <1>2, <1>3, <1>6, <1>7, <1>8, <1>9
<1>10. CASE ~Noticed(s)
  BY <1>1, <1>2, <1>3, <1>6, <1>7, <1>8, <1>10
<1> QED
  BY <1>9, <1>10

\* The rest of the closure after a read with data.
LEMMA ReadOkOwn ==
    ASSUME TypeOK, NEW s \in Sockets, SocketInv(s), ReadOk(s), Null \notin Sockets
    PROVE  SocketInv(s)'
<1> DEFINE posts == PostDisconnected(s)
<1>1. /\ UNCHANGED <<client_connections, id, open, peer, unread, sent, told, disconnects, reading>>
      /\ ClosedAfter(s) /\ RaiseOnData(s, "readOk", posts) /\ Runs("readOk", s)
  BY DEF ReadOk, peerVars
<1>2. /\ posts \in Seq(Entry) /\ One(posts, EndOps, {s})
      /\ \A O : Has(posts, O, {s}) <=> ~open[s] /\ ~stopped[s] /\ "disconnected" \in O
      /\ stopped'[s] <=> stopped[s] \/ ~open[s]
  BY <1>1, Notices
<1> HIDE DEF posts
<1>3. stopped'[s] => ~open[s]
  BY <1>2 DEF SocketInv, LiveInv
<1>4. /\ "readOk" \in GoingOps
      /\ \A O : O \cap EndOps = {} => ~Has(posts, O, {s})
      /\ Has(posts, EndOps, {s}) => stopped'[s]
  BY <1>2, Members
<1>5. /\ LoopInv(s)' /\ LiveInv(s)' /\ EndInv(s)' /\ SlotInv(s)' /\ ToldInv(s)' /\ NewInv(s)'
      /\ ~Going(s)' /\ ~Has(strand', {"readOk"}, {s})
      /\ Going(s) /\ delivered'[s] = delivered[s] + 1
  BY <1>1, <1>2, <1>3, <1>4, RaiseOwn
<1>6. Has(strand, {"readOk"}, {s})
  <2>1. strand \in Seq(Entry) /\ strand # <<>> /\ Head(strand) = E("readOk", s)
    BY <1>1 DEF TypeOK, Runs
  <2>2. Among(Head(strand), {"readOk"}, {s})
    BY <2>1 DEF Among, E
  <2> QED
    BY <2>1, <2>2, HeadTail
<1>7. Received(s) <= sent[s]
  BY <1>5 DEF SocketInv, DataInv
<1>8. Received(s)' = Received(s)
  <2>1. delivered[s] \in Nat
    BY DEF TypeOK
  <2> QED
    BY <1>1, <1>5, <1>6, <2>1 DEF Received, Flag
<1>9. DataInv(s)'
  BY <1>1, <1>7, <1>8 DEF DataInv
<1> QED
  BY <1>5, <1>9 DEF SocketInv

\* The rest of the closure after a read without data: the end of the
\* connection is posted once, and the loop ends.
LEMMA EndPosts ==
    ASSUME TypeOK, NEW s \in Sockets, SocketInv(s), NEW op \in {"readClosed", "readError"},
           ReadEnds(s, op)
    PROVE  \E p \in Seq(Entry) :
              /\ Step(op, s, p)
              /\ One(p, EndOps, {s}) /\ ~Has(p, AcceptOps, Args) /\ ~Has(p, EventOps, {Null})
              /\ Has(p, EndOps, {s}) <=> ~stopped[s]
              /\ \A O : O \cap (EndOps \cup {"close"}) = {} => ~Has(p, O, {s})
              /\ \A t \in Sockets : t # s => Apart(p, t)
<1> DEFINE a == PostDisconnected(s)
           b == IF op = "readError" THEN StopSocket(s) ELSE <<>>
           c == IF stopped'[s] THEN <<>> ELSE <<E("release", s)>>
<1>1. Step(op, s, a \o b \o c) /\ ClosedAfter(s)
  BY DEF ReadEnds
<1>2. /\ a \in Seq(Entry) /\ \A O, A : One(a, O, A)
      /\ \A O, A : Has(a, O, A) <=> ~open[s] /\ ~stopped[s] /\ "disconnected" \in O /\ s \in A
      /\ \A t \in Sockets : t # s => Apart(a, t)
      /\ stopped'[s] <=> stopped[s] \/ ~open[s]
  BY <1>1, Notices
<1>3. /\ b \in Seq(Entry) /\ \A O, A : One(b, O, A)
      /\ \A O, A : Has(b, O, A) => "close" \in O
      /\ \A t \in Sockets : t # s => Apart(b, t)
  BY Posts, ApartPosts DEF Args, Closures, StopSocket
<1>4. /\ c \in Seq(Entry) /\ \A O, A : One(c, O, A)
      /\ \A O, A : Has(c, O, A) <=> ~stopped'[s] /\ "release" \in O /\ s \in A
      /\ \A t \in Sockets : t # s => Apart(c, t)
  <2>1. CASE stopped'[s]
    BY <2>1, Posts, ApartPosts
  <2>2. CASE ~stopped'[s]
    BY <2>2, Posts, ApartPosts DEF Args, Closures
  <2> QED
    BY <2>1, <2>2
<1> HIDE DEF a, b, c
<1>5. /\ a \o b \in Seq(Entry)
      /\ \A O, A : Has(a \o b, O, A) <=> Has(a, O, A) \/ Has(b, O, A)
      /\ \A O, A : ~Has(b, O, A) => One(a \o b, O, A)
  BY <1>2, <1>3, Concat
<1>6. /\ (a \o b) \o c \in Seq(Entry)
      /\ \A O, A : Has((a \o b) \o c, O, A) <=> Has(a \o b, O, A) \/ Has(c, O, A)
      /\ \A O, A : One(a \o b, O, A) /\ ~(Has(a \o b, O, A) /\ Has(c, O, A)) =>
                      One((a \o b) \o c, O, A)
  BY <1>4, <1>5, Concat
<1>7. \A t \in Sockets : t # s => Apart((a \o b) \o c, t)
  <2> TAKE t \in Sockets
  <2>1. t # s => Apart(a \o b, t)
    BY <1>2, <1>3, ApartPosts
  <2> QED
    BY <1>4, <1>5, <2>1, ApartPosts
<1>8. "close" \notin EndOps /\ "disconnected" \in EndOps /\ "release" \in EndOps
  BY Members
<1>9. One((a \o b) \o c, EndOps, {s})
  <2>1. ~Has(b, EndOps, {s}) /\ ~(Has(a, EndOps, {s}) /\ Has(c, EndOps, {s}))
    BY <1>2, <1>3, <1>4, <1>8
  <2> QED
    BY <1>5, <1>6, <2>1
<1>10. Has((a \o b) \o c, EndOps, {s}) <=> ~stopped[s]
  <2>1. stopped[s] => ~open[s]
    BY DEF SocketInv, LiveInv
  <2>2. Has((a \o b) \o c, EndOps, {s}) <=> Has(a, EndOps, {s}) \/ Has(c, EndOps, {s})
    BY <1>3, <1>5, <1>6, <1>8
  <2> QED
    BY <1>2, <1>4, <1>8, <2>1, <2>2
<1>11. \A O : O \cap (EndOps \cup {"close"}) = {} => ~Has((a \o b) \o c, O, {s})
  BY <1>2, <1>3, <1>4, <1>5, <1>6, <1>8
<1>12. ~Has((a \o b) \o c, AcceptOps, Args) /\ ~Has((a \o b) \o c, EventOps, {Null})
  <2>1. /\ ~Has(a, AcceptOps, Args) /\ ~Has(b, AcceptOps, Args) /\ ~Has(c, AcceptOps, Args)
        /\ ~Has(a, EventOps, {Null}) /\ ~Has(b, EventOps, {Null}) /\ ~Has(c, EventOps, {Null})
    BY <1>2, <1>3, <1>4, Members, ServerAssumption
  <2> QED
    BY <1>5, <1>6, <2>1
<1> QED
  BY <1>1, <1>6, <1>7, <1>9, <1>10, <1>11, <1>12

\* The end of the loop of s: its end is posted once, or noticed before.
LEMMA ReadEndsOwn ==
    ASSUME TypeOK, NEW s \in Sockets, SocketInv(s), NEW op \in {"readClosed", "readError"},
           ReadEnds(s, op)
    PROVE  SocketInv(s)'
<1>1. /\ UNCHANGED <<client_connections, id, open, peer, unread, sent, told, disconnects, reading,
                     writing, delivered>>
      /\ ClosedAfter(s)
  BY DEF ReadEnds, ioVars, peerVars, events
<1>2. stopped'[s] <=> stopped[s] \/ ~open[s]
  BY <1>1, Notices
<1>3. PICK p \in Seq(Entry) :
         /\ Step(op, s, p)
         /\ One(p, EndOps, {s}) /\ ~Has(p, AcceptOps, Args) /\ ~Has(p, EventOps, {Null})
         /\ Has(p, EndOps, {s}) <=> ~stopped[s]
         /\ \A O : O \cap (EndOps \cup {"close"}) = {} => ~Has(p, O, {s})
         /\ \A t \in Sockets : t # s => Apart(p, t)
  BY EndPosts
<1>4. /\ LoopOps \cap (EndOps \cup {"close"}) = {} /\ GoingOps \cap (EndOps \cup {"close"}) = {}
      /\ AcceptedOps \cap (EndOps \cup {"close"}) = {}
      /\ {"onConnected"} \cap (EndOps \cup {"close"}) = {}
      /\ {"writeDone"} \cap (EndOps \cup {"close"}) = {}
      /\ op \in GoingOps /\ op \in LoopOps /\ op \in RestOps
      /\ GoingOps \subseteq LoopOps /\ {"readOk"} \subseteq LoopOps /\ {"start"} \subseteq LoopOps
      /\ {"readOk"} \cap (EndOps \cup {"close"}) = {} /\ {"start"} \cap (EndOps \cup {"close"}) = {}
      /\ op # "start" /\ op # "readOk"
  BY Members
<1>5. /\ ~Has(p, LoopOps, {s}) /\ ~Has(p, AcceptedOps, {s}) /\ ~Has(p, GoingOps, {s})
      /\ ~Has(p, {"onConnected"}, {s}) /\ ~Has(p, {"writeDone"}, {s})
      /\ ~Has(p, {"readOk"}, {s}) /\ ~Has(p, {"start"}, {s}) /\ One(p, LoopOps, {s})
  BY <1>3, <1>4, NoneOne
<1>6. /\ s \notin reading /\ writing[s] = Null
      /\ ~Has(strand', {"writeDone"}, {s}) /\ One(strand', {"writeDone"}, {s})
      /\ One(strand', LoopOps, {s})
      /\ \A O : O \subseteq LoopOps => (Has(strand', O, {s}) <=> Has(p, O, {s}))
      /\ Has(strand, {op}, {s})
      /\ Going(s)
      /\ EndInv(s)' /\ SlotInv(s)' /\ ToldInv(s)' /\ NewInv(s)'
  BY <1>1, <1>3, <1>4, <1>5, LoopStep
<1>7. /\ ~Has(strand', LoopOps, {s}) /\ ~Has(strand', GoingOps, {s})
      /\ ~Has(strand', {"readOk"}, {s}) /\ ~Has(strand', {"start"}, {s})
  BY <1>4, <1>5, <1>6
<1>8. LoopInv(s)'
  BY <1>1, <1>6, <1>7 DEF LoopInv
<1>9. ~Going(s)'
  BY <1>1, <1>6, <1>7 DEF Going
<1>10. LiveInv(s)'
  BY <1>1, <1>2, <1>6, <1>7, <1>9 DEF SocketInv, LiveInv
<1>11. ~Has(strand, {"readOk"}, {s})
  <2>1. One(strand, LoopOps, {s})
    BY DEF SocketInv, LoopInv
  <2>2. PICK i \in DOMAIN strand : Among(strand[i], {op}, {s})
    BY <1>6 DEF Has
  <2>3. ASSUME NEW j \in DOMAIN strand, Among(strand[j], {"readOk"}, {s})
        PROVE  FALSE
    <3>1. Among(strand[i], LoopOps, {s}) /\ Among(strand[j], LoopOps, {s})
      BY <1>4, <2>2, <2>3 DEF Among
    <3>2. i = j
      BY <2>1, <2>2, <2>3, <3>1 DEF One
    <3> QED
      BY <1>4, <2>2, <2>3, <3>2 DEF Among
  <2> QED
    BY <2>3 DEF Has
<1>12. DataInv(s)'
  BY <1>1, <1>7, <1>9, <1>11, DataKept
<1> QED
  BY <1>6, <1>8, <1>10, <1>12 DEF SocketInv

\* async_read_some completes, and its rest is posted.
LEMMA ReadCompleteOwn ==
    ASSUME TypeOK, NEW s \in Sockets, SocketInv(s), ReadComplete(s)
    PROVE  SocketInv(s)'
<1>1. /\ UNCHANGED <<client_connections, id, open, stopped, peer, sent, told, disconnects, writing,
                     delivered>>
      /\ s \in reading /\ reading' = reading \ {s}
  BY DEF ReadComplete, socketVars, events
<1>2. PICK op \in RestOps :
         /\ Post(op, s)
         /\ op = "readOk" => unread[s] /\ unread' = [unread EXCEPT ![s] = FALSE]
         /\ op # "readOk" => unread' = unread
  <2>1. \/ unread[s] /\ unread' = [unread EXCEPT ![s] = FALSE] /\ Post("readOk", s)
        \/ Post("readClosed", s) /\ UNCHANGED unread
        \/ Post("readError", s) /\ UNCHANGED unread
    BY DEF ReadComplete
  <2> QED
    BY <2>1, Members
<1>3. /\ strand \in Seq(Entry) /\ op \in Closures /\ op # "onConnected" /\ op \in LoopOps
      /\ op \in GoingOps /\ op \notin EndOps /\ op # "start" /\ op # "writeDone"
      /\ op \notin AcceptedOps
  BY Members DEF TypeOK
<1>4. /\ ~Has(strand, LoopOps, {s}) /\ writing[s] = Null
      /\ Live(s) /\ Going(s) /\ ~Has(strand, {"onConnected"}, {s})
  BY <1>1 DEF SocketInv, LoopInv, LiveInv, Going, ToldInv
<1>5. ~Has(strand, GoingOps, {s}) /\ ~Has(strand, {"start"}, {s}) /\ ~Has(strand, {"readOk"}, {s})
  BY <1>4, Classes
<1>6. /\ Has(strand', {"start"}, {s}) <=> Has(strand, {"start"}, {s})
      /\ Has(strand', {"readOk"}, {s}) <=> op = "readOk"
      /\ Has(strand', EndOps, {s}) <=> Has(strand, EndOps, {s})
      /\ Has(strand', {"writeDone"}, {s}) <=> Has(strand, {"writeDone"}, {s})
      /\ ~Has(strand', {"onConnected"}, {s})
      /\ Has(strand', AcceptedOps, {s}) <=> Has(strand, AcceptedOps, {s})
      /\ \A O : One(strand, O, {s}) /\ (op \notin O \/ ~Has(strand, O, {s})) =>
                   One(strand', O, {s})
      /\ ConnectedFirst(strand, s) => ConnectedFirst(strand', s)
  BY <1>2, <1>3, <1>4, <1>5, OwnPost
<1>7. /\ One(strand', LoopOps, {s}) /\ One(strand', EndOps, {s}) /\ One(strand', {"writeDone"}, {s})
      /\ One(strand', {"onConnected"}, {s}) /\ ConnectedFirst(strand', s)
  <2>1. /\ One(strand, LoopOps, {s}) /\ One(strand, EndOps, {s}) /\ One(strand, {"writeDone"}, {s})
        /\ One(strand, {"onConnected"}, {s}) /\ ConnectedFirst(strand, s)
    BY DEF SocketInv, LoopInv, EndInv, ToldInv
  <2> QED
    BY <1>3, <1>4, <1>6, <2>1
<1>8. /\ InSlot(s)' <=> InSlot(s)
      /\ Live(s)'
  BY <1>1, <1>4, <1>6 DEF InSlot, Live
<1>9. LoopInv(s)'
  BY <1>1, <1>4, <1>6, <1>7 DEF SocketInv, LoopInv
<1>10. LiveInv(s)'
  BY <1>1, <1>8 DEF SocketInv, LiveInv
<1>11. EndInv(s)'
  BY <1>1, <1>6, <1>7, <1>8 DEF SocketInv, EndInv
<1>12. SlotInv(s)'
  BY <1>1, <1>8 DEF SocketInv, SlotInv
<1>13. ToldInv(s)'
  BY <1>1, <1>4, <1>6, <1>7, <1>8 DEF SocketInv, ToldInv
<1>14. NewInv(s)'
  BY <1>1, <1>6, NotNew
<1>15. Received(s) <= sent[s]
  <2>1. ~(~open[s] /\ ~Going(s))
    BY <1>4
  <2> QED
    BY <2>1 DEF SocketInv, DataInv
<1>16. Received(s)' = Received(s)
  <2>1. delivered[s] \in Nat /\ unread \in [Sockets -> BOOLEAN]
    BY DEF TypeOK
  <2>2. CASE op = "readOk"
    <3>1. unread[s] /\ ~unread'[s]
      BY <1>2, <2>1, <2>2
    <3> QED
      BY <1>1, <1>5, <1>6, <2>1, <2>2, <3>1 DEF Received, Flag
  <2>3. CASE op # "readOk"
    BY <1>1, <1>2, <1>5, <1>6, <2>3 DEF Received, Flag
  <2> QED
    BY <2>2, <2>3
<1>17. DataInv(s)'
  BY <1>1, <1>15, <1>16 DEF DataInv
<1> QED
  BY <1>9, <1>10, <1>11, <1>12, <1>13, <1>14, <1>17 DEF SocketInv

\* async_write completes, and its rest is posted.
LEMMA WriteCompleteOwn ==
    ASSUME TypeOK, NEW s \in Sockets, SocketInv(s), WriteComplete(s)
    PROVE  SocketInv(s)'
<1>1. /\ UNCHANGED <<client_connections, id, open, stopped, peer, sent, told, disconnects, writing,
                     delivered, unread, reading>>
      /\ Post("writeDone", s) /\ writing[s] # Null
  BY DEF WriteComplete, socketVars, events, ioVars, peerVars
<1>2. strand \in Seq(Entry) /\ "writeDone" \in Closures
  BY DEF TypeOK, Closures
<1>3. ~Has(strand, {"writeDone"}, {s})
  <2> SUFFICES ASSUME NEW i \in DOMAIN strand, Among(strand[i], {"writeDone"}, {s})
               PROVE  FALSE
    BY DEF Has
  <2>1. strand[i] \in Entry
    BY <1>2
  <2>2. strand[i] = E("writeDone", s)
    BY <2>1 DEF Among, Entry, E
  <2> QED
    BY <2>2 DEF WriteComplete
<1>4. /\ "writeDone" \notin LoopOps /\ "writeDone" \notin GoingOps /\ "writeDone" \notin EndOps
      /\ "writeDone" \notin AcceptedOps /\ "writeDone" \notin RestOps
  BY Members
<1>5. /\ Has(strand', LoopOps, {s}) <=> Has(strand, LoopOps, {s})
      /\ Has(strand', GoingOps, {s}) <=> Has(strand, GoingOps, {s})
      /\ Has(strand', {"start"}, {s}) <=> Has(strand, {"start"}, {s})
      /\ Has(strand', RestOps, {s}) <=> Has(strand, RestOps, {s})
      /\ Has(strand', {"readOk"}, {s}) <=> Has(strand, {"readOk"}, {s})
      /\ Has(strand', EndOps, {s}) <=> Has(strand, EndOps, {s})
      /\ Has(strand', {"onConnected"}, {s}) <=> Has(strand, {"onConnected"}, {s})
      /\ Has(strand', AcceptedOps, {s}) <=> Has(strand, AcceptedOps, {s})
      /\ \A O : One(strand, O, {s}) /\ ("writeDone" \notin O \/ ~Has(strand, O, {s})) =>
                   One(strand', O, {s})
      /\ ConnectedFirst(strand, s) => ConnectedFirst(strand', s)
  BY <1>1, <1>2, <1>4, OwnPost
<1>6. /\ One(strand', LoopOps, {s}) /\ One(strand', EndOps, {s}) /\ One(strand', {"writeDone"}, {s})
      /\ One(strand', {"onConnected"}, {s}) /\ ConnectedFirst(strand', s)
  <2>1. /\ One(strand, LoopOps, {s}) /\ One(strand, EndOps, {s}) /\ One(strand, {"writeDone"}, {s})
        /\ One(strand, {"onConnected"}, {s}) /\ ConnectedFirst(strand, s)
    BY DEF SocketInv, LoopInv, EndInv, ToldInv
  <2> QED
    BY <1>3, <1>4, <1>5, <2>1
<1>7. (InSlot(s)' <=> InSlot(s)) /\ (Live(s)' <=> Live(s)) /\ (Going(s)' <=> Going(s))
  BY <1>1, <1>5 DEF InSlot, Live, Going
<1>8. LoopInv(s)'
  BY <1>1, <1>5, <1>6 DEF SocketInv, LoopInv
<1>9. LiveInv(s)'
  BY <1>1, <1>5, <1>7 DEF SocketInv, LiveInv
<1>10. EndInv(s)'
  BY <1>1, <1>5, <1>6, <1>7 DEF SocketInv, EndInv
<1>11. SlotInv(s)'
  BY <1>1, <1>7 DEF SocketInv, SlotInv
<1>12. ToldInv(s)'
  <2>1. ~Has(strand', {"onConnected"}, {s})
    BY <1>1, <1>5 DEF SocketInv, ToldInv
  <2> QED
    BY <1>1, <1>5, <1>6, <1>7, <2>1 DEF SocketInv, ToldInv
<1>13. NewInv(s)'
  BY <1>1, <1>5, NotNew
<1>14. DataInv(s)'
  BY <1>1, <1>5, <1>7, DataKept
<1> QED
  BY <1>8, <1>9, <1>10, <1>11, <1>12, <1>13, <1>14 DEF SocketInv

\* What the rest of Write posts: the write was to the socket itself.
LEMMA WriteDonePosts ==
    ASSUME TypeOK, NEW s \in Sockets, SocketInv(s), WriteDone(s), Null \notin Sockets
    PROVE  /\ writing[s] = s /\ ClosedAfter(s) /\ Has(strand, {"writeDone"}, {s})
           /\ \E p \in Seq(Entry) :
                 /\ Step("writeDone", s, p)
                 /\ \A O : Has(p, O, {s}) <=>
                              ("start" \in O \/ (~open[s] /\ ~stopped[s] /\ "disconnected" \in O))
                 /\ One(p, EndOps, {s}) /\ One(p, LoopOps, {s})
                 /\ ~Has(p, AcceptOps, Args) /\ ~Has(p, EventOps, {Null})
                 /\ \A t \in Sockets : t # s => Apart(p, t)
<1> DEFINE a == PostDisconnected(s)
           b == <<E("start", s)>>
<1>1. Has(strand, {"writeDone"}, {s})
  <2>1. strand \in Seq(Entry) /\ strand # <<>> /\ Head(strand) = E("writeDone", s)
    BY DEF TypeOK, WriteDone, Step, Runs
  <2>2. Among(Head(strand), {"writeDone"}, {s})
    BY <2>1 DEF Among, E
  <2> QED
    BY <2>1, <2>2, HeadTail
<1>2. writing[s] = s
  BY <1>1 DEF SocketInv, LoopInv
<1>3. ClosedAfter(s) /\ Step("writeDone", s, a \o b)
  BY <1>2 DEF WriteDone
<1>4. /\ a \in Seq(Entry) /\ \A O, A : One(a, O, A)
      /\ \A O, A : Has(a, O, A) <=> ~open[s] /\ ~stopped[s] /\ "disconnected" \in O /\ s \in A
      /\ \A t \in Sockets : t # s => Apart(a, t)
  BY <1>3, Notices
<1>5. /\ b \in Seq(Entry) /\ \A O, A : One(b, O, A)
      /\ \A O, A : Has(b, O, A) <=> "start" \in O /\ s \in A
      /\ \A t \in Sockets : t # s => Apart(b, t)
  BY Posts, ApartPosts DEF Args, Closures
<1> HIDE DEF a, b
<1>6. /\ a \o b \in Seq(Entry)
      /\ \A O, A : Has(a \o b, O, A) <=> Has(a, O, A) \/ Has(b, O, A)
      /\ \A O, A : ~(Has(a, O, A) /\ Has(b, O, A)) => One(a \o b, O, A)
      /\ \A t \in Sockets : t # s => Apart(a \o b, t)
  BY <1>4, <1>5, Concat, ApartPosts
<1>7. /\ "disconnected" \notin LoopOps /\ "start" \notin EndOps
      /\ "disconnected" \notin AcceptOps /\ "start" \notin AcceptOps
  BY Members
<1>8. /\ One(a \o b, EndOps, {s}) /\ One(a \o b, LoopOps, {s})
      /\ ~Has(a \o b, AcceptOps, Args) /\ ~Has(a \o b, EventOps, {Null})
  BY <1>4, <1>5, <1>6, <1>7
<1>9. \A O : Has(a \o b, O, {s}) <=>
                ("start" \in O \/ (~open[s] /\ ~stopped[s] /\ "disconnected" \in O))
  BY <1>4, <1>5, <1>6
<1> QED
  BY <1>1, <1>2, <1>3, <1>6, <1>8, <1>9

\* The loop of s goes on after a write to s.
LEMMA WriteDoneOwn ==
    ASSUME TypeOK, NEW s \in Sockets, SocketInv(s), WriteDone(s), Null \notin Sockets
    PROVE  SocketInv(s)'
<1>1. /\ UNCHANGED <<client_connections, id, open, peer, sent, told, disconnects, delivered, unread,
                     reading>>
      /\ writing'[s] = Null
  BY DEF WriteDone, events, peerVars, TypeOK
<1>2. writing[s] = s /\ ClosedAfter(s) /\ Has(strand, {"writeDone"}, {s}) /\ s # Null
  BY WriteDonePosts
<1>3. PICK p \in Seq(Entry) :
         /\ Step("writeDone", s, p)
         /\ \A O : Has(p, O, {s}) <=>
                      ("start" \in O \/ (~open[s] /\ ~stopped[s] /\ "disconnected" \in O))
         /\ One(p, EndOps, {s}) /\ One(p, LoopOps, {s})
  BY WriteDonePosts
<1>4. stopped'[s] <=> stopped[s] \/ ~open[s]
  BY <1>2, Notices
<1>5. /\ "start" \in LoopOps /\ "start" \notin GoingOps /\ "start" \notin EndOps
      /\ "start" \notin AcceptedOps /\ "start" \notin RestOps
      /\ "disconnected" \notin LoopOps /\ "disconnected" \notin GoingOps
      /\ "disconnected" \in EndOps /\ "disconnected" \notin AcceptedOps
      /\ "writeDone" \notin LoopOps /\ "writeDone" \notin GoingOps /\ "writeDone" \notin EndOps
  BY Members
<1>6. /\ ~Has(strand, LoopOps, {s}) /\ s \notin reading /\ (Live(s) \/ stopped[s])
      /\ ~Has(strand, {"onConnected"}, {s}) /\ (stopped[s] => ~open[s])
  BY <1>2 DEF SocketInv, LoopInv, LiveInv, ToldInv
<1>7. ~Has(strand, GoingOps, {s}) /\ ~Has(strand, {"readOk"}, {s})
  BY <1>6, Classes
<1>8. strand \in Seq(Entry)
  BY DEF TypeOK
<1>9. /\ After("writeDone", p, GoingOps, s) /\ After("writeDone", p, {"readOk"}, s)
      /\ After("writeDone", p, EndOps, s) /\ After("writeDone", p, {"writeDone"}, s)
      /\ After("writeDone", p, {"onConnected"}, s)
      /\ \A O : /\ One(strand, O, {s}) /\ One(p, O, {s})
                /\ "writeDone" \in O \/ ~Has(strand, O, {s}) \/ ~Has(p, O, {s})
                => One(strand', O, {s})
      /\ ~Has(p, {"onConnected"}, {s}) => ConnectedFirst(strand', s)
      /\ Has(strand', AcceptedOps, {s}) =>
            Has(strand, AcceptedOps, {s}) \/ Has(p, AcceptedOps, {s})
  BY <1>3, <1>8, OwnStep
<1>10. /\ ~Has(strand', GoingOps, {s}) /\ ~Has(strand', {"readOk"}, {s})
       /\ Has(strand', EndOps, {s}) <=> Has(strand, EndOps, {s}) \/ (~open[s] /\ ~stopped[s])
       /\ ~Has(strand', {"writeDone"}, {s}) /\ ~Has(strand', {"onConnected"}, {s})
       /\ Has(strand', AcceptedOps, {s}) => Has(strand, AcceptedOps, {s})
       /\ ConnectedFirst(strand', s)
  BY <1>3, <1>5, <1>6, <1>7, <1>9 DEF After
<1>11. /\ One(strand', LoopOps, {s}) /\ One(strand', EndOps, {s})
       /\ One(strand', {"writeDone"}, {s}) /\ One(strand', {"onConnected"}, {s})
  <2>1. One(strand, LoopOps, {s}) /\ One(strand, EndOps, {s})
    BY DEF SocketInv, LoopInv, EndInv
  <2>2. ~Has(strand, EndOps, {s}) \/ ~Has(p, EndOps, {s})
    BY <1>3, <1>5, <1>6 DEF Live
  <2> QED
    BY <1>3, <1>6, <1>9, <1>10, <2>1, <2>2, NoneOne
<1>12. InSlot(s)' <=> InSlot(s)
  BY <1>1 DEF InSlot
<1>13. ~Going(s)'
  BY <1>1, <1>6, <1>10 DEF Going
<1>14. LoopInv(s)'
  BY <1>1, <1>6, <1>10, <1>11 DEF LoopInv
<1>15. LiveInv(s)'
  <2>1. ~stopped'[s] => Live(s)'
    BY <1>4, <1>6, <1>10, <1>12 DEF Live
  <2>2. stopped'[s] => ~open'[s]
    BY <1>1, <1>4, <1>6
  <2> QED
    BY <1>13, <2>1, <2>2 DEF LiveInv
<1>16. EndInv(s)'
  <2>1. ~open[s] /\ ~stopped[s] => InSlot(s) /\ told[s] = "connected"
    <3>1. told[s] \in {"nothing", "connected", "disconnected"}
      BY DEF TypeOK
    <3> QED
      BY <1>6, <3>1 DEF Live, SocketInv, ToldInv, SlotInv
  <2> QED
    BY <1>1, <1>10, <1>11, <1>12, <2>1 DEF SocketInv, EndInv
<1>17. SlotInv(s)'
  BY <1>1, <1>12 DEF SocketInv, SlotInv
<1>18. ToldInv(s)'
  BY <1>1, <1>6, <1>10, <1>11, <1>12 DEF SocketInv, ToldInv
<1>19. NewInv(s)'
  BY <1>1, <1>2, <1>10, NotNew
<1>20. DataInv(s)'
  BY <1>1, <1>7, <1>10, <1>13, DataKept
<1> QED
  BY <1>14, <1>15, <1>16, <1>17, <1>18, <1>19, <1>20 DEF SocketInv

\* on_disconnected_ of the socket posts the release of its slot.
LEMMA DisconnectedOwn ==
    ASSUME TypeOK, NEW s \in Sockets, SocketInv(s), OnSocketDisconnected(s)
    PROVE  SocketInv(s)'
<1> DEFINE p == <<E("release", s)>>
<1>1. /\ UNCHANGED <<client_connections, id, open, stopped, peer, sent, told, disconnects, writing,
                     delivered, unread, reading>>
      /\ Step("disconnected", s, p) /\ strand \in Seq(Entry)
  BY DEF OnSocketDisconnected, socketVars, events, ioVars, peerVars, TypeOK
<1>2. /\ p \in Seq(Entry) /\ \A O : One(p, O, {s})
      /\ \A O : Has(p, O, {s}) <=> "release" \in O
  BY Posts DEF Args, Closures
<1> HIDE DEF p
<1>3. /\ "release" \in EndOps /\ "disconnected" \in EndOps
      /\ "release" \notin LoopOps /\ "release" \notin GoingOps /\ "release" \notin AcceptedOps
      /\ "release" \notin RestOps
      /\ "disconnected" \notin LoopOps /\ "disconnected" \notin GoingOps
      /\ "disconnected" \notin RestOps
  BY Members
<1>4. /\ After("disconnected", p, LoopOps, s) /\ After("disconnected", p, GoingOps, s)
      /\ After("disconnected", p, {"start"}, s) /\ After("disconnected", p, {"readOk"}, s)
      /\ After("disconnected", p, EndOps, s) /\ After("disconnected", p, {"writeDone"}, s)
      /\ After("disconnected", p, {"onConnected"}, s)
      /\ \A O : "disconnected" \in O => Has(strand, O, {s})
      /\ \A O : /\ One(strand, O, {s}) /\ One(p, O, {s})
                /\ "disconnected" \in O \/ ~Has(strand, O, {s}) \/ ~Has(p, O, {s})
                => One(strand', O, {s})
      /\ ~Has(p, {"onConnected"}, {s}) => ConnectedFirst(strand', s)
      /\ Has(strand', AcceptedOps, {s}) =>
            Has(strand, AcceptedOps, {s}) \/ Has(p, AcceptedOps, {s})
  BY <1>1, <1>2, OwnStep
<1>5. Has(strand, EndOps, {s})
  BY <1>3, <1>4
<1>6. ~Has(strand, {"onConnected"}, {s})
  BY <1>5, Classes DEF SocketInv, ToldInv
<1>7. /\ Has(strand', LoopOps, {s}) <=> Has(strand, LoopOps, {s})
      /\ Has(strand', GoingOps, {s}) <=> Has(strand, GoingOps, {s})
      /\ Has(strand', {"start"}, {s}) <=> Has(strand, {"start"}, {s})
      /\ Has(strand', {"readOk"}, {s}) <=> Has(strand, {"readOk"}, {s})
      /\ Has(strand', EndOps, {s})
      /\ Has(strand', {"writeDone"}, {s}) <=> Has(strand, {"writeDone"}, {s})
      /\ ~Has(strand', {"onConnected"}, {s}) /\ ConnectedFirst(strand', s)
      /\ Has(strand', AcceptedOps, {s}) => Has(strand, AcceptedOps, {s})
  BY <1>2, <1>3, <1>4, <1>6 DEF After
<1>8. /\ One(strand', LoopOps, {s}) /\ One(strand', EndOps, {s})
      /\ One(strand', {"writeDone"}, {s}) /\ One(strand', {"onConnected"}, {s})
  <2>1. /\ One(strand, LoopOps, {s}) /\ One(strand, EndOps, {s}) /\ One(strand, {"writeDone"}, {s})
        /\ One(strand, {"onConnected"}, {s})
    BY DEF SocketInv, LoopInv, EndInv, ToldInv
  <2> QED
    BY <1>2, <1>3, <1>4, <1>6, <2>1
<1>9. (InSlot(s)' <=> InSlot(s)) /\ (Live(s)' <=> Live(s)) /\ (Going(s)' <=> Going(s))
  BY <1>1, <1>5, <1>7 DEF InSlot, Live, Going
<1>10. LoopInv(s)'
  BY <1>1, <1>7, <1>8 DEF SocketInv, LoopInv
<1>11. LiveInv(s)'
  BY <1>1, <1>7, <1>9 DEF SocketInv, LiveInv
<1>12. EndInv(s)'
  BY <1>1, <1>5, <1>8, <1>9 DEF SocketInv, EndInv
<1>13. SlotInv(s)'
  BY <1>1, <1>9 DEF SocketInv, SlotInv
<1>14. ToldInv(s)'
  BY <1>1, <1>6, <1>7, <1>8, <1>9 DEF SocketInv, ToldInv
<1>15. NewInv(s)'
  BY <1>1, <1>5, <1>7, NotNew
<1>16. DataInv(s)'
  BY <1>1, <1>7, <1>9, DataKept
<1> QED
  BY <1>10, <1>11, <1>12, <1>13, <1>14, <1>15, <1>16 DEF SocketInv

\* A step that takes an entry of s and posts nothing.
LEMMA PopOwn ==
    ASSUME TypeOK, NEW s \in Sockets, SocketInv(s), NEW op, Step(op, s, <<>>)
    PROVE  /\ strand' \in Seq(Entry)
           /\ \A O : op \in O => Has(strand, O, {s})
           /\ Has(strand', LoopOps, {s}) <=> Has(strand, LoopOps, {s}) /\ op \notin LoopOps
           /\ Has(strand', GoingOps, {s}) <=> Has(strand, GoingOps, {s}) /\ op \notin GoingOps
           /\ Has(strand', {"start"}, {s}) <=> Has(strand, {"start"}, {s}) /\ op # "start"
           /\ Has(strand', {"readOk"}, {s}) <=> Has(strand, {"readOk"}, {s}) /\ op # "readOk"
           /\ Has(strand', EndOps, {s}) <=> Has(strand, EndOps, {s}) /\ op \notin EndOps
           /\ Has(strand', {"writeDone"}, {s}) <=>
                 Has(strand, {"writeDone"}, {s}) /\ op # "writeDone"
           /\ Has(strand', {"onConnected"}, {s}) <=>
                 Has(strand, {"onConnected"}, {s}) /\ op # "onConnected"
           /\ Has(strand', AcceptedOps, {s}) => Has(strand, AcceptedOps, {s})
           /\ One(strand', LoopOps, {s}) /\ One(strand', EndOps, {s})
           /\ One(strand', {"writeDone"}, {s}) /\ One(strand', {"onConnected"}, {s})
           /\ ConnectedFirst(strand', s)
<1> DEFINE p == <<>>
<1>1. p \in Seq(Entry) /\ \A O : ~Has(p, O, {s}) /\ One(p, O, {s})
  BY Posts
<1>2. Step(op, s, p) /\ strand \in Seq(Entry)
  BY DEF TypeOK
<1> HIDE DEF p
<1>3. /\ strand' \in Seq(Entry)
      /\ \A O : op \in O => Has(strand, O, {s})
      /\ After(op, p, LoopOps, s) /\ After(op, p, GoingOps, s)
      /\ After(op, p, {"start"}, s) /\ After(op, p, {"readOk"}, s)
      /\ After(op, p, EndOps, s) /\ After(op, p, {"writeDone"}, s)
      /\ After(op, p, {"onConnected"}, s)
      /\ \A O : One(strand, O, {s}) => One(strand', O, {s})
      /\ ConnectedFirst(strand', s)
      /\ Has(strand', AcceptedOps, {s}) => Has(strand, AcceptedOps, {s})
  BY <1>1, <1>2, OwnStep
<1>4. /\ One(strand, LoopOps, {s}) /\ One(strand, EndOps, {s}) /\ One(strand, {"writeDone"}, {s})
      /\ One(strand, {"onConnected"}, {s})
  BY DEF SocketInv, LoopInv, EndInv, ToldInv
<1> QED
  BY <1>1, <1>3, <1>4 DEF After

\* The release: on_disconnected_ of the server, and the slot is free.
LEMMA ReleaseOwn ==
    ASSUME TypeOK, NEW s \in Sockets, SocketInv(s), Release(s), Null \notin Sockets
    PROVE  /\ SocketInv(s)'
           /\ InSlot(s) /\ \A i \in Slots : client_connections'[i] # s
<1>1. /\ UNCHANGED <<id, stopped, peer, sent, writing, delivered, unread, reading>>
      /\ Step("release", s, <<>>)
      /\ client_connections' = [client_connections EXCEPT ![id[s]] = Null]
      /\ told'[s] = "disconnected" /\ disconnects'[s] = disconnects[s] + 1 /\ ~open'[s]
  BY DEF Release, ioVars, peerVars, TypeOK
<1>2. /\ Has(strand', LoopOps, {s}) <=> Has(strand, LoopOps, {s})
      /\ Has(strand', GoingOps, {s}) <=> Has(strand, GoingOps, {s})
      /\ Has(strand', {"start"}, {s}) <=> Has(strand, {"start"}, {s})
      /\ Has(strand', {"readOk"}, {s}) <=> Has(strand, {"readOk"}, {s})
      /\ Has(strand, EndOps, {s}) /\ ~Has(strand', EndOps, {s})
      /\ Has(strand', {"writeDone"}, {s}) <=> Has(strand, {"writeDone"}, {s})
      /\ Has(strand', {"onConnected"}, {s}) <=> Has(strand, {"onConnected"}, {s})
      /\ Has(strand', AcceptedOps, {s}) => Has(strand, AcceptedOps, {s})
      /\ One(strand', LoopOps, {s}) /\ One(strand', EndOps, {s})
      /\ One(strand', {"writeDone"}, {s}) /\ One(strand', {"onConnected"}, {s})
      /\ ConnectedFirst(strand', s)
  <2>1. "release" \in EndOps /\ "release" \notin LoopOps /\ "release" \notin GoingOps
    BY Members
  <2> QED
    BY <1>1, <2>1, PopOwn
<1>3. InSlot(s) /\ told[s] = "connected" /\ ~Live(s)
  BY <1>2 DEF SocketInv, EndInv, Live
<1>4. ~Has(strand, {"onConnected"}, {s})
  BY <1>3 DEF SocketInv, ToldInv
<1>5. ~Going(s) /\ (Has(strand, {"start"}, {s}) \/ writing[s] # Null => stopped[s])
  BY <1>3 DEF SocketInv, LiveInv
<1>6. ASSUME NEW i \in Slots
      PROVE  client_connections'[i] # s
  <2>1. client_connections \in [Slots -> Sockets \cup {Null}]
    BY DEF TypeOK
  <2>2. i # id[s] => client_connections[i] # s
    BY DEF SocketInv, SlotInv
  <2> QED
    BY <1>1, <2>1, <2>2
<1>7. ~InSlot(s)'
  BY <1>6 DEF InSlot
<1>8. ~Going(s)'
  BY <1>1, <1>2, <1>5 DEF Going
<1>9. LoopInv(s)'
  BY <1>1, <1>2 DEF SocketInv, LoopInv
<1>10. LiveInv(s)'
  BY <1>1, <1>2, <1>5, <1>8 DEF LiveInv
<1>11. EndInv(s)'
  BY <1>2 DEF EndInv
<1>12. SlotInv(s)'
  <2>1. disconnects[s] = 0
    BY <1>3 DEF SocketInv, SlotInv
  <2> QED
    BY <1>1, <1>6, <1>7, <2>1 DEF SlotInv
<1>13. ToldInv(s)'
  BY <1>1, <1>2, <1>4, <1>7 DEF ToldInv
<1>14. NewInv(s)'
  BY <1>1, <1>2, NotNew
<1>15. DataInv(s)'
  BY <1>1, <1>2, <1>8, DataKept
<1> QED
  BY <1>3, <1>6, <1>9, <1>10, <1>11, <1>12, <1>13, <1>14, <1>15 DEF SocketInv

\* on_connected_ is raised.
LEMMA ConnectedOwn ==
    ASSUME TypeOK, NEW s \in Sockets, SocketInv(s), OnConnected(s)
    PROVE  SocketInv(s)' /\ told[s] = "nothing"
<1>1. /\ UNCHANGED <<client_connections, open, id, stopped, peer, sent, writing, delivered, unread,
                     reading, disconnects>>
      /\ Step("onConnected", s, <<>>) /\ told'[s] = "connected"
  BY DEF OnConnected, socketVars, ioVars, peerVars, TypeOK
<1>2. /\ Has(strand', LoopOps, {s}) <=> Has(strand, LoopOps, {s})
      /\ Has(strand', GoingOps, {s}) <=> Has(strand, GoingOps, {s})
      /\ Has(strand', {"start"}, {s}) <=> Has(strand, {"start"}, {s})
      /\ Has(strand', {"readOk"}, {s}) <=> Has(strand, {"readOk"}, {s})
      /\ Has(strand', EndOps, {s}) <=> Has(strand, EndOps, {s})
      /\ Has(strand', {"writeDone"}, {s}) <=> Has(strand, {"writeDone"}, {s})
      /\ Has(strand, {"onConnected"}, {s}) /\ ~Has(strand', {"onConnected"}, {s})
      /\ Has(strand', AcceptedOps, {s}) => Has(strand, AcceptedOps, {s})
      /\ One(strand', LoopOps, {s}) /\ One(strand', EndOps, {s})
      /\ One(strand', {"writeDone"}, {s}) /\ One(strand', {"onConnected"}, {s})
      /\ ConnectedFirst(strand', s)
  <2>1. "onConnected" \notin EndOps /\ "onConnected" \notin LoopOps /\ "onConnected" \notin GoingOps
    BY Members
  <2> QED
    BY <1>1, <2>1, PopOwn
<1>3. told[s] = "nothing" /\ InSlot(s)
  BY <1>2 DEF SocketInv, ToldInv
<1>4. (InSlot(s)' <=> InSlot(s)) /\ (Live(s)' <=> Live(s)) /\ (Going(s)' <=> Going(s))
  BY <1>1, <1>2 DEF InSlot, Live, Going
<1>5. LoopInv(s)'
  BY <1>1, <1>2 DEF SocketInv, LoopInv
<1>6. LiveInv(s)'
  BY <1>1, <1>2, <1>4 DEF SocketInv, LiveInv
<1>7. EndInv(s)'
  BY <1>1, <1>2, <1>4 DEF SocketInv, EndInv
<1>8. SlotInv(s)'
  BY <1>1, <1>3 DEF SocketInv, SlotInv
<1>9. ToldInv(s)'
  BY <1>1, <1>2 DEF ToldInv
<1>10. NewInv(s)'
  BY <1>1, <1>2, NotNew
<1>11. DataInv(s)'
  BY <1>1, <1>2, <1>4, DataKept
<1> QED
  BY <1>3, <1>5, <1>6, <1>7, <1>8, <1>9, <1>10, <1>11 DEF SocketInv

\* Among natural numbers there is a least one.
LEMMA LeastNatural ==
    ASSUME NEW S \in SUBSET Nat, S # {}
    PROVE  \E n \in S : \A m \in S : n <= m
<1> DEFINE R == {ss \in Nat \X Nat : ss[1] < ss[2]}
<1>1. IsWellFoundedOn(R, Nat)
  BY NatLessThanWellFounded, Zenon DEF OpToRel
<1>2. \A m, n \in Nat : m < n => <<m, n>> \in R
  OBVIOUS
<1> HIDE DEF R
<1>3. PICK n \in S : \A m \in S : ~(<<m, n>> \in R)
  BY <1>1, WFMin
<1>4. \A m \in S : n <= m
  <2> TAKE m \in S
  <2>1. m \in Nat /\ n \in Nat
    OBVIOUS
  <2>2. ~(<<m, n>> \in R)
    BY <1>3
  <2>3. ~(m < n)
    BY <1>2, <2>1, <2>2, Zenon
  <2> QED
    BY <2>1, <2>3
<1> QED
  BY <1>4

\* GetNewConnectionIndex finds a free slot if there is one.
LEMMA FreeSlotFound ==
    ASSUME FreeSlots # {}
    PROVE  GetNewConnectionIndex \in FreeSlots
<1>1. FreeSlots \in SUBSET Nat
  BY ServerAssumption DEF FreeSlots, Slots
<1>2. \E i \in FreeSlots : \A j \in FreeSlots : i <= j
  BY <1>1, LeastNatural
<1> QED
  BY <1>2 DEF GetNewConnectionIndex

\* What OnAccepted posts for a socket that gets a slot.
LEMMA AdmitPosts ==
    ASSUME NEW s \in Sockets, Admit(s), Null \notin Sockets
    PROVE  \E p \in Seq(Entry) :
              /\ Step("OnAccepted", s, p)
              /\ \A O : Has(p, O, {s}) <=> "onConnected" \in O \/ (open[s] /\ "read" \in O)
              /\ One(p, LoopOps, {s}) /\ One(p, {"onConnected"}, {s}) /\ ConnectedFirst(p, s)
              /\ One(p, AcceptOps, Args) /\ Has(p, AcceptOps, Args) /\ ~Has(p, EventOps, {Null})
              /\ \A t \in Sockets : t # s => Apart(p, t)
<1> DEFINE a == <<E("onConnected", s)>>
           b == IF open[s] THEN <<E("read", s)>> ELSE <<>>
           c == <<E("rearm", Null)>>
<1>1. Step("OnAccepted", s, a \o b \o c)
  BY DEF Admit
<1>2. /\ a \in Seq(Entry) /\ \A O, A : One(a, O, A)
      /\ \A O, A : Has(a, O, A) <=> "onConnected" \in O /\ s \in A
      /\ \A t \in Sockets : t # s => Apart(a, t)
      /\ ConnectedFirst(a, s)
  BY Posts, ApartPosts DEF Args, Closures
<1>3. /\ b \in Seq(Entry) /\ \A O, A : One(b, O, A)
      /\ \A O, A : Has(b, O, A) <=> open[s] /\ "read" \in O /\ s \in A
      /\ \A t \in Sockets : t # s => Apart(b, t)
      /\ ConnectedFirst(b, s)
  <2>1. CASE open[s]
    BY <2>1, Posts, ApartPosts DEF Args, Closures
  <2>2. CASE ~open[s]
    BY <2>2, Posts, ApartPosts
  <2> QED
    BY <2>1, <2>2
<1>4. /\ c \in Seq(Entry) /\ \A O, A : One(c, O, A)
      /\ \A O, A : Has(c, O, A) <=> "rearm" \in O /\ Null \in A
      /\ \A t \in Sockets : t # s => Apart(c, t)
      /\ ConnectedFirst(c, s)
  BY Posts, ApartPosts DEF Args, Closures
<1> HIDE DEF a, b, c
<1>5. /\ a \o b \in Seq(Entry)
      /\ \A O, A : Has(a \o b, O, A) <=> Has(a, O, A) \/ Has(b, O, A)
      /\ \A O, A : ~(Has(a, O, A) /\ Has(b, O, A)) => One(a \o b, O, A)
  BY <1>2, <1>3, Concat
<1>6. ConnectedFirst(a \o b, s)
  <2>1. ~Has(a, LoopOps, {s})
    BY <1>2, Members
  <2> QED
    BY <1>2, <1>3, <2>1, Concat
<1>7. /\ (a \o b) \o c \in Seq(Entry)
      /\ \A O, A : Has((a \o b) \o c, O, A) <=> Has(a \o b, O, A) \/ Has(c, O, A)
      /\ \A O, A : One(a \o b, O, A) /\ ~(Has(a \o b, O, A) /\ Has(c, O, A)) =>
                      One((a \o b) \o c, O, A)
  BY <1>4, <1>5, Concat
<1>8. ConnectedFirst((a \o b) \o c, s)
  <2>1. ~Has(c, {"onConnected"}, {s})
    BY <1>4
  <2> QED
    BY <1>4, <1>5, <1>6, <2>1, Concat
<1>9. \A t \in Sockets : t # s => Apart((a \o b) \o c, t)
  <2> TAKE t \in Sockets
  <2>1. t # s => Apart(a \o b, t)
    BY <1>2, <1>3, ApartPosts
  <2> QED
    BY <1>4, <1>5, <2>1, ApartPosts
<1>10. \A O : Has((a \o b) \o c, O, {s}) <=> "onConnected" \in O \/ (open[s] /\ "read" \in O)
  BY <1>2, <1>3, <1>4, <1>5, <1>7
<1>11. One((a \o b) \o c, LoopOps, {s}) /\ One((a \o b) \o c, {"onConnected"}, {s})
  <2>1. /\ ~Has(a, LoopOps, {s}) /\ ~Has(c, LoopOps, {s})
        /\ ~Has(b, {"onConnected"}, {s}) /\ ~Has(c, {"onConnected"}, {s})
    BY <1>2, <1>3, <1>4, Members
  <2> QED
    BY <1>5, <1>7, <2>1
<1>12. One((a \o b) \o c, AcceptOps, Args) /\ Has((a \o b) \o c, AcceptOps, Args)
  <2>1. ~Has(a, AcceptOps, Args) /\ ~Has(b, AcceptOps, Args) /\ Has(c, AcceptOps, Args)
    BY <1>2, <1>3, <1>4, Members DEF Args
  <2> QED
    BY <1>5, <1>7, <2>1
<1>13. ~Has((a \o b) \o c, EventOps, {Null})
  <2>1. ~Has(a, EventOps, {Null}) /\ ~Has(b, EventOps, {Null}) /\ ~Has(c, EventOps, {Null})
    BY <1>2, <1>3, <1>4, Members
  <2> QED
    BY <1>5, <1>7, <2>1
<1> QED
  BY <1>1, <1>7, <1>8, <1>9, <1>10, <1>11, <1>12, <1>13

\* OnAccepted with a free slot: the socket is in it, and nowhere else.
LEMMA AdmitOwn ==
    ASSUME TypeOK, AcceptInv, NEW s \in Sockets, SocketInv(s), Admit(s), FreeSlots # {},
           UNCHANGED <<stopped, ioVars, peerVars, events>>, Null \notin Sockets
    PROVE  SocketInv(s)'
<1> DEFINE k == GetNewConnectionIndex
<1>1. /\ client_connections' = [client_connections EXCEPT ![k] = s]
      /\ id' = [id EXCEPT ![s] = k] /\ open' = open
      /\ UNCHANGED <<stopped, reading, writing, peer, unread, sent, delivered, told, disconnects>>
  BY DEF Admit, ioVars, peerVars, events
<1>2. k \in FreeSlots
  BY FreeSlotFound
<1> HIDE DEF k
<1>3. k \in Slots /\ client_connections[k] = Null
  BY <1>2 DEF FreeSlots
<1>4. PICK p \in Seq(Entry) :
         /\ Step("OnAccepted", s, p)
         /\ \A O : Has(p, O, {s}) <=> "onConnected" \in O \/ (open[s] /\ "read" \in O)
         /\ One(p, LoopOps, {s}) /\ One(p, {"onConnected"}, {s}) /\ ConnectedFirst(p, s)
  BY AdmitPosts
<1>5. strand \in Seq(Entry)
  BY DEF TypeOK
<1>6. Has(strand, AcceptedOps, {s})
  BY <1>4, <1>5, OwnStep, Members
<1>7. Blank(s) /\ peer[s] \notin {"idle", "connecting"}
  BY <1>6 DEF SocketInv, NewInv
<1>8. /\ ~Has(strand, LoopOps, {s}) /\ ~Has(strand, EndOps, {s})
      /\ ~Has(strand, {"onConnected"}, {s}) /\ ~Has(strand, {"writeDone"}, {s})
      /\ s \notin reading /\ writing[s] = Null /\ ~stopped[s] /\ told[s] = "nothing"
      /\ \A i \in Slots : client_connections[i] # s
  BY <1>7, Classes DEF Blank
<1>9. /\ ~Has(strand, GoingOps, {s}) /\ ~Has(strand, {"start"}, {s}) /\ ~Has(strand, RestOps, {s})
      /\ ~Has(strand, {"readOk"}, {s})
  BY <1>8, Classes
<1>10. /\ "onConnected" \notin LoopOps /\ "onConnected" \notin GoingOps
       /\ "onConnected" \notin EndOps
       /\ "onConnected" \notin RestOps /\ "onConnected" \notin AcceptedOps
       /\ "read" \in LoopOps /\ "read" \in GoingOps /\ "read" \notin EndOps /\ "read" \notin RestOps
       /\ "read" \notin AcceptedOps /\ "OnAccepted" \in AcceptedOps
  BY Members
<1>11. /\ After("OnAccepted", p, LoopOps, s) /\ After("OnAccepted", p, GoingOps, s)
       /\ After("OnAccepted", p, {"start"}, s) /\ After("OnAccepted", p, {"readOk"}, s)
       /\ After("OnAccepted", p, EndOps, s) /\ After("OnAccepted", p, {"writeDone"}, s)
       /\ After("OnAccepted", p, {"onConnected"}, s) /\ After("OnAccepted", p, RestOps, s)
       /\ \A O : One(strand, O, {s}) /\ One(p, O, {s}) /\ ~Has(strand, O, {s}) =>
                    One(strand', O, {s})
  BY <1>4, <1>5, OwnStep
<1>12. /\ ~Has(strand', RestOps, {s}) /\ ~Has(strand', {"start"}, {s})
       /\ ~Has(strand', {"readOk"}, {s}) /\ ~Has(strand', EndOps, {s})
       /\ ~Has(strand', {"writeDone"}, {s}) /\ Has(strand', {"onConnected"}, {s})
  <2>1. ~Has(p, RestOps, {s}) /\ ~Has(p, EndOps, {s})
    BY <1>4, <1>10
  <2>2. ~Has(p, {"start"}, {s}) /\ ~Has(p, {"readOk"}, {s}) /\ ~Has(p, {"writeDone"}, {s})
    <3>1. \A x \in {"start", "readOk", "writeDone"} : "onConnected" \notin {x} /\ "read" \notin {x}
      OBVIOUS
    <3>2. \A x \in {"start", "readOk", "writeDone"} : ~Has(p, {x}, {s})
      BY <1>4, <3>1
    <3> QED
      BY <3>2
  <2>3. Has(p, {"onConnected"}, {s})
    BY <1>4
  <2> QED
    BY <1>8, <1>9, <1>11, <2>1, <2>2, <2>3 DEF After
<1>13. Has(strand', GoingOps, {s}) <=> open[s]
  BY <1>4, <1>9, <1>10, <1>11 DEF After
<1>14. /\ One(strand', LoopOps, {s}) /\ One(strand', {"onConnected"}, {s})
       /\ One(strand', EndOps, {s}) /\ One(strand', {"writeDone"}, {s})
  <2>1. One(strand, LoopOps, {s}) /\ One(strand, {"onConnected"}, {s})
    BY DEF SocketInv, LoopInv, ToldInv
  <2> QED
    BY <1>4, <1>8, <1>11, <1>12, <2>1, NoneOne
<1>15. ConnectedFirst(strand', s)
  <2>1. ConnectedFirst(strand, s)
    BY DEF SocketInv, ToldInv
  <2> QED
    BY <1>4, <1>5, <1>8, <2>1, StepFlow
<1>16. ~Has(strand', AcceptedOps, {s})
  <2>1. One(strand, AcceptedOps, {s})
    <3>1. AcceptedOps \subseteq AcceptOps /\ {s} \subseteq Args
      BY Members DEF Args
    <3> QED
      BY <3>1 DEF AcceptInv, One, Among
  <2>2. ~Has(p, AcceptedOps, {s})
    BY <1>4, <1>10
  <2> QED
    BY <1>4, <1>5, <1>10, <2>1, <2>2, StepFlow
<1>17. /\ id'[s] = k /\ client_connections'[k] = s
       /\ \A i \in Slots : client_connections'[i] = s => i = k
  <2>1. /\ client_connections \in [Slots -> Sockets \cup {Null}]
        /\ id \in [Sockets -> 0 .. MaxConnections]
    BY DEF TypeOK
  <2> QED
    BY <1>1, <1>3, <1>8, <2>1
<1>18. InSlot(s)'
  BY <1>3, <1>17 DEF InSlot, Slots
<1>19. Live(s)'
  BY <1>1, <1>8, <1>12, <1>18 DEF Live
<1>20. LoopInv(s)'
  BY <1>1, <1>8, <1>12, <1>14 DEF LoopInv
<1>21. LiveInv(s)'
  BY <1>1, <1>8, <1>19 DEF LiveInv
<1>22. EndInv(s)'
  BY <1>12, <1>14 DEF EndInv
<1>23. SlotInv(s)'
  BY <1>1, <1>8, <1>17 DEF SlotInv, SocketInv
<1>24. ToldInv(s)'
  <2>1. ~Has(strand', (EndOps \cup LoopOps) \ {"read"}, {s})
    BY <1>12, Classes
  <2> QED
    BY <1>1, <1>8, <1>12, <1>14, <1>15, <1>18, <2>1 DEF ToldInv
<1>25. NewInv(s)'
  BY <1>1, <1>7, <1>16 DEF NewInv
<1>26. DataInv(s)'
  <2>1. ~open[s] => ~Going(s)'
    BY <1>1, <1>8, <1>13 DEF Going
  <2> QED
    BY <1>1, <1>9, <1>12, <2>1, DataKept
<1> QED
  BY <1>20, <1>21, <1>22, <1>23, <1>24, <1>25, <1>26 DEF SocketInv

\* An accept completes with a socket of which nothing has happened yet.
LEMMA AcceptCompleteOwn ==
    ASSUME TypeOK, NEW s \in Sockets, SocketInv(s), AcceptComplete(s)
    PROVE  SocketInv(s)'
<1>1. /\ UNCHANGED <<client_connections, stopped, id, reading, writing, unread, sent, delivered,
                     told, disconnects>>
      /\ Post("acceptDone", s) /\ peer[s] \in {"idle", "connecting"}
      /\ peer'[s] \in {"connected", "phantom"}
  BY DEF AcceptComplete, events, TypeOK
<1>2. Blank(s) /\ ~unread[s]
  BY <1>1 DEF SocketInv, NewInv
<1>3. /\ ~Has(strand, LoopOps, {s}) /\ ~Has(strand, EndOps, {s})
      /\ ~Has(strand, {"onConnected"}, {s}) /\ ~Has(strand, {"writeDone"}, {s})
      /\ s \notin reading /\ writing[s] = Null /\ ~stopped[s] /\ told[s] = "nothing"
      /\ \A i \in Slots : client_connections[i] # s
      /\ delivered[s] = 0
  BY <1>2, Classes DEF Blank
<1>4. strand \in Seq(Entry) /\ "acceptDone" \in Closures
  BY DEF TypeOK, Closures
<1>5. \A O : Has(strand', O, {s}) <=> Has(strand, O, {s}) \/ "acceptDone" \in O
  BY <1>1, <1>4, OwnPost
<1>6. "acceptDone" \notin LoopOps /\ "acceptDone" \notin EndOps
  BY Members
<1>7. /\ ~Has(strand', LoopOps, {s}) /\ ~Has(strand', EndOps, {s})
      /\ ~Has(strand', {"onConnected"}, {s}) /\ ~Has(strand', {"writeDone"}, {s})
  BY <1>3, <1>5, <1>6
<1>8. /\ ~Has(strand', GoingOps, {s}) /\ ~Has(strand', {"start"}, {s})
      /\ ~Has(strand', {"readOk"}, {s})
      /\ ~Has(strand', LoopOps \cup EndOps \cup {"onConnected", "writeDone"}, {s})
  BY <1>7, Classes
<1>9. /\ One(strand', LoopOps, {s}) /\ One(strand', EndOps, {s})
      /\ One(strand', {"writeDone"}, {s}) /\ One(strand', {"onConnected"}, {s})
      /\ ConnectedFirst(strand', s)
  BY <1>7, NoneOne
<1>10. ~InSlot(s)' /\ ~Going(s)'
  BY <1>1, <1>3, <1>8 DEF InSlot, Going
<1>11. LoopInv(s)'
  BY <1>1, <1>3, <1>7, <1>9 DEF LoopInv
<1>12. LiveInv(s)'
  BY <1>1, <1>3, <1>8, <1>10 DEF LiveInv
<1>13. EndInv(s)'
  BY <1>7, <1>9 DEF EndInv
<1>14. SlotInv(s)'
  BY <1>1, <1>3 DEF SocketInv, SlotInv
<1>15. ToldInv(s)'
  BY <1>7, <1>9, <1>10 DEF ToldInv
<1>16. Blank(s)'
  BY <1>1, <1>3, <1>8 DEF Blank
<1>17. NewInv(s)'
  BY <1>1, <1>16 DEF NewInv
<1>18. DataInv(s)'
  <2>1. Received(s)' = 0
    BY <1>1, <1>2, <1>3, <1>8 DEF Received, Flag
  <2>2. sent'[s] \in Nat
    BY <1>1 DEF TypeOK
  <2> QED
    BY <2>1, <2>2 DEF DataInv
<1> QED
  BY <1>11, <1>12, <1>13, <1>14, <1>15, <1>17, <1>18 DEF SocketInv

\* A client sends.
LEMMA SendOwn ==
    ASSUME TypeOK, NEW s \in Sockets, SocketInv(s), Send(s)
    PROVE  SocketInv(s)'
<1>1. /\ UNCHANGED <<strand, client_connections, stopped, id, open, reading, writing, peer,
                     delivered, told, disconnects>>
      /\ peer[s] = "connected" /\ open[s]
      /\ sent'[s] = sent[s] + 1 /\ unread'[s]
  BY DEF Send, socketVars, ioVars, events, TypeOK
<1>2. InSlot(s)' = InSlot(s) /\ Live(s)' = Live(s) /\ Going(s)' = Going(s) /\ Blank(s)' = Blank(s)
  BY <1>1 DEF InSlot, Live, Going, Blank
<1>3. LoopInv(s)' /\ EndInv(s)'
  BY <1>1, <1>2 DEF SocketInv, LoopInv, EndInv
<1>4. LiveInv(s)' /\ SlotInv(s)'
  BY <1>1, <1>2 DEF SocketInv, LiveInv, SlotInv
<1>5. ToldInv(s)' /\ NewInv(s)'
  BY <1>1, <1>2 DEF SocketInv, ToldInv, NewInv
<1>6. DataInv(s)'
  <2>1. sent[s] \in Nat /\ delivered[s] \in Nat
    BY DEF TypeOK
  <2>2. Received(s) \in Nat /\ Received(s)' \in Nat /\ Received(s)' <= Received(s) + 1
    BY <1>1, <2>1 DEF Received, Flag
  <2>3. Received(s) <= sent[s]
    BY <1>1 DEF SocketInv, DataInv
  <2>4. Received(s)' <= sent'[s]
    BY <1>1, <2>1, <2>2, <2>3
  <2> QED
    BY <2>4 DEF DataInv
<1> QED
  BY <1>3, <1>4, <1>5, <1>6 DEF SocketInv

-----------------------------------------------------------------------------
(* What Stop and StopClient post: calls of TcpSocket::Stop. *)

Closing(p) == p \in Seq(Entry) /\ \A O, A : Has(p, O, A) => "close" \in O

\* A sequence of TcpSocket::Stop closures leads to no event.
LEMMA ClosingPosts ==
    ASSUME NEW p, Closing(p)
    PROVE  /\ p \in Seq(Entry)
           /\ \A t : Apart(p, t)
           /\ ~Has(p, AcceptOps, Args) /\ ~Has(p, EventOps, {Null})
BY Members DEF Closing, Apart

\* Stopping a socket, or several.
LEMMA ClosingOne ==
    /\ Closing(<<>>)
    /\ \A s \in Sockets : Closing(StopSocket(s))
    /\ \A p, q : Closing(p) /\ Closing(q) => Closing(p \o q)
<1>1. Closing(<<>>)
  BY Posts DEF Closing
<1>2. ASSUME NEW s \in Sockets
      PROVE  Closing(StopSocket(s))
  <2>1. Closing(<<E("close", s)>>)
    BY Posts DEF Closing, Args, Closures
  <2> QED
    BY <1>1, <2>1 DEF StopSocket
<1>3. \A p, q : Closing(p) /\ Closing(q) => Closing(p \o q)
  BY Concat DEF Closing
<1> QED
  BY <1>1, <1>2, <1>3

\* StopSockets is defined: a function that satisfies its equation up to a slot
\* extends to the next slot.
LEMMA StopSocketsExists ==
    \E f : f = [i \in 0 .. MaxConnections |->
                  IF i = 0 THEN <<>>
                  ELSE f[i - 1]
                       \o (IF client_connections[i] = Null THEN <<>>
                           ELSE StopSocket(client_connections[i]))]
<1> DEFINE G(i) == IF client_connections[i] = Null THEN <<>> ELSE StopSocket(client_connections[i])
           Good(n) == \E f : f = [i \in 0 .. n |-> IF i = 0 THEN <<>> ELSE f[i - 1] \o G(i)]
           Bad == {n \in Nat : n <= MaxConnections /\ ~Good(n)}
<1>1. MaxConnections \in Nat /\ MaxConnections <= MaxConnections
  BY ServerAssumption
<1>2. SUFFICES Bad = {}
  BY <1>1
<1> HIDE DEF G
<1>3. SUFFICES ASSUME Bad # {}
               PROVE  FALSE
  OBVIOUS
<1>4. PICK n \in Bad : \A m \in Bad : n <= m
  <2>1. Bad \in SUBSET Nat
    OBVIOUS
  <2> QED
    BY <1>3, <2>1, LeastNatural
<1>5. n \in Nat /\ n <= MaxConnections /\ ~Good(n) /\ \A k \in Nat : k < n => k \notin Bad
  <2>1. n \in Nat /\ n <= MaxConnections /\ ~Good(n)
    OBVIOUS
  <2>2. ASSUME NEW k \in Nat, k < n, k \in Bad
        PROVE  FALSE
    <3>1. n <= k
      BY <1>4, <2>2
    <3> QED
      BY <2>1, <2>2, <3>1
  <2> QED
    BY <2>1, <2>2
<1>6. n # 0
  <2>1. Good(0)
    <3>1. [i \in {0} |-> <<>>] =
            [i \in 0 .. 0 |-> IF i = 0 THEN <<>> ELSE [j \in {0} |-> <<>>][i - 1] \o G(i)]
      OBVIOUS
    <3> QED
      BY <3>1
  <2> QED
    BY <1>5, <2>1
<1>7. PICK m \in Nat : n = m + 1
  <2>1. n - 1 \in Nat /\ n = (n - 1) + 1
    BY <1>5, <1>6
  <2> QED
    BY <2>1
<1>8. Good(m)
  <2>1. m < n /\ m <= MaxConnections
    BY <1>1, <1>5, <1>7
  <2> QED
    BY <1>5, <2>1
<1>9. PICK f : f = [i \in 0 .. m |-> IF i = 0 THEN <<>> ELSE f[i - 1] \o G(i)]
  BY <1>8
<1> DEFINE g == [i \in 0 .. n |-> IF i = n THEN f[m] \o G(n) ELSE f[i]]
<1>10. ASSUME NEW i \in 0 .. n
       PROVE  g[i] = IF i = 0 THEN <<>> ELSE g[i - 1] \o G(i)
  <2>1. CASE i = n
    <3>1. n - 1 = m /\ m \in 0 .. n /\ m # n /\ n \in 0 .. n
      BY <1>5, <1>7
    <3>2. g[n] = f[m] \o G(n) /\ g[m] = f[m]
      BY <3>1
    <3> QED
      BY <2>1, <1>6, <3>1, <3>2
  <2>2. CASE i # n
    <3>1. i \in 0 .. m /\ (i # 0 => i - 1 \in 0 .. n /\ i - 1 # n)
      BY <2>2, <1>7
    <3>2. f[i] = IF i = 0 THEN <<>> ELSE f[i - 1] \o G(i)
      BY <1>9, <3>1
    <3>3. g[i] = f[i] /\ (i # 0 => g[i - 1] = f[i - 1])
      BY <2>2, <3>1
    <3> QED
      BY <3>2, <3>3
  <2> QED
    BY <2>1, <2>2
<1>11. g = [i \in 0 .. n |-> IF i = 0 THEN <<>> ELSE g[i - 1] \o G(i)]
  BY <1>10
<1> QED
  BY <1>5, <1>11

\* Stop posts calls of TcpSocket::Stop and nothing else.
LEMMA StopSocketsClosing ==
    ASSUME TypeOK
    PROVE  Closing(StopSockets[MaxConnections])
<1> DEFINE G(i) == IF client_connections[i] = Null THEN <<>> ELSE StopSocket(client_connections[i])
           Bad == {n \in Nat : n <= MaxConnections /\ ~Closing(StopSockets[n])}
<1>1. StopSockets = [i \in 0 .. MaxConnections |->
                       IF i = 0 THEN <<>> ELSE StopSockets[i - 1] \o G(i)]
  BY StopSocketsExists DEF StopSockets
<1>2. MaxConnections \in Nat /\ MaxConnections <= MaxConnections
  BY ServerAssumption
<1>3. SUFFICES Bad = {}
  BY <1>2
<1>4. SUFFICES ASSUME Bad # {}
               PROVE  FALSE
  OBVIOUS
<1>5. PICK n \in Bad : \A m \in Bad : n <= m
  <2>1. Bad \in SUBSET Nat
    OBVIOUS
  <2> QED
    BY <1>4, <2>1, LeastNatural
<1>6. ASSUME NEW i \in Slots
      PROVE  Closing(G(i))
  <2>1. client_connections[i] \in Sockets \cup {Null}
    BY DEF TypeOK
  <2> QED
    BY <2>1, ClosingOne
<1> HIDE DEF G
<1>7. n # 0
  <2>1. StopSockets[0] = <<>>
    BY <1>1, <1>2
  <2> QED
    BY <2>1, ClosingOne
<1>8. /\ n - 1 \in Nat /\ n - 1 <= MaxConnections /\ n - 1 \notin Bad /\ n \in Slots
      /\ n \in 0 .. MaxConnections
  BY <1>2, <1>5, <1>7 DEF Slots
<1>9. StopSockets[n] = StopSockets[n - 1] \o G(n)
  BY <1>1, <1>7, <1>8
<1>10. Closing(StopSockets[n - 1])
  BY <1>8
<1>11. Closing(StopSockets[n])
  BY <1>6, <1>8, <1>9, <1>10, ClosingOne
<1> QED
  BY <1>11

-----------------------------------------------------------------------------
(* The invariant, action by action. *)

\* The strand runs an entry about s, or about no socket.
LEMMA StepInv ==
    ASSUME ServerInv, NEW op, NEW s \in Args, NEW p \in Seq(Entry), Step(op, s, p),
           \/ ~Has(p, AcceptOps, Args) /\ (accepting' => accepting)
           \/ /\ op \in AcceptOps /\ One(p, AcceptOps, Args)
              /\ accepting' => ~Has(p, AcceptOps, Args)
              /\ Has(p, AcceptOps, Args) => accepting' = accepting,
           \A t \in Sockets : t # s => Apart(p, t) /\ SameSocket(t),
           ~Has(p, EventOps, {Null}), s \in Sockets => SocketInv(s)',
           strand' \in Seq(Entry) => TypeOK', StopsInv'
    PROVE  ServerInv'
<1>1. strand \in Seq(Entry) /\ TypeOK /\ AcceptInv /\ \A t \in Sockets : SocketInv(t)
  BY DEF ServerInv, TypeOK
<1>2. strand' \in Seq(Entry)
  BY <1>1, StepFlow
<1>3. AcceptInv'
  BY <1>1, AcceptStep
<1>4. ASSUME NEW t \in Sockets, t # s
      PROVE  SocketInv(t)'
  BY <1>1, <1>4, OtherStep, Aside
<1>5. ArgsInv'
  BY <1>1, StepFlow DEF ServerInv, ArgsInv
<1> QED
  BY <1>2, <1>3, <1>4, <1>5 DEF ServerInv

\* A call or a completion posts an entry.
LEMMA PostInv ==
    ASSUME ServerInv, NEW op \in Closures, NEW s \in Args, Post(op, s),
           \/ op \notin AcceptOps /\ (accepting' => accepting)
           \/ accepting /\ ~accepting'
           \/ ~accepting' /\ ~Has(strand, AcceptOps, Args),
           \A t \in Sockets : t # s => SameSocket(t),
           op \notin EventOps \/ s # Null, s \in Sockets => SocketInv(s)',
           strand' \in Seq(Entry) => TypeOK', StopsInv'
    PROVE  ServerInv'
<1>1. strand \in Seq(Entry) /\ TypeOK /\ AcceptInv /\ \A t \in Sockets : SocketInv(t)
  BY DEF ServerInv, TypeOK
<1>2. strand' \in Seq(Entry)
  BY <1>1, PostFlow
<1>3. AcceptInv'
  BY <1>1, AcceptPost
<1>4. ASSUME NEW t \in Sockets, t # s
      PROVE  SocketInv(t)'
  BY <1>1, <1>4, OtherPost, Aside
<1>5. ArgsInv'
  BY <1>1, PostFlow DEF ServerInv, ArgsInv
<1> QED
  BY <1>2, <1>3, <1>4, <1>5 DEF ServerInv

\* The strand is not touched.
LEMMA QuietInv ==
    ASSUME ServerInv, strand' = strand, accepting' = accepting, TypeOK', StopsInv',
           \A t \in Sockets : SameSocket(t) \/ SocketInv(t)'
    PROVE  ServerInv'
<1>1. AcceptInv /\ \A t \in Sockets : SocketInv(t)
  BY DEF ServerInv
<1>2. AcceptInv'
  BY <1>1, AcceptNone
<1>3. ASSUME NEW t \in Sockets
      PROVE  SocketInv(t)'
  BY <1>1, OtherNone, Aside
<1>4. ArgsInv'
  BY DEF ServerInv, ArgsInv
<1> QED
  BY <1>2, <1>3, <1>4 DEF ServerInv

\* Nothing of a socket changes.
LEMMA SameAll ==
    ASSUME UNCHANGED <<client_connections, socketVars, reading, writing, peerVars, delivered, told,
                       disconnects>>
    PROVE  \A t \in Sockets : SameSocket(t)
BY DEF SameSocket, socketVars, peerVars

\* Before the first Start.
LEMMA InitInv == Init => ServerInv
<1> SUFFICES ASSUME Init
             PROVE  ServerInv
  OBVIOUS
<1>1. strand = <<>> /\ <<>> \in Seq(Entry)
  BY DEF Init
<1>2. \A O, A : ~Has(strand, O, A) /\ One(strand, O, A)
  BY <1>1, Posts
<1>3. TypeOK
  <2>1. strand \in Seq(Entry)
    BY <1>1
  <2>2. id \in [Sockets -> 0 .. MaxConnections] /\ calls \in 0 .. MaxCalls
    BY ServerAssumption DEF Init
  <2>3. /\ client_connections \in [Slots -> Sockets \cup {Null}]
        /\ writing \in [Sockets -> Sockets \cup {Null}] /\ reading \in SUBSET Sockets
        /\ peer \in [Sockets -> PeerStates]
    BY DEF Init, PeerStates
  <2>4. /\ open \in [Sockets -> BOOLEAN] /\ stopped \in [Sockets -> BOOLEAN]
        /\ unread \in [Sockets -> BOOLEAN]
        /\ is_running \in BOOLEAN /\ accepting \in BOOLEAN
    BY DEF Init
  <2>5. /\ acceptor \in {"null", "open", "closed", "crashed"}
        /\ told \in [Sockets -> {"nothing", "connected", "disconnected"}]
        /\ sent \in [Sockets -> Nat] /\ delivered \in [Sockets -> Nat]
        /\ disconnects \in [Sockets -> Nat] /\ stops \in Nat
    BY DEF Init
  <2> QED
    BY <2>1, <2>2, <2>3, <2>4, <2>5 DEF TypeOK
<1>4. AcceptInv /\ ArgsInv
  BY <1>2 DEF AcceptInv, ArgsInv
<1>5. StopsInv
  BY DEF Init, StopsInv
<1>6. ASSUME NEW s \in Sockets
      PROVE  SocketInv(s)
  <2>1. /\ stopped[s] = FALSE /\ reading = {} /\ writing[s] = Null /\ unread[s] = FALSE
        /\ open[s] = FALSE
        /\ sent[s] = 0 /\ delivered[s] = 0 /\ told[s] = "nothing" /\ disconnects[s] = 0
        /\ \A i \in Slots : client_connections[i] # s
        /\ id[s] = 0
    BY <1>3, ServerAssumption DEF Init
  <2>2. ~InSlot(s) /\ ~Going(s)
    BY <1>2, <2>1 DEF InSlot, Going
  <2>3. LoopInv(s)
    BY <1>2, <2>1 DEF LoopInv
  <2>4. LiveInv(s)
    BY <1>2, <2>1, <2>2 DEF LiveInv
  <2>5. EndInv(s) /\ SlotInv(s)
    BY <1>2, <2>1, <2>2 DEF EndInv, SlotInv
  <2>6. ToldInv(s)
    BY <1>2, <2>1, <2>2, NoneOne DEF ToldInv
  <2>7. NewInv(s)
    BY <1>2, <2>1 DEF NewInv, Blank
  <2>8. DataInv(s)
    <3>1. Received(s) = 0
      BY <1>2, <2>1 DEF Received, Flag
    <3> QED
      BY <2>1, <3>1 DEF DataInv
  <2> QED
    BY <2>3, <2>4, <2>5, <2>6, <2>7, <2>8 DEF SocketInv
<1> QED
  BY <1>3, <1>4, <1>5, <1>6 DEF ServerInv

\* Start finds no operation of the server.
LEMMA StartInv == ServerInv /\ Start => ServerInv'
<1> SUFFICES ASSUME ServerInv, Start
             PROVE  ServerInv'
  OBVIOUS
<1>1. /\ Post("listen", Null) /\ accepting' = accepting /\ strand = <<>> /\ ~accepting
      /\ "listen" \in Closures /\ "listen" \notin EventOps /\ Null \in Args
  BY DEF EventOps, Start, Busy, ioVars, Closures, Args
<1>2. ~Has(strand, AcceptOps, Args)
  BY <1>1, Posts
<1>3. \A t \in Sockets : SameSocket(t)
  BY SameAll DEF Start, ioVars
<1>4. strand' \in Seq(Entry) => TypeOK'
  <2>1. calls' \in 0 .. MaxCalls
    BY ServerAssumption DEF ServerInv, TypeOK, Start
  <2> QED
    BY <2>1 DEF ServerInv, TypeOK, Start, socketVars, ioVars, peerVars
<1>5. StopsInv'
  BY DEF Start, StopsInv
<1> QED
  BY <1>1, <1>2, <1>3, <1>4, <1>5, ServerAssumption, PostInv

\* The accept loop begins, or the Acceptor throws.
LEMMA ListenInv == ServerInv /\ Listen => ServerInv'
<1> SUFFICES ASSUME ServerInv, Listen
             PROVE  ServerInv'
  OBVIOUS
<1> DEFINE q == <<E("onListening", Null)>>
<1>1. PICK p \in Seq(Entry) :
         /\ p \in {<<>>, q}
         /\ Step("listen", Null, p)
  <2>1. q \in Seq(Entry) /\ <<>> \in Seq(Entry)
    BY Posts DEF Args, Closures
  <2> QED
    BY <2>1 DEF Listen
<1>2. /\ ~Has(p, AcceptOps, Args) /\ One(p, AcceptOps, Args) /\ ~Has(p, EventOps, {Null})
      /\ \A t \in Sockets : Apart(p, t)
  <2>1. /\ ~Has(q, AcceptOps, Args) /\ ~Has(<<>>, AcceptOps, Args)
        /\ ~Has(q, EventOps, {Null}) /\ ~Has(<<>>, EventOps, {Null})
    <3>1. \A O, A : Has(q, O, A) <=> "onListening" \in O /\ Null \in A
      BY Posts DEF Args, Closures
    <3> HIDE DEF q
    <3> QED
      BY <3>1, Posts, Members
  <2>2. \A t \in Sockets : Apart(q, t) /\ Apart(<<>>, t)
    BY ApartPosts, ServerAssumption DEF Args, Closures
  <2> QED
    BY <1>1, <2>1, <2>2, NoneOne
<1>3. \A t \in Sockets : SameSocket(t)
  BY SameAll DEF Listen, events
<1>4. strand' \in Seq(Entry) => TypeOK'
  BY DEF ServerInv, TypeOK, Listen, socketVars, peerVars, events
<1>5. StopsInv'
  BY StopsNone DEF Listen, ServerInv, events
<1>6. "listen" \in AcceptOps /\ Null \in Args
  BY Members DEF Args
<1> QED
  BY <1>1, <1>2, <1>3, <1>4, <1>5, <1>6, ServerAssumption, StepInv

\* A step of the server itself, which posts nothing and changes no socket.
LEMMA PlainInv ==
    ASSUME ServerInv, NEW op, Step(op, Null, <<>>),
           op \in AcceptOps \/ (accepting' => accepting),
           UNCHANGED <<client_connections, socketVars, reading, writing, peerVars, delivered, told,
                       disconnects>>,
           strand' \in Seq(Entry) => TypeOK', StopsInv'
    PROVE  ServerInv'
<1> DEFINE p == <<>>
<1>1. /\ p \in Seq(Entry) /\ ~Has(p, AcceptOps, Args) /\ One(p, AcceptOps, Args)
      /\ ~Has(p, EventOps, {Null})
      /\ \A t \in Sockets : Apart(p, t)
  BY Posts, ApartPosts
<1>2. Step(op, Null, p)
  OBVIOUS
<1> HIDE DEF p
<1>3. \A t \in Sockets : SameSocket(t)
  BY SameAll
<1>4. Null \in Args
  BY DEF Args
<1> QED
  BY <1>1, <1>2, <1>3, <1>4, ServerAssumption, StepInv

\* on_listening_ changes nothing.
LEMMA OnListeningInv == ServerInv /\ OnListening => ServerInv'
<1> SUFFICES ASSUME ServerInv, OnListening
             PROVE  ServerInv'
  OBVIOUS
<1>1. strand' \in Seq(Entry) => TypeOK'
  BY DEF ServerInv, TypeOK, OnListening, socketVars, ioVars, peerVars, events
<1>2. StopsInv'
  BY StopsNone DEF OnListening, ServerInv, events
<1>3. /\ Step("onListening", Null, <<>>) /\ (accepting' => accepting)
      /\ UNCHANGED <<client_connections, socketVars, reading, writing, peerVars, delivered, told,
                     disconnects>>
  BY DEF OnListening, ioVars, events
<1> QED
  BY <1>1, <1>2, <1>3, PlainInv

\* The accept loop goes on.
LEMMA RearmInv == ServerInv /\ Rearm => ServerInv'
<1> SUFFICES ASSUME ServerInv, Rearm
             PROVE  ServerInv'
  OBVIOUS
<1>1. strand' \in Seq(Entry) => TypeOK'
  BY DEF ServerInv, TypeOK, Rearm, socketVars, peerVars, events
<1>2. StopsInv'
  BY StopsNone DEF Rearm, ServerInv, events
<1>3. /\ Step("rearm", Null, <<>>) /\ "rearm" \in AcceptOps
      /\ UNCHANGED <<client_connections, socketVars, reading, writing, peerVars, delivered, told,
                     disconnects>>
  BY Members DEF Rearm, events
<1> QED
  BY <1>1, <1>2, <1>3, PlainInv

\* The socket of a new client, or of a failed accept, is blank.
LEMMA AcceptCompleteInv ==
    ASSUME NEW s \in Sockets
    PROVE  ServerInv /\ AcceptComplete(s) => ServerInv'
<1> SUFFICES ASSUME ServerInv, AcceptComplete(s)
             PROVE  ServerInv'
  OBVIOUS
<1>1. TypeOK /\ SocketInv(s)
  BY DEF ServerInv
<1>2. SocketInv(s)'
  BY <1>1, AcceptCompleteOwn
<1>3. ASSUME NEW t \in Sockets, t # s
      PROVE  SameSocket(t)
  <2>1. peer'[t] = peer[t] /\ open'[t] = open[t]
    BY <1>1, <1>3 DEF AcceptComplete, TypeOK
  <2> QED
    BY <2>1 DEF AcceptComplete, SameSocket, events
<1>4. strand' \in Seq(Entry) => TypeOK'
  <2>1. peer' \in [Sockets -> PeerStates]
    <3>1. "connected" \in PeerStates /\ "phantom" \in PeerStates
      BY DEF PeerStates
    <3> QED
      BY <1>1, <3>1 DEF AcceptComplete, TypeOK
  <2>2. open' \in [Sockets -> BOOLEAN] /\ accepting' \in BOOLEAN
    BY <1>1 DEF AcceptComplete, TypeOK
  <2> QED
    BY <1>1, <2>1, <2>2 DEF TypeOK, AcceptComplete, events
<1>5. StopsInv'
  BY StopsNone DEF AcceptComplete, ServerInv, events
<1>6. /\ Post("acceptDone", s) /\ accepting /\ ~accepting'
      /\ "acceptDone" \in Closures /\ "acceptDone" \notin EventOps /\ s \in Args
  BY DEF EventOps, AcceptComplete, Closures, Args
<1> QED
  BY <1>2, <1>3, <1>4, <1>5, <1>6, PostInv

\* A stopped Acceptor gives up its accept.
LEMMA AcceptAbortedInv == ServerInv /\ AcceptAborted => ServerInv'
<1> SUFFICES ASSUME ServerInv, AcceptAborted
             PROVE  ServerInv'
  OBVIOUS
<1>1. \A t \in Sockets : SameSocket(t)
  BY SameAll DEF AcceptAborted, events
<1>2. strand' \in Seq(Entry) => TypeOK'
  BY DEF ServerInv, TypeOK, AcceptAborted, socketVars, peerVars, events
<1>3. StopsInv'
  BY StopsNone DEF AcceptAborted, ServerInv, events
<1>4. /\ Post("acceptDone", Null) /\ accepting /\ ~accepting'
      /\ "acceptDone" \in Closures /\ "acceptDone" \notin EventOps /\ Null \in Args
  BY DEF EventOps, AcceptAborted, Closures, Args
<1> QED
  BY <1>1, <1>2, <1>3, <1>4, ServerAssumption, PostInv

\* The rest of DoAccept: OnAccepted takes the place of the entry, or nothing.
LEMMA DoAcceptInv ==
    ASSUME NEW s \in Args
    PROVE  ServerInv /\ DoAccept(s) => ServerInv'
<1> SUFFICES ASSUME ServerInv, DoAccept(s)
             PROVE  ServerInv'
  OBVIOUS
<1> DEFINE q == <<E("OnAccepted", s)>>
<1>1. /\ q \in Seq(Entry) /\ \A O, A : Has(q, O, A) <=> "OnAccepted" \in O /\ s \in A
      /\ \A O, A : One(q, O, A)
      /\ <<>> \in Seq(Entry) /\ \A O, A : ~Has(<<>>, O, A) /\ One(<<>>, O, A)
      /\ \A t \in Sockets : t # s => Apart(q, t) /\ Apart(<<>>, t)
  BY Posts, ApartPosts DEF Args, Closures
<1> HIDE DEF q
<1>2. PICK p \in {q, <<>>} : Step("acceptDone", s, p)
  BY DEF DoAccept, q
<1>3. /\ p \in Seq(Entry) /\ One(p, AcceptOps, Args)
      /\ \A t \in Sockets : t # s => Apart(p, t)
      /\ \A O, A : Has(p, O, A) => "OnAccepted" \in O /\ s \in A
  BY <1>1, <1>2
<1>4. TypeOK /\ \A t \in Sockets : SocketInv(t)
  BY DEF ServerInv
<1>5. ASSUME NEW t \in Sockets
      PROVE  SameSocket(t)
  <2>1. open'[t] => open[t]
    BY <1>4 DEF DoAccept, TypeOK
  <2> QED
    BY <2>1 DEF DoAccept, SameSocket, ioVars, peerVars, events
<1>6. ASSUME s \in Sockets
      PROVE  SocketInv(s)'
  <2>1. strand \in Seq(Entry)
    BY <1>4 DEF TypeOK
  <2>2. ASSUME NEW O, O \cap (AcceptedOps \cup {"close"}) = {}
        PROVE  /\ Has(strand', O, {s}) <=> Has(strand, O, {s})
               /\ One(strand, O, {s}) => One(strand', O, {s})
    <3>1. "acceptDone" \notin O /\ "OnAccepted" \notin O
      BY <2>2, Members
    <3>2. ~Has(p, O, {s})
      BY <1>3, <3>1
    <3> QED
      BY <1>2, <1>3, <2>1, <3>1, <3>2, StepFlow
  <2>3. ConnectedFirst(strand, s) => ConnectedFirst(strand', s)
    <3>1. ~Has(p, {"onConnected"}, {s})
      BY <1>3
    <3> QED
      BY <1>2, <1>3, <2>1, <3>1, StepFlow
  <2>4. Has(strand, AcceptedOps, {s})
    <3>1. "acceptDone" \in AcceptedOps /\ s \in {s}
      BY Members
    <3> QED
      BY <1>2, <1>3, <2>1, <3>1, StepFlow
  <2>5. SameQueue(s)
    BY <2>2, <2>3, <2>4 DEF SameQueue
  <2> QED
    BY <1>4, <1>5, <1>6, <2>5, Aside
<1>7. strand' \in Seq(Entry) => TypeOK'
  <2>1. open' \in [Sockets -> BOOLEAN]
    BY <1>4 DEF DoAccept, TypeOK
  <2> QED
    BY <1>4, <2>1 DEF TypeOK, DoAccept, ioVars, peerVars, events
<1>8. StopsInv'
  BY StopsNone DEF DoAccept, ServerInv, events
<1>9. "acceptDone" \in AcceptOps /\ accepting' = accepting /\ ~Has(p, EventOps, {Null})
  <2>1. "acceptDone" \in AcceptOps /\ "OnAccepted" \notin EventOps
    BY Members
  <2> QED
    BY <1>3, <2>1 DEF DoAccept, ioVars
<1>10. ~accepting
  <2>1. Has(strand, AcceptOps, Args)
    BY <1>2, <1>3, <1>4, <1>9, StepFlow DEF TypeOK
  <2> QED
    BY <2>1 DEF ServerInv, AcceptInv
<1> QED
  BY <1>2, <1>3, <1>5, <1>6, <1>7, <1>8, <1>9, <1>10, StepInv

\* Too late, refused, or admitted to the first free slot.
LEMMA OnAcceptedInv ==
    ASSUME NEW s \in Sockets
    PROVE  ServerInv /\ OnAccepted(s) => ServerInv'
<1> SUFFICES ASSUME ServerInv, OnAccepted(s)
             PROVE  ServerInv'
  OBVIOUS
<1>1. TypeOK /\ AcceptInv /\ StopsInv /\ SocketInv(s) /\ s \in Args /\ strand \in Seq(Entry)
  BY DEF ServerInv, Args, TypeOK
<1>2. UNCHANGED <<is_running, acceptor, stopped, accepting, reading, writing, peer, unread, sent,
                  delivered, told, disconnects, stops, calls>>
  BY DEF OnAccepted, ioVars, peerVars, events
<1>3. "OnAccepted" \in AcceptOps /\ "OnAccepted" \in AcceptedOps
  BY Members
<1>4. ASSUME NEW p, Closing(p), Step("OnAccepted", s, p), UNCHANGED <<client_connections, id>>,
             open' \in [Sockets -> BOOLEAN], \A t \in Sockets : open'[t] => open[t]
      PROVE  ServerInv'
  <2>1. /\ p \in Seq(Entry) /\ ~Has(p, AcceptOps, Args) /\ ~Has(p, EventOps, {Null})
        /\ \A t : Apart(p, t)
    BY <1>4, ClosingPosts
  <2>2. \A t \in Sockets : SameSocket(t)
    BY <1>2, <1>4 DEF SameSocket
  <2>3. SocketInv(s)'
    BY <1>1, <1>3, <1>4, <2>1, <2>2, OtherStep, Aside
  <2>4. strand' \in Seq(Entry) => TypeOK'
    BY <1>1, <1>2, <1>4 DEF TypeOK
  <2>5. StopsInv'
    BY <1>1, <1>2, <1>4, StopsNone
  <2> QED
    BY <1>1, <1>2, <1>4, <2>1, <2>2, <2>3, <2>4, <2>5, StepInv
<1>5. CASE ~is_running
  <2>1. /\ Step("OnAccepted", s, <<>>) /\ open' = [open EXCEPT ![s] = FALSE]
        /\ UNCHANGED <<client_connections, id>>
    BY <1>5 DEF OnAccepted
  <2>2. open' \in [Sockets -> BOOLEAN] /\ \A t \in Sockets : open'[t] => open[t]
    BY <1>1, <2>1 DEF TypeOK
  <2> QED
    BY <1>4, <2>1, <2>2, ClosingOne
<1>6. CASE is_running /\ FreeSlots = {}
  <2>1. /\ Step("OnAccepted", s, StopSocket(s))
        /\ UNCHANGED <<client_connections, id, open>>
    BY <1>6 DEF OnAccepted
  <2> QED
    BY <1>1, <1>4, <2>1, ClosingOne DEF TypeOK
<1>7. CASE is_running /\ FreeSlots # {}
  <2> DEFINE k == GetNewConnectionIndex
  <2>1. Admit(s)
    BY <1>7 DEF OnAccepted
  <2>2. PICK p \in Seq(Entry) :
           /\ Step("OnAccepted", s, p)
           /\ One(p, AcceptOps, Args) /\ Has(p, AcceptOps, Args) /\ ~Has(p, EventOps, {Null})
           /\ \A t \in Sockets : t # s => Apart(p, t)
    BY <2>1, AdmitPosts, ServerAssumption
  <2>3. SocketInv(s)'
    <3>1. UNCHANGED <<stopped, ioVars, peerVars, events>>
      BY DEF OnAccepted
    <3> QED
      BY <1>1, <1>7, <2>1, <3>1, AdmitOwn, ServerAssumption
  <2>4. k \in FreeSlots
    BY <1>7, FreeSlotFound
  <2>5. /\ client_connections' = [client_connections EXCEPT ![k] = s]
        /\ id' = [id EXCEPT ![s] = k] /\ open' = open
    BY <2>1 DEF Admit
  <2> HIDE DEF k
  <2>6. k \in Slots /\ client_connections[k] = Null /\ k \in 0 .. MaxConnections
    BY <2>4, ServerAssumption DEF FreeSlots, Slots
  <2>7. ASSUME NEW t \in Sockets, t # s
        PROVE  SameSocket(t)
    <3>1. \A i \in Slots : client_connections'[i] = t <=> client_connections[i] = t
      BY <1>1, <2>5, <2>6, <2>7, ServerAssumption DEF TypeOK
    <3>2. id'[t] = id[t] /\ open'[t] = open[t]
      BY <1>1, <2>5, <2>7 DEF TypeOK
    <3> QED
      BY <1>2, <3>1, <3>2 DEF SameSocket
  <2>8. strand' \in Seq(Entry) => TypeOK'
    <3>1. /\ client_connections' \in [Slots -> Sockets \cup {Null}]
          /\ id' \in [Sockets -> 0 .. MaxConnections]
      BY <1>1, <2>5, <2>6 DEF TypeOK
    <3> QED
      BY <1>1, <1>2, <2>5, <3>1 DEF TypeOK
  <2>9. StopsInv'
    BY <1>1, <1>2, <1>7 DEF StopsInv
  <2>10. ~accepting
    <3>1. Has(strand, AcceptOps, Args)
      BY <1>1, <1>3, <2>2, StepFlow
    <3> QED
      BY <1>1, <3>1 DEF AcceptInv
  <2> QED
    BY <1>1, <1>2, <1>3, <2>2, <2>3, <2>7, <2>8, <2>9, <2>10, StepInv
<1> QED
  BY <1>5, <1>6, <1>7

\* on_connected_ comes before all else of the socket.
LEMMA OnConnectedInv ==
    ASSUME NEW s \in Sockets
    PROVE  ServerInv /\ OnConnected(s) => ServerInv'
<1> SUFFICES ASSUME ServerInv, OnConnected(s)
             PROVE  ServerInv'
  OBVIOUS
<1>1. TypeOK /\ SocketInv(s) /\ s \in Args
  BY DEF ServerInv, Args
<1> DEFINE p == <<>>
<1>2. Step("onConnected", s, p) /\ (accepting' => accepting)
  BY DEF OnConnected, ioVars
<1>3. /\ p \in Seq(Entry) /\ ~Has(p, AcceptOps, Args) /\ ~Has(p, EventOps, {Null})
      /\ \A t : Apart(p, t)
  BY ClosingPosts, ClosingOne
<1> HIDE DEF p
<1>4. SocketInv(s)'
  BY <1>1, ConnectedOwn
<1>5. ASSUME NEW t \in Sockets, t # s
      PROVE  SameSocket(t)
  <2>1. told'[t] = told[t]
    BY <1>1, <1>5 DEF OnConnected, TypeOK
  <2> QED
    BY <2>1 DEF OnConnected, SameSocket, socketVars, ioVars, peerVars
<1>6. strand' \in Seq(Entry) => TypeOK'
  <2>1. told' \in [Sockets -> {"nothing", "connected", "disconnected"}]
    BY <1>1 DEF OnConnected, TypeOK
  <2> QED
    BY <1>1, <2>1 DEF OnConnected, TypeOK, socketVars, ioVars, peerVars
<1>7. StopsInv'
  BY StopsNone DEF OnConnected, ServerInv
<1> QED
  BY <1>1, <1>2, <1>3, <1>4, <1>5, <1>6, <1>7, StepInv

\* The next turn of a read loop.
LEMMA StartSocketInv ==
    ASSUME NEW s \in Sockets
    PROVE  ServerInv /\ StartSocket(s) => ServerInv'
<1> SUFFICES ASSUME ServerInv, StartSocket(s)
             PROVE  ServerInv'
  OBVIOUS
<1>1. TypeOK /\ SocketInv(s) /\ s \in Args
  BY DEF ServerInv, Args
<1> DEFINE p == IF open[s] THEN <<E("read", s)>> ELSE <<>>
<1>2. Step("start", s, p) /\ (accepting' => accepting)
  BY DEF StartSocket, ioVars
<1>3. /\ p \in Seq(Entry) /\ \A t \in Sockets : t # s => Apart(p, t)
      /\ \A O, A : Has(p, O, A) => "read" \in O /\ s \in A
  BY Posts, ApartPosts DEF Args, Closures
<1> HIDE DEF p
<1>4. ~Has(p, AcceptOps, Args) /\ ~Has(p, EventOps, {Null})
  BY <1>3, Members, ServerAssumption
<1>5. SocketInv(s)'
  BY <1>1, StartSocketOwn
<1>6. \A t \in Sockets : SameSocket(t)
  BY SameAll DEF StartSocket, ioVars, events
<1>7. strand' \in Seq(Entry) => TypeOK'
  BY <1>1 DEF StartSocket, TypeOK, socketVars, ioVars, peerVars, events
<1>8. StopsInv'
  BY StopsNone DEF StartSocket, ServerInv, events
<1> QED
  BY <1>1, <1>2, <1>3, <1>4, <1>5, <1>6, <1>7, <1>8, StepInv

\* A step that raises on_data_ is about its socket only.
LEMMA RaiseInv ==
    ASSUME ServerInv, NEW s \in Sockets, NEW op, NEW posts \in Seq(Entry),
           RaiseOnData(s, op, posts), ~Has(posts, AcceptOps, Args), ~Has(posts, EventOps, {Null}),
           \A t \in Sockets : t # s => Apart(posts, t) /\ stopped'[t] = stopped[t],
           stopped' \in [Sockets -> BOOLEAN],
           UNCHANGED <<is_running, acceptor, client_connections, open, id, accepting, reading,
                       peerVars, told, disconnects, stops, calls>>,
           SocketInv(s)'
    PROVE  ServerInv'
<1>1. TypeOK /\ s \in Args
  BY DEF ServerInv, Args
<1> DEFINE next == <<E("start", s)>>
           to == GetSocket(id[s])
<1>2. /\ next \in Seq(Entry) /\ \A t \in Sockets : t # s => Apart(next, t)
      /\ \A O, A : Has(next, O, A) => "start" \in O
  BY Posts, ApartPosts DEF Args, Closures
<1>3. delivered' = [delivered EXCEPT ![s] = @ + 1]
  BY DEF RaiseOnData
<1>4. to \in Sockets \cup {Null}
  BY <1>1 DEF GetSocket, TypeOK
<1>5. PICK p \in {posts, posts \o next} :
         Step(op, s, p) /\ (writing' = writing \/ writing' = [writing EXCEPT ![s] = to])
  BY DEF RaiseOnData, next
<1> HIDE DEF next, to
<1>6. p \in Seq(Entry) /\ \A t \in Sockets : t # s => Apart(p, t)
  <2>1. posts \o next \in Seq(Entry)
    BY <1>2, Concat
  <2>2. \A t \in Sockets : t # s => Apart(posts \o next, t)
    BY <1>2, ApartPosts
  <2> QED
    BY <1>5, <2>1, <2>2
<1>7. ~Has(p, AcceptOps, Args) /\ ~Has(p, EventOps, {Null})
  <2>1. ~Has(next, AcceptOps, Args) /\ ~Has(next, EventOps, {Null})
    BY <1>2, Members
  <2>2. ~Has(posts \o next, AcceptOps, Args) /\ ~Has(posts \o next, EventOps, {Null})
    BY <1>2, <2>1, Concat
  <2> QED
    BY <1>5, <2>2
<1>8. ASSUME NEW t \in Sockets, t # s
      PROVE  SameSocket(t)
  <2>1. writing'[t] = writing[t] /\ delivered'[t] = delivered[t]
    BY <1>1, <1>3, <1>5, <1>8 DEF TypeOK
  <2> QED
    BY <1>8, <2>1 DEF SameSocket, peerVars
<1>9. strand' \in Seq(Entry) => TypeOK'
  <2>1. writing' \in [Sockets -> Sockets \cup {Null}]
    BY <1>1, <1>4, <1>5 DEF TypeOK
  <2>2. delivered' \in [Sockets -> Nat]
    BY <1>1, <1>3 DEF TypeOK
  <2> QED
    BY <1>1, <2>1, <2>2 DEF TypeOK, peerVars
<1>10. StopsInv'
  BY StopsNone DEF ServerInv
<1> QED
  BY <1>1, <1>5, <1>6, <1>7, <1>8, <1>9, <1>10, StepInv

\* A read begins, or a closed socket delivers an empty buffer.
LEMMA ReadInv ==
    ASSUME NEW s \in Sockets
    PROVE  ServerInv /\ Read(s) => ServerInv'
<1> SUFFICES ASSUME ServerInv, Read(s)
             PROVE  ServerInv'
  OBVIOUS
<1>1. TypeOK /\ SocketInv(s) /\ s \in Args
  BY DEF ServerInv, Args
<1>2. SocketInv(s)'
  BY <1>1, ReadOwn, ServerAssumption
<1>3. UNCHANGED <<is_running, acceptor, client_connections, open, stopped, id, accepting, peerVars,
                  told, disconnects, stops, calls>>
  BY DEF Read, socketVars
<1> DEFINE p == <<>>
<1>4. /\ p \in Seq(Entry) /\ ~Has(p, AcceptOps, Args) /\ ~Has(p, EventOps, {Null})
      /\ \A t : Apart(p, t)
  BY ClosingPosts, ClosingOne
<1>5. CASE open[s]
  <2>1. /\ Step("read", s, p) /\ reading' = reading \cup {s}
        /\ UNCHANGED <<delivered, writing>>
    BY <1>5 DEF Read
  <2> HIDE DEF p
  <2>2. ASSUME NEW t \in Sockets, t # s
        PROVE  SameSocket(t)
    BY <1>3, <2>1, <2>2 DEF SameSocket, peerVars
  <2>3. strand' \in Seq(Entry) => TypeOK'
    BY <1>1, <1>3, <2>1 DEF TypeOK, peerVars
  <2>4. StopsInv'
    BY <1>3, StopsNone DEF ServerInv
  <2> QED
    BY <1>1, <1>2, <1>3, <1>4, <2>1, <2>2, <2>3, <2>4, StepInv
<1>6. CASE ~open[s]
  <2>1. RaiseOnData(s, "read", p) /\ UNCHANGED reading
    BY <1>6 DEF Read
  <2> HIDE DEF p
  <2> QED
    BY <1>1, <1>2, <1>3, <1>4, <2>1, RaiseInv DEF TypeOK
<1> QED
  BY <1>5, <1>6

\* Data was received.
LEMMA ReadOkInv ==
    ASSUME NEW s \in Sockets
    PROVE  ServerInv /\ ReadOk(s) => ServerInv'
<1> SUFFICES ASSUME ServerInv, ReadOk(s)
             PROVE  ServerInv'
  OBVIOUS
<1>1. TypeOK /\ SocketInv(s)
  BY DEF ServerInv
<1>2. SocketInv(s)'
  BY <1>1, ReadOkOwn, ServerAssumption
<1> DEFINE p == PostDisconnected(s)
<1>3. /\ ClosedAfter(s) /\ RaiseOnData(s, "readOk", p)
      /\ UNCHANGED <<is_running, acceptor, client_connections, open, id, accepting, reading,
                     peerVars, told, disconnects, stops, calls>>
  BY DEF ReadOk
<1>4. /\ p \in Seq(Entry) /\ stopped' \in [Sockets -> BOOLEAN]
      /\ \A t \in Sockets : t # s => Apart(p, t) /\ stopped'[t] = stopped[t]
      /\ \A O, A : Has(p, O, A) => "disconnected" \in O /\ s \in A
  BY <1>1, <1>3, Notices
<1> HIDE DEF p
<1>5. ~Has(p, AcceptOps, Args) /\ ~Has(p, EventOps, {Null})
  BY <1>4, Members, ServerAssumption
<1> QED
  BY <1>2, <1>3, <1>4, <1>5, RaiseInv

\* The connection ended.
LEMMA ReadEndsInv ==
    ASSUME NEW s \in Sockets, NEW op \in {"readClosed", "readError"}
    PROVE  ServerInv /\ ReadEnds(s, op) => ServerInv'
<1> SUFFICES ASSUME ServerInv, ReadEnds(s, op)
             PROVE  ServerInv'
  OBVIOUS
<1>1. TypeOK /\ SocketInv(s) /\ s \in Args
  BY DEF ServerInv, Args
<1>2. SocketInv(s)'
  BY <1>1, ReadEndsOwn
<1>3. PICK p \in Seq(Entry) :
         /\ Step(op, s, p)
         /\ ~Has(p, AcceptOps, Args) /\ ~Has(p, EventOps, {Null})
         /\ \A t \in Sockets : t # s => Apart(p, t)
  BY <1>1, EndPosts
<1>4. ClosedAfter(s)
  BY DEF ReadEnds
<1>5. /\ stopped' \in [Sockets -> BOOLEAN]
      /\ \A t \in Sockets : t # s => stopped'[t] = stopped[t]
  BY <1>1, <1>4, Notices
<1>6. ASSUME NEW t \in Sockets, t # s
      PROVE  SameSocket(t)
  BY <1>5, <1>6 DEF ReadEnds, SameSocket, ioVars, peerVars, events
<1>7. strand' \in Seq(Entry) => TypeOK'
  BY <1>1, <1>5 DEF ReadEnds, TypeOK, ioVars, peerVars, events
<1>8. StopsInv' /\ accepting' = accepting
  BY StopsNone DEF ReadEnds, ServerInv, events, ioVars
<1> QED
  BY <1>1, <1>2, <1>3, <1>6, <1>7, <1>8, StepInv

\* The system ends a read.
LEMMA ReadCompleteInv ==
    ASSUME NEW s \in Sockets
    PROVE  ServerInv /\ ReadComplete(s) => ServerInv'
<1> SUFFICES ASSUME ServerInv, ReadComplete(s)
             PROVE  ServerInv'
  OBVIOUS
<1>1. TypeOK /\ SocketInv(s) /\ s \in Args
  BY DEF ServerInv, Args
<1>2. SocketInv(s)'
  BY <1>1, ReadCompleteOwn
<1>3. PICK op \in RestOps :
         Post(op, s) /\ (unread' = unread \/ unread' = [unread EXCEPT ![s] = FALSE])
  BY Members DEF ReadComplete
<1>4. op \in Closures /\ op \notin AcceptOps /\ s # Null
  BY Members, ServerAssumption
<1>5. ASSUME NEW t \in Sockets, t # s
      PROVE  SameSocket(t)
  <2>1. unread'[t] = unread[t] /\ (t \in reading' <=> t \in reading)
    BY <1>1, <1>3, <1>5 DEF ReadComplete, TypeOK
  <2> QED
    BY <2>1 DEF ReadComplete, SameSocket, socketVars, events
<1>6. strand' \in Seq(Entry) => TypeOK'
  <2>1. unread' \in [Sockets -> BOOLEAN] /\ reading' \in SUBSET Sockets
    BY <1>1, <1>3 DEF ReadComplete, TypeOK
  <2> QED
    BY <1>1, <2>1 DEF ReadComplete, TypeOK, socketVars, events
<1>7. StopsInv' /\ accepting' = accepting
  BY StopsNone DEF ReadComplete, ServerInv, events
<1> QED
  BY <1>1, <1>2, <1>3, <1>4, <1>5, <1>6, <1>7, PostInv

\* The system ends a write.
LEMMA WriteCompleteInv ==
    ASSUME NEW s \in Sockets
    PROVE  ServerInv /\ WriteComplete(s) => ServerInv'
<1> SUFFICES ASSUME ServerInv, WriteComplete(s)
             PROVE  ServerInv'
  OBVIOUS
<1>1. TypeOK /\ SocketInv(s) /\ s \in Args
  BY DEF ServerInv, Args
<1>2. SocketInv(s)'
  BY <1>1, WriteCompleteOwn
<1>3. /\ "writeDone" \in Closures /\ "writeDone" \notin AcceptOps /\ "writeDone" \notin EventOps
      /\ Post("writeDone", s)
  BY Members DEF Closures, WriteComplete
<1>4. \A t \in Sockets : SameSocket(t)
  BY SameAll DEF WriteComplete, ioVars, events
<1>5. strand' \in Seq(Entry) => TypeOK'
  BY <1>1 DEF WriteComplete, TypeOK, socketVars, ioVars, peerVars, events
<1>6. StopsInv' /\ accepting' = accepting
  BY StopsNone DEF WriteComplete, ServerInv, events, ioVars
<1> QED
  BY <1>1, <1>2, <1>3, <1>4, <1>5, <1>6, PostInv

\* The subscriber's write is over.
LEMMA WriteDoneInv ==
    ASSUME NEW s \in Sockets
    PROVE  ServerInv /\ WriteDone(s) => ServerInv'
<1> SUFFICES ASSUME ServerInv, WriteDone(s)
             PROVE  ServerInv'
  OBVIOUS
<1>1. TypeOK /\ SocketInv(s) /\ s \in Args
  BY DEF ServerInv, Args
<1>2. SocketInv(s)'
  BY <1>1, WriteDoneOwn, ServerAssumption
<1>3. PICK p \in Seq(Entry) :
         /\ Step("writeDone", s, p)
         /\ ~Has(p, AcceptOps, Args) /\ ~Has(p, EventOps, {Null})
         /\ \A t \in Sockets : t # s => Apart(p, t)
  BY <1>1, WriteDonePosts, ServerAssumption
<1>4. ClosedAfter(s)
  BY <1>1, WriteDonePosts, ServerAssumption
<1>5. /\ stopped' \in [Sockets -> BOOLEAN]
      /\ \A t \in Sockets : t # s => stopped'[t] = stopped[t]
  BY <1>1, <1>4, Notices
<1>6. writing' = [writing EXCEPT ![s] = Null]
  BY DEF WriteDone
<1>7. ASSUME NEW t \in Sockets, t # s
      PROVE  SameSocket(t)
  <2>1. writing'[t] = writing[t]
    BY <1>1, <1>6, <1>7 DEF TypeOK
  <2> QED
    BY <1>5, <1>7, <2>1 DEF WriteDone, SameSocket, peerVars, events
<1>8. strand' \in Seq(Entry) => TypeOK'
  <2>1. writing' \in [Sockets -> Sockets \cup {Null}]
    BY <1>1, <1>6 DEF TypeOK
  <2> QED
    BY <1>1, <1>5, <2>1 DEF WriteDone, TypeOK, peerVars, events
<1>9. StopsInv' /\ accepting' = accepting
  BY StopsNone DEF WriteDone, ServerInv, events
<1> QED
  BY <1>1, <1>2, <1>3, <1>7, <1>8, <1>9, StepInv

\* The end of a connection goes from the socket to the server.
LEMMA DisconnectedInv ==
    ASSUME NEW s \in Sockets
    PROVE  ServerInv /\ OnSocketDisconnected(s) => ServerInv'
<1> SUFFICES ASSUME ServerInv, OnSocketDisconnected(s)
             PROVE  ServerInv'
  OBVIOUS
<1>1. TypeOK /\ SocketInv(s) /\ s \in Args
  BY DEF ServerInv, Args
<1>2. SocketInv(s)'
  BY <1>1, DisconnectedOwn
<1> DEFINE p == <<E("release", s)>>
<1>3. Step("disconnected", s, p) /\ accepting' = accepting
  BY DEF OnSocketDisconnected, ioVars
<1>4. /\ p \in Seq(Entry) /\ \A t \in Sockets : t # s => Apart(p, t)
      /\ \A O, A : Has(p, O, A) => "release" \in O /\ s \in A
  BY Posts, ApartPosts DEF Args, Closures
<1> HIDE DEF p
<1>5. ~Has(p, AcceptOps, Args) /\ ~Has(p, EventOps, {Null})
  BY <1>4, Members, ServerAssumption
<1>6. \A t \in Sockets : SameSocket(t)
  BY SameAll DEF OnSocketDisconnected, ioVars, events
<1>7. strand' \in Seq(Entry) => TypeOK'
  BY <1>1 DEF OnSocketDisconnected, TypeOK, socketVars, ioVars, peerVars, events
<1>8. StopsInv'
  BY StopsNone DEF OnSocketDisconnected, ServerInv, events
<1> QED
  BY <1>1, <1>2, <1>3, <1>4, <1>5, <1>6, <1>7, <1>8, StepInv

\* The slot becomes free, and on_stopped_ may be due.
LEMMA ReleaseInv ==
    ASSUME NEW s \in Sockets
    PROVE  ServerInv /\ Release(s) => ServerInv'
<1> SUFFICES ASSUME ServerInv, Release(s)
             PROVE  ServerInv'
  OBVIOUS
<1>1. TypeOK /\ StopsInv /\ SocketInv(s) /\ s \in Args
  BY DEF ServerInv, Args
<1>2. SocketInv(s)' /\ InSlot(s)
  BY <1>1, ReleaseOwn, ServerAssumption
<1> DEFINE p == <<>>
<1>3. Step("release", s, p) /\ accepting' = accepting
  BY DEF Release, ioVars
<1>4. /\ p \in Seq(Entry) /\ ~Has(p, AcceptOps, Args) /\ ~Has(p, EventOps, {Null})
      /\ \A t : Apart(p, t)
  BY ClosingPosts, ClosingOne
<1> HIDE DEF p
<1>5. /\ told' = [told EXCEPT ![s] = "disconnected"]
      /\ disconnects' = [disconnects EXCEPT ![s] = @ + 1]
      /\ client_connections' = [client_connections EXCEPT ![id[s]] = Null]
      /\ open' = [open EXCEPT ![s] = FALSE]
      /\ UNCHANGED <<is_running, acceptor, stopped, id, ioVars, peerVars, delivered, calls>>
  BY DEF Release
<1>6. id[s] \in Slots /\ client_connections[id[s]] = s
  BY <1>2 DEF InSlot
<1>7. ASSUME NEW t \in Sockets, t # s
      PROVE  SameSocket(t)
  <2>1. \A i \in Slots : client_connections'[i] = t <=> client_connections[i] = t
    BY <1>1, <1>5, <1>6, <1>7, ServerAssumption DEF TypeOK
  <2>2. told'[t] = told[t] /\ disconnects'[t] = disconnects[t] /\ open'[t] = open[t]
    BY <1>1, <1>5, <1>7 DEF TypeOK
  <2> QED
    BY <1>5, <2>1, <2>2 DEF SameSocket, ioVars, peerVars
<1>8. \/ stops' = stops
      \/ ~is_running /\ stops' = stops + 1 /\ \A i \in Slots : client_connections'[i] = Null
  BY DEF Release, RaiseOnClosed
<1>9. strand' \in Seq(Entry) => TypeOK'
  <2>1. client_connections' \in [Slots -> Sockets \cup {Null}]
    BY <1>1, <1>5 DEF TypeOK
  <2>2. /\ told' \in [Sockets -> {"nothing", "connected", "disconnected"}]
        /\ disconnects' \in [Sockets -> Nat] /\ open' \in [Sockets -> BOOLEAN]
    BY <1>1, <1>5 DEF TypeOK
  <2>3. stops' \in Nat
    BY <1>1, <1>8 DEF TypeOK
  <2> QED
    BY <1>1, <1>5, <2>1, <2>2, <2>3 DEF TypeOK, ioVars, peerVars
<1>10. StopsInv'
  <2>1. stops \in Nat
    BY <1>1 DEF TypeOK
  <2>2. stops # 1
    BY <1>1, <1>6, ServerAssumption DEF StopsInv
  <2>3. stops = 0
    BY <1>1, <2>1, <2>2 DEF StopsInv
  <2> QED
    BY <1>5, <1>8, <2>3 DEF StopsInv
<1> QED
  BY <1>1, <1>2, <1>3, <1>4, <1>7, <1>9, <1>10, StepInv

\* TcpSocket::Stop closes the descriptor.
LEMMA CloseInv ==
    ASSUME NEW s \in Sockets
    PROVE  ServerInv /\ Close(s) => ServerInv'
<1> SUFFICES ASSUME ServerInv, Close(s)
             PROVE  ServerInv'
  OBVIOUS
<1>1. TypeOK /\ SocketInv(s) /\ s \in Args /\ strand \in Seq(Entry)
  BY DEF ServerInv, Args, TypeOK
<1> DEFINE p == <<>>
<1>2. Step("close", s, p) /\ accepting' = accepting /\ open' = [open EXCEPT ![s] = FALSE]
  BY DEF Close, ioVars
<1>3. /\ p \in Seq(Entry) /\ ~Has(p, AcceptOps, Args) /\ ~Has(p, EventOps, {Null})
      /\ \A t : Apart(p, t)
  BY ClosingPosts, ClosingOne
<1> HIDE DEF p
<1>4. ASSUME NEW t \in Sockets
      PROVE  SameSocket(t)
  <2>1. open'[t] => open[t]
    BY <1>1, <1>2 DEF TypeOK
  <2> QED
    BY <2>1 DEF Close, SameSocket, ioVars, peerVars, events
<1>5. SocketInv(s)'
  BY <1>1, <1>2, <1>3, <1>4, OtherStep, Aside
<1>6. strand' \in Seq(Entry) => TypeOK'
  <2>1. open' \in [Sockets -> BOOLEAN]
    BY <1>1, <1>2 DEF TypeOK
  <2> QED
    BY <1>1, <2>1 DEF Close, TypeOK, ioVars, peerVars, events
<1>7. StopsInv'
  BY StopsNone DEF Close, ServerInv, events
<1> QED
  BY <1>1, <1>2, <1>3, <1>4, <1>5, <1>6, <1>7, StepInv

\* Stop posts its closure.
LEMMA CallStopInv == ServerInv /\ CallStop => ServerInv'
<1> SUFFICES ASSUME ServerInv, CallStop
             PROVE  ServerInv'
  OBVIOUS
<1>1. /\ Post("stop", Null) /\ accepting' = accepting
      /\ "stop" \in Closures /\ "stop" \notin AcceptOps /\ "stop" \notin EventOps /\ Null \in Args
  BY Members DEF CallStop, ioVars, Closures, Args
<1>2. \A t \in Sockets : SameSocket(t)
  BY SameAll DEF CallStop, ioVars, events
<1>3. strand' \in Seq(Entry) => TypeOK'
  <2>1. calls' \in 0 .. MaxCalls
    BY ServerAssumption DEF ServerInv, TypeOK, CallStop
  <2> QED
    BY <2>1 DEF ServerInv, TypeOK, CallStop, socketVars, ioVars, peerVars, events
<1>4. StopsInv'
  BY StopsNone DEF CallStop, ServerInv, events
<1> QED
  BY <1>1, <1>2, <1>3, <1>4, ServerAssumption, PostInv

\* StopClient posts its closure.
LEMMA CallStopClientInv == ServerInv /\ CallStopClient => ServerInv'
<1> SUFFICES ASSUME ServerInv, CallStopClient
             PROVE  ServerInv'
  OBVIOUS
<1>1. /\ Post("stopClient", Null) /\ accepting' = accepting
      /\ "stopClient" \in Closures /\ "stopClient" \notin AcceptOps
      /\ "stopClient" \notin EventOps /\ Null \in Args
  BY Members DEF CallStopClient, ioVars, Closures, Args
<1>2. \A t \in Sockets : SameSocket(t)
  BY SameAll DEF CallStopClient, ioVars, events
<1>3. strand' \in Seq(Entry) => TypeOK'
  <2>1. calls' \in 0 .. MaxCalls
    BY ServerAssumption DEF ServerInv, TypeOK, CallStopClient
  <2> QED
    BY <2>1 DEF ServerInv, TypeOK, CallStopClient, socketVars, ioVars, peerVars, events
<1>4. StopsInv'
  BY StopsNone DEF CallStopClient, ServerInv, events
<1> QED
  BY <1>1, <1>2, <1>3, <1>4, ServerAssumption, PostInv

\* The closure of Stop closes what is open; on_stopped_ may be due.
LEMMA StopInv == ServerInv /\ Stop => ServerInv'
<1> SUFFICES ASSUME ServerInv, Stop
             PROVE  ServerInv'
  OBVIOUS
<1>1. TypeOK /\ StopsInv
  BY DEF ServerInv
<1>2. PICK p : Closing(p) /\ Step("stop", Null, p)
  <2>1. \/ Step("stop", Null, StopSockets[MaxConnections])
        \/ Step("stop", Null, <<>>)
    BY DEF Stop
  <2> QED
    BY <1>1, <2>1, StopSocketsClosing, ClosingOne
<1>3. /\ p \in Seq(Entry) /\ ~Has(p, AcceptOps, Args) /\ ~Has(p, EventOps, {Null})
      /\ \A t : Apart(p, t)
  BY <1>2, ClosingPosts
<1>4. UNCHANGED <<client_connections, socketVars, ioVars, peerVars, delivered, told, disconnects,
                  calls>>
  BY DEF Stop
<1>5. \A t \in Sockets : SameSocket(t)
  BY <1>4, SameAll DEF ioVars
<1>6. /\ ~is_running' /\ is_running' \in BOOLEAN
      /\ acceptor' \in {"null", "open", "closed", "crashed"}
      /\ \/ stops' = stops
         \/ is_running /\ stops' = stops + 1 /\ \A i \in Slots : client_connections[i] = Null
  <2>1. CASE is_running /\ acceptor # "null"
    BY <2>1 DEF Stop, RaiseOnClosed
  <2>2. CASE is_running /\ acceptor = "null"
    BY <2>2 DEF Stop
  <2>3. CASE ~is_running
    BY <1>1, <2>3 DEF Stop, TypeOK
  <2> QED
    BY <2>1, <2>2, <2>3
<1>7. strand' \in Seq(Entry) => TypeOK'
  <2>1. stops' \in Nat
    BY <1>1, <1>6 DEF TypeOK
  <2> QED
    BY <1>1, <1>4, <1>6, <2>1 DEF TypeOK, socketVars, ioVars, peerVars
<1>8. StopsInv'
  <2>1. stops \in Nat
    BY <1>1 DEF TypeOK
  <2> QED
    BY <1>1, <1>4, <1>6, <2>1 DEF StopsInv
<1>9. Null \in Args /\ accepting' = accepting
  BY <1>4 DEF Args, ioVars
<1> QED
  BY <1>2, <1>3, <1>5, <1>7, <1>8, <1>9, ServerAssumption, StepInv

\* The closure of StopClient stops some socket, or none.
LEMMA StopClientInv == ServerInv /\ StopClient => ServerInv'
<1> SUFFICES ASSUME ServerInv, StopClient
             PROVE  ServerInv'
  OBVIOUS
<1>1. PICK p : Closing(p) /\ Step("stopClient", Null, p)
  <2>1. PICK j \in 0 .. MaxConnections :
           Step("stopClient", Null, IF GetSocket(j) = Null THEN <<>> ELSE StopSocket(GetSocket(j)))
    BY DEF StopClient
  <2>2. GetSocket(j) \in Sockets \cup {Null}
    BY DEF ServerInv, TypeOK, GetSocket
  <2> QED
    BY <2>1, <2>2, ClosingOne
<1>2. /\ p \in Seq(Entry) /\ ~Has(p, AcceptOps, Args) /\ ~Has(p, EventOps, {Null})
      /\ \A t : Apart(p, t)
  BY <1>1, ClosingPosts
<1>3. UNCHANGED <<is_running, acceptor, client_connections, socketVars, ioVars, peerVars, events,
                  calls>>
  BY DEF StopClient
<1>4. \A t \in Sockets : SameSocket(t)
  BY <1>3, SameAll DEF ioVars, events
<1>5. strand' \in Seq(Entry) => TypeOK'
  BY <1>3 DEF ServerInv, TypeOK, socketVars, ioVars, peerVars, events
<1>6. StopsInv'
  BY <1>3, StopsNone DEF ServerInv, events
<1>7. Null \in Args /\ accepting' = accepting
  BY <1>3 DEF Args, ioVars
<1> QED
  BY <1>1, <1>2, <1>4, <1>5, <1>6, <1>7, ServerAssumption, StepInv

\* Clients connect, send and leave.
LEMMA ClientInv ==
    ASSUME NEW s \in Sockets
    PROVE  /\ ServerInv /\ Connect(s) => ServerInv'
           /\ ServerInv /\ Send(s) => ServerInv'
           /\ \A how \in {"closed", "failed"} : ServerInv /\ Leave(s, how) => ServerInv'
<1>1. ASSUME ServerInv, NEW how \in {"connecting", "closed", "failed"},
             peer' = [peer EXCEPT ![s] = how], how = "connecting" => peer[s] = "idle",
             UNCHANGED <<strand, is_running, acceptor, client_connections, socketVars, ioVars,
                         unread, sent, events, calls>>
      PROVE  ServerInv'
  <2>1. TypeOK
    BY <1>1 DEF ServerInv
  <2>2. TypeOK'
    <3>1. peer' \in [Sockets -> PeerStates]
      <4>1. how \in PeerStates
        BY DEF PeerStates
      <4> QED
        BY <1>1, <2>1, <4>1 DEF TypeOK
    <3> QED
      BY <1>1, <2>1, <3>1 DEF TypeOK, socketVars, ioVars, events
  <2>3. ASSUME NEW t \in Sockets
        PROVE  SameSocket(t)
    <3>1. peer'[t] \in {"idle", "connecting"} => peer[t] \in {"idle", "connecting"}
      BY <1>1, <2>1 DEF TypeOK
    <3> QED
      BY <1>1, <3>1 DEF SameSocket, socketVars, ioVars, events
  <2>4. StopsInv' /\ accepting' = accepting
    BY <1>1, StopsNone DEF ServerInv, events, ioVars
  <2> QED
    BY <1>1, <2>2, <2>3, <2>4, QuietInv
<1>2. ASSUME ServerInv, Connect(s)
      PROVE  ServerInv'
  BY <1>1, <1>2 DEF Connect
<1>3. ASSUME ServerInv, NEW how \in {"closed", "failed"}, Leave(s, how)
      PROVE  ServerInv'
  BY <1>1, <1>3 DEF Leave
<1>4. ASSUME ServerInv, Send(s)
      PROVE  ServerInv'
  <2>1. TypeOK /\ SocketInv(s)
    BY <1>4 DEF ServerInv
  <2>2. SocketInv(s)'
    BY <1>4, <2>1, SendOwn
  <2>3. /\ sent' = [sent EXCEPT ![s] = @ + 1] /\ unread' = [unread EXCEPT ![s] = TRUE]
        /\ UNCHANGED <<strand, is_running, acceptor, client_connections, socketVars, ioVars, peer,
                       events, calls>>
    BY <1>4 DEF Send
  <2>4. TypeOK'
    <3>1. sent' \in [Sockets -> Nat] /\ unread' \in [Sockets -> BOOLEAN]
      BY <2>1, <2>3 DEF TypeOK
    <3> QED
      BY <2>1, <2>3, <3>1 DEF TypeOK, socketVars, ioVars, events
  <2>5. ASSUME NEW t \in Sockets, t # s
        PROVE  SameSocket(t)
    <3>1. sent'[t] = sent[t] /\ unread'[t] = unread[t]
      BY <2>1, <2>3, <2>5 DEF TypeOK
    <3> QED
      BY <2>3, <3>1 DEF SameSocket, socketVars, ioVars, events
  <2>6. StopsInv' /\ accepting' = accepting
    BY <1>4, <2>3, StopsNone DEF ServerInv, events, ioVars
  <2> QED
    BY <1>4, <2>2, <2>3, <2>4, <2>5, <2>6, QuietInv
<1> QED
  BY <1>2, <1>3, <1>4

\* Nothing happens.
LEMMA StutterInv == ServerInv /\ UNCHANGED vars => ServerInv'
<1> SUFFICES ASSUME ServerInv, UNCHANGED vars
             PROVE  ServerInv'
  OBVIOUS
<1>1. UNCHANGED <<strand, is_running, acceptor, client_connections, socketVars, ioVars, peerVars,
                  events, calls>>
  BY DEF vars
<1>2. TypeOK'
  BY <1>1 DEF ServerInv, TypeOK, socketVars, ioVars, peerVars, events
<1>3. \A t \in Sockets : SameSocket(t)
  BY <1>1, SameAll DEF ioVars, events
<1>4. StopsInv' /\ accepting' = accepting
  BY <1>1, StopsNone DEF ServerInv, events, ioVars
<1> QED
  BY <1>1, <1>2, <1>3, <1>4, QuietInv

\* Every step keeps the invariant.
LEMMA NextInv == ServerInv /\ [Next]_vars => ServerInv'
<1> SUFFICES ASSUME ServerInv, [Next]_vars
             PROVE  ServerInv'
  OBVIOUS
<1>1. CASE RunStrand
  <2>1. CASE Listen \/ OnListening \/ Rearm \/ Stop \/ StopClient
    BY <2>1, ListenInv, OnListeningInv, RearmInv, StopInv, StopClientInv
  <2>2. CASE DoAccept(Null)
    BY <2>2, DoAcceptInv DEF Args
  <2>3. ASSUME NEW s \in Sockets,
               \/ DoAccept(s) \/ OnAccepted(s) \/ OnConnected(s)
               \/ StartSocket(s) \/ Read(s) \/ ReadOk(s)
               \/ ReadEnds(s, "readClosed") \/ ReadEnds(s, "readError")
               \/ WriteDone(s) \/ OnSocketDisconnected(s) \/ Release(s) \/ Close(s)
        PROVE  ServerInv'
    <3>1. CASE DoAccept(s)
      BY <3>1, DoAcceptInv DEF Args
    <3>2. CASE OnAccepted(s) \/ OnConnected(s)
      BY <3>2, OnAcceptedInv, OnConnectedInv
    <3>3. CASE StartSocket(s) \/ Read(s) \/ ReadOk(s)
      BY <3>3, StartSocketInv, ReadInv, ReadOkInv
    <3>4. CASE ReadEnds(s, "readClosed") \/ ReadEnds(s, "readError")
      BY <3>4, ReadEndsInv
    <3>5. CASE WriteDone(s) \/ OnSocketDisconnected(s)
      BY <3>5, WriteDoneInv, DisconnectedInv
    <3>6. CASE Release(s) \/ Close(s)
      BY <3>6, ReleaseInv, CloseInv
    <3> QED
      BY <2>3, <3>1, <3>2, <3>3, <3>4, <3>5, <3>6
  <2> QED
    BY <1>1, <2>1, <2>2, <2>3 DEF RunStrand
<1>2. CASE Complete
  BY <1>2, AcceptAbortedInv, AcceptCompleteInv, ReadCompleteInv, WriteCompleteInv DEF Complete
<1>3. CASE Clients
  BY <1>3, ClientInv DEF Clients
<1>4. CASE Start \/ CallStop \/ CallStopClient
  BY <1>4, StartInv, CallStopInv, CallStopClientInv
<1>5. CASE UNCHANGED vars
  BY <1>5, StutterInv
<1> QED
  BY <1>1, <1>2, <1>3, <1>4, <1>5 DEF Next

\* The invariant holds: of every socket, one read loop with its events in
\* order and its slot, and of the server one accept loop.
THEOREM Invariance == Spec => []ServerInv
BY InitInv, NextInv, PTL DEF Spec

-----------------------------------------------------------------------------
(* What follows from the invariant. *)

\* Every variable keeps its type, for any number of sockets, slots and calls.
THEOREM TypeCorrectness == Spec => []TypeOK
<1>1. ServerInv => TypeOK
  BY DEF ServerInv
<1> QED
  BY <1>1, Invariance, PTL

\* A set without two elements has at most one.
LEMMA AtMostOne ==
    ASSUME NEW S, \A x, y \in S : x = y
    PROVE  Cardinality(S) \in {0, 1} /\ (S = {} => Cardinality(S) = 0)
<1>1. CASE S = {}
  BY <1>1, FS_EmptySet
<1>2. CASE S # {}
  <2>1. PICK x \in S : TRUE
    BY <1>2
  <2>2. S = {x}
    BY <2>1
  <2> QED
    BY <1>2, <2>2, FS_Singleton
<1> QED
  BY <1>1, <1>2

\* There is at most one accept loop at a time, through aborted, failed and
\* refused accepts, Stop and OnAccepted, for a server that is started again only
\* when everything of its last run has ended.
THEOREM AcceptSafety == Spec => []OneAcceptLoop
<1>1. ASSUME ServerInv
      PROVE  OneAcceptLoop
  <2> DEFINE S == Pending({"listen", "acceptDone", "OnAccepted", "rearm"})
  <2>1. AcceptInv /\ strand \in Seq(Entry)
    BY <1>1 DEF ServerInv, TypeOK
  <2>2. S = Pending(AcceptOps)
    BY DEF AcceptOps
  <2>3. \A i \in S : i \in DOMAIN strand /\ Among(strand[i], AcceptOps, Args)
    <3> TAKE i \in S
    <3>1. i \in DOMAIN strand /\ strand[i].op \in AcceptOps
      BY <2>2 DEF Pending
    <3>2. strand[i] \in Entry
      BY <2>1, <3>1
    <3> QED
      BY <3>1, <3>2 DEF Entry, Among, Args
  <2> HIDE DEF S
  <2>4. \A i, j \in S : i = j
    BY <2>1, <2>3 DEF AcceptInv, One
  <2>5. accepting => S = {}
    BY <2>1, <2>3 DEF AcceptInv, Has
  <2>6. Cardinality(S) \in {0, 1} /\ (S = {} => Cardinality(S) = 0)
    BY <2>4, AtMostOne
  <2> QED
    BY <2>5, <2>6 DEF OneAcceptLoop, AcceptLoop, S
<1> QED
  BY <1>1, Invariance, PTL

\* A socket has at most one read loop, whichever of the read, the subscriber's
\* write, Stop and StopClient ends first.
THEOREM LoopSafety == Spec => []OneReadLoop
<1>1. ASSUME ServerInv
      PROVE  OneReadLoop
  <2> SUFFICES ASSUME NEW s \in Sockets
               PROVE  Cardinality({i \in Pending({"start", "read", "readOk", "readClosed",
                                                  "readError"}) : strand[i].arg = s})
                        + (IF s \in reading THEN 1 ELSE 0)
                        + (IF writing[s] # Null THEN 1 ELSE 0) <= 1
    BY DEF OneReadLoop
  <2> DEFINE S == {i \in Pending({"start", "read", "readOk", "readClosed", "readError"}) :
                      strand[i].arg = s}
  <2>1. LoopInv(s)
    BY <1>1 DEF ServerInv, SocketInv
  <2>2. \A i \in S : i \in DOMAIN strand /\ Among(strand[i], LoopOps, {s})
    BY DEF Pending, Among, LoopOps
  <2> HIDE DEF S
  <2>3. \A i, j \in S : i = j
    BY <2>1, <2>2 DEF LoopInv, One
  <2>4. s \in reading \/ writing[s] # Null => S = {}
    BY <2>1, <2>2 DEF LoopInv, Has
  <2>5. Cardinality(S) \in {0, 1} /\ (S = {} => Cardinality(S) = 0)
    BY <2>3, AtMostOne
  <2>6. ~(s \in reading /\ writing[s] # Null)
    BY <2>1 DEF LoopInv
  <2>7. Cardinality(S) + (IF s \in reading THEN 1 ELSE 0)
           + (IF writing[s] # Null THEN 1 ELSE 0) <= 1
    BY <2>4, <2>5, <2>6
  <2> QED
    BY <2>7 DEF S
<1> QED
  BY <1>1, Invariance, PTL

\* Slots and ids agree, so a Write to an id that on_data_ gave reaches the client
\* the id was given to: a slot is released once, before it is given again.
THEOREM SlotSafety == Spec => []SlotsAgree
<1>1. ASSUME ServerInv
      PROVE  SlotsAgree
  <2> SUFFICES ASSUME NEW i \in Slots, client_connections[i] # Null
               PROVE  /\ id[client_connections[i]] = i
                      /\ disconnects[client_connections[i]] = 0
    BY DEF SlotsAgree
  <2>1. PICK s \in Sockets : s = client_connections[i]
    BY <1>1 DEF ServerInv, TypeOK
  <2>2. SlotInv(s)
    BY <1>1 DEF ServerInv, SocketInv
  <2>3. id[s] = i
    BY <2>1, <2>2 DEF SlotInv
  <2>4. InSlot(s)
    BY <2>1, <2>3 DEF InSlot
  <2> QED
    BY <2>1, <2>2, <2>3, <2>4 DEF SlotInv
<1> QED
  BY <1>1, Invariance, PTL

\* on_data_ is raised for data that was sent, and at most once for the buffer that
\* a read which finds its socket closed makes up.
THEOREM DataSafety == Spec => []OneMadeUpBuffer
<1>1. ASSUME ServerInv
      PROVE  OneMadeUpBuffer
  <2> SUFFICES ASSUME NEW s \in Sockets
               PROVE  delivered[s] <= sent[s] + (IF open[s] THEN 0 ELSE 1)
    BY DEF OneMadeUpBuffer
  <2>1. delivered[s] \in Nat /\ sent[s] \in Nat
    BY <1>1 DEF ServerInv, TypeOK
  <2>2. Received(s) \in Nat /\ delivered[s] <= Received(s)
    BY <2>1 DEF Received, Flag
  <2>3. Received(s) <= sent[s] \/ (~open[s] /\ Received(s) <= sent[s] + 1)
    BY <1>1 DEF ServerInv, SocketInv, DataInv
  <2> QED
    BY <2>1, <2>2, <2>3
<1> QED
  BY <1>1, Invariance, PTL

\* on_stopped_ comes once, after the last connection is gone, and nothing that
\* raises an event of a client is left in the strand.
THEOREM StoppedSafety == Spec => []StoppedIsLast
<1>1. ASSUME ServerInv
      PROVE  StoppedIsLast
  <2>1. StopsInv /\ strand \in Seq(Entry) /\ ~Has(strand, EventOps, {Null})
    BY <1>1 DEF ServerInv, TypeOK, ArgsInv
  <2>2. ASSUME stops = 1, NEW i \in DOMAIN strand, strand[i].op \in EventOps
        PROVE  FALSE
    <3>1. strand[i] \in Entry
      BY <2>1
    <3>2. PICK s \in Sockets : s = strand[i].arg
      BY <2>1, <2>2, <3>1 DEF Entry, Has, Among
    <3>3. SocketInv(s)
      BY <1>1 DEF ServerInv
    <3>4. strand[i].op \in EndOps \/ strand[i].op = "onConnected" \/ strand[i].op \in GoingOps
      BY <2>2, Members
    <3>5. InSlot(s)
      <4>1. CASE strand[i].op \in EndOps
        <5>1. Has(strand, EndOps, {s})
          BY <3>2, <4>1 DEF Has, Among
        <5> QED
          BY <3>3, <5>1 DEF SocketInv, EndInv
      <4>2. CASE strand[i].op = "onConnected"
        <5>1. Has(strand, {"onConnected"}, {s})
          BY <3>2, <4>2 DEF Has, Among
        <5> QED
          BY <3>3, <5>1 DEF SocketInv, ToldInv
      <4>3. CASE strand[i].op \in GoingOps
        <5>1. Has(strand, GoingOps, {s})
          BY <3>2, <4>3 DEF Has, Among
        <5> QED
          BY <3>3, <5>1 DEF SocketInv, LiveInv, Going, Live
      <4> QED
        BY <3>4, <4>1, <4>2, <4>3
    <3> QED
      BY <2>1, <2>2, <3>5, ServerAssumption DEF StopsInv, InSlot
  <2>3. stops = 1 => Pending({"onConnected", "read", "readOk", "release", "disconnected"}) = {}
    BY <2>2 DEF Pending, EventOps
  <2> QED
    BY <1>1, <2>1, <2>3 DEF StoppedIsLast, StopsInv, ServerInv, TypeOK
<1> QED
  BY <1>1, Invariance, PTL

\* A closure of the read loop raises on_data_ of a client that is connected and
\* in its slot.
LEMMA RaiseInSlot ==
    ASSUME ServerInv, NEW s \in Sockets, NEW op \in GoingOps, Runs(op, s)
    PROVE  told[s] = "connected" /\ client_connections[id[s]] = s
<1>1. TypeOK /\ SocketInv(s) /\ strand \in Seq(Entry)
  BY DEF ServerInv, TypeOK
<1>2. strand # <<>> /\ Head(strand) = E(op, s)
  BY DEF Runs
<1>3. Among(Head(strand), GoingOps, {s}) /\ Among(Head(strand), LoopOps, {s})
  BY <1>2, Members DEF Among, E
<1>4. Has(strand, GoingOps, {s}) /\ ~Has(strand, {"onConnected"}, {s})
  BY <1>1, <1>2, <1>3, HeadTail DEF SocketInv, ToldInv
<1>5. InSlot(s)
  BY <1>1, <1>4 DEF SocketInv, LiveInv, Going, Live
<1>6. told[s] \in {"nothing", "connected", "disconnected"}
  BY <1>1 DEF TypeOK
<1> QED
  BY <1>1, <1>4, <1>5, <1>6 DEF SocketInv, ToldInv, SlotInv, InSlot

\* What a step may do to the events of a socket.
LEMMA StepEvents ==
    ASSUME ServerInv, [Next]_vars, NEW s \in Sockets
    PROVE  /\ told'[s] # told[s] =>
                 \/ told[s] = "nothing" /\ told'[s] = "connected"
                 \/ told[s] = "connected" /\ told'[s] = "disconnected"
           /\ delivered'[s] # delivered[s] =>
                 told[s] = "connected" /\ client_connections[id[s]] = s
<1> DEFINE Goal == /\ told'[s] # told[s] =>
                         \/ told[s] = "nothing" /\ told'[s] = "connected"
                         \/ told[s] = "connected" /\ told'[s] = "disconnected"
                   /\ delivered'[s] # delivered[s] =>
                         told[s] = "connected" /\ client_connections[id[s]] = s
<1>1. TypeOK
  BY DEF ServerInv
<1>2. UNCHANGED <<told, delivered>> => Goal
  OBVIOUS
<1>3. CASE RunStrand
  <2>1. CASE Listen \/ OnListening \/ Rearm \/ StopClient \/ DoAccept(Null)
    BY <1>2, <2>1 DEF Listen, OnListening, Rearm, StopClient, DoAccept, events
  <2>2. CASE Stop
    BY <1>2, <2>2 DEF Stop
  <2>3. ASSUME NEW t \in Sockets,
               \/ DoAccept(t) \/ OnAccepted(t) \/ OnConnected(t)
               \/ StartSocket(t) \/ Read(t) \/ ReadOk(t)
               \/ ReadEnds(t, "readClosed") \/ ReadEnds(t, "readError")
               \/ WriteDone(t) \/ OnSocketDisconnected(t) \/ Release(t) \/ Close(t)
        PROVE  Goal
    <3>1. CASE DoAccept(t) \/ OnAccepted(t) \/ StartSocket(t) \/ WriteDone(t)
      BY <1>2, <3>1 DEF DoAccept, OnAccepted, StartSocket, WriteDone, events
    <3>2. CASE ReadEnds(t, "readClosed") \/ ReadEnds(t, "readError")
      BY <1>2, <3>2 DEF ReadEnds, events
    <3>3. CASE OnSocketDisconnected(t) \/ Close(t)
      BY <1>2, <3>3 DEF OnSocketDisconnected, Close, events
    <3>4. CASE OnConnected(t)
      <4>1. told[t] = "nothing"
        BY <1>1, <3>4, ConnectedOwn DEF ServerInv
      <4>2. told' = [told EXCEPT ![t] = "connected"] /\ delivered' = delivered
        BY <3>4 DEF OnConnected
      <4> QED
        BY <1>1, <4>1, <4>2 DEF TypeOK
    <3>5. CASE Release(t)
      <4>1. /\ told' = [told EXCEPT ![t] = "disconnected"] /\ delivered' = delivered
            /\ Step("release", t, <<>>)
        BY <3>5 DEF Release
      <4>2. Has(strand, EndOps, {t})
        <5>1. "release" \in EndOps
          BY Members
        <5> QED
          BY <1>1, <4>1, <5>1, PopOwn DEF ServerInv
      <4>3. told[t] = "connected"
        BY <4>2 DEF ServerInv, SocketInv, EndInv
      <4> QED
        BY <1>1, <4>1, <4>3 DEF TypeOK
    <3>6. CASE Read(t) \/ ReadOk(t)
      <4>1. \E op \in GoingOps : Runs(op, t)
        BY <3>6, Members DEF Read, ReadOk
      <4>2. told[t] = "connected" /\ client_connections[id[t]] = t
        BY <4>1, RaiseInSlot
      <4>3. /\ told' = told
            /\ delivered' = delivered \/ delivered' = [delivered EXCEPT ![t] = @ + 1]
        BY <3>6 DEF Read, ReadOk, RaiseOnData
      <4> QED
        BY <1>1, <4>2, <4>3 DEF TypeOK
    <3> QED
      BY <2>3, <3>1, <3>2, <3>3, <3>4, <3>5, <3>6
  <2> QED
    BY <1>3, <2>1, <2>2, <2>3 DEF RunStrand
<1>4. CASE Complete
  BY <1>2, <1>4 DEF Complete, AcceptAborted, AcceptComplete, ReadComplete, WriteComplete, events
<1>5. CASE Clients
  BY <1>2, <1>5 DEF Clients, Connect, Send, Leave, events
<1>6. CASE Start \/ CallStop \/ CallStopClient
  BY <1>2, <1>6 DEF Start, CallStop, CallStopClient, events
<1>7. CASE UNCHANGED vars
  BY <1>2, <1>7 DEF vars, events
<1> QED
  BY <1>3, <1>4, <1>5, <1>6, <1>7 DEF Next

\* on_connected_, on_data_ and on_disconnected_ of a client come in this order,
\* the last once, and data only while the client is in its slot.
THEOREM EventSafety == Spec => EventOrder
<1>1. ASSUME ServerInv, ServerInv', [Next]_vars
      PROVE  [\A s \in Sockets :
                 /\ told'[s] # told[s] =>
                       <<told[s], told'[s]>> \in {<<"nothing", "connected">>,
                                                  <<"connected", "disconnected">>}
                 /\ disconnects'[s] <= 1
                 /\ delivered'[s] # delivered[s] =>
                       told[s] = "connected" /\ client_connections[id[s]] = s]_vars
  <2> SUFFICES ASSUME NEW s \in Sockets
               PROVE  /\ told'[s] # told[s] =>
                            <<told[s], told'[s]>> \in {<<"nothing", "connected">>,
                                                       <<"connected", "disconnected">>}
                      /\ disconnects'[s] <= 1
                      /\ delivered'[s] # delivered[s] =>
                            told[s] = "connected" /\ client_connections[id[s]] = s
    OBVIOUS
  <2>1. disconnects'[s] <= 1
    BY <1>1 DEF ServerInv, SocketInv, SlotInv
  <2> QED
    BY <1>1, <2>1, StepEvents
<1> QED
  BY <1>1, Invariance, PTL DEF Spec, EventOrder

-----------------------------------------------------------------------------
(* The server implements ServerLife. *)

QuietOps == {"listen", "stop", "stopClient", "close"}
ActiveOps == Closures \ QuietOps

\* There is no Acceptor that accepts: not yet, or Start's closure threw.
Halted == (is_running /\ acceptor # "open") \/ acceptor \in {"null", "crashed"}

\* Then nothing happens but calls.
Rest ==
    /\ ~accepting /\ reading = {} /\ \A s \in Sockets : writing[s] = Null
    /\ ~Has(strand, ActiveOps, Args)

\* Start's closure is the first of the strand, and the server is running.
ListenInvariant ==
    \A i \in DOMAIN strand :
        strand[i].op = "listen" => i = 1 /\ is_running /\ acceptor \in {"null", "closed"}

\* The life of the server.
LifeInv ==
    /\ acceptor = "open" => is_running
    /\ ListenInvariant
    /\ Halted => Rest

\* The operations of the server itself.
LEMMA LifeMembers ==
    /\ \A x \in Closures : x \in ActiveOps <=> x \notin QuietOps
    /\ \A x : x \in QuietOps <=> x = "listen" \/ x = "stop" \/ x = "stopClient" \/ x = "close"
    /\ "listen" \in Closures /\ "stop" \in Closures /\ "stopClient" \in Closures
    /\ "close" \in Closures
BY DEF ActiveOps, QuietOps, Closures

\* Start's closure is not in the strand.
LEMMA NoListen ==
    ASSUME NEW q \in Seq(Entry), ~Has(q, {"listen"}, Args)
    PROVE  \A i \in DOMAIN q : q[i].op # "listen"
<1> SUFFICES ASSUME NEW i \in DOMAIN q, q[i].op = "listen"
             PROVE  FALSE
  OBVIOUS
<1>1. q[i] \in Entry
  OBVIOUS
<1> QED
  BY <1>1 DEF Entry, Has, Among, Args

\* A server that is not halted goes on: no closure of Start is waiting.
LEMMA ActiveLife ==
    ASSUME TypeOK, LifeInv, ~Halted, strand' \in Seq(Entry),
           Has(strand', {"listen"}, Args) => Has(strand, {"listen"}, Args),
           UNCHANGED <<acceptor, is_running>>
    PROVE  LifeInv'
<1>1. ~Has(strand, {"listen"}, Args)
  <2> SUFFICES ASSUME NEW i \in DOMAIN strand, Among(strand[i], {"listen"}, Args)
               PROVE  FALSE
    BY DEF Has
  <2> QED
    BY DEF LifeInv, ListenInvariant, Among, Halted
<1>2. ListenInvariant'
  BY <1>1, NoListen DEF ListenInvariant
<1>3. ~Halted'
  BY DEF Halted
<1> QED
  BY <1>2, <1>3 DEF LifeInv

\* The strand runs a closure of an active server.
LEMMA ActiveStep ==
    ASSUME TypeOK, LifeInv, NEW op \in ActiveOps, NEW a \in Args, NEW p \in Seq(Entry),
           Step(op, a, p), ~Has(p, {"listen"}, Args), UNCHANGED <<acceptor, is_running>>
    PROVE  ~Halted /\ LifeInv'
<1>1. strand \in Seq(Entry)
  BY DEF TypeOK
<1>2. Has(strand, ActiveOps, Args)
  BY <1>1, StepFlow
<1>3. ~Halted
  BY <1>2 DEF LifeInv, Rest
<1>4. strand' \in Seq(Entry) /\ (Has(strand', {"listen"}, Args) => Has(strand, {"listen"}, Args))
  BY <1>1, StepFlow
<1> QED
  BY <1>3, <1>4, ActiveLife

\* The strand runs a closure of Stop, StopClient or TcpSocket::Stop: Start's
\* closure is not behind it.
LEMMA QuietStep ==
    ASSUME TypeOK, LifeInv, NEW op \in {"stop", "stopClient", "close"}, NEW a \in Args,
           NEW p, Closing(p), Step(op, a, p), UNCHANGED <<accepting, reading, writing>>
    PROVE  /\ ~Has(strand, {"listen"}, Args) /\ ListenInvariant'
           /\ Rest => Rest'
<1>1. strand \in Seq(Entry) /\ p \in Seq(Entry)
  BY DEF TypeOK, Closing
<1>2. strand # <<>> /\ Head(strand) = E(op, a)
  BY DEF Step, Runs
<1>3. strand[1].op = op /\ op # "listen"
  BY <1>1, <1>2 DEF E
<1>4. ~Has(strand, {"listen"}, Args)
  <2> SUFFICES ASSUME NEW i \in DOMAIN strand, Among(strand[i], {"listen"}, Args)
               PROVE  FALSE
    BY DEF Has
  <2>1. i = 1
    BY DEF LifeInv, ListenInvariant, Among
  <2> QED
    BY <1>3, <2>1 DEF Among
<1>5. "close" \notin ActiveOps /\ "close" \notin {"listen"}
  BY LifeMembers
<1>6. ~Has(p, ActiveOps, Args) /\ ~Has(p, {"listen"}, Args)
  BY <1>5 DEF Closing
<1>7. /\ strand' \in Seq(Entry)
      /\ Has(strand', {"listen"}, Args) => Has(strand, {"listen"}, Args)
      /\ Has(strand', ActiveOps, Args) => Has(strand, ActiveOps, Args)
  BY <1>1, <1>6, StepFlow
<1>8. ListenInvariant'
  BY <1>4, <1>7, NoListen DEF ListenInvariant
<1> QED
  BY <1>4, <1>7, <1>8 DEF Rest

\* A completion of an active server posts its rest.
LEMMA ActivePost ==
    ASSUME TypeOK, LifeInv, accepting \/ reading # {} \/ \E s \in Sockets : writing[s] # Null,
           NEW op \in Closures, NEW a \in Args, Post(op, a), op # "listen",
           UNCHANGED <<acceptor, is_running>>
    PROVE  ~Halted /\ LifeInv'
<1>1. strand \in Seq(Entry)
  BY DEF TypeOK
<1>2. ~Halted
  BY DEF LifeInv, Rest
<1>3. strand' \in Seq(Entry) /\ (Has(strand', {"listen"}, Args) => Has(strand, {"listen"}, Args))
  BY <1>1, PostFlow
<1> QED
  BY <1>2, <1>3, ActiveLife

\* Stop and StopClient are called.
LEMMA CallLife ==
    ASSUME TypeOK, LifeInv, NEW op \in {"stop", "stopClient"}, Post(op, Null),
           UNCHANGED <<acceptor, is_running, accepting, reading, writing>>
    PROVE  LifeInv'
<1>1. strand \in Seq(Entry) /\ op \in Closures /\ Null \in Args /\ op \notin ActiveOps
  BY LifeMembers DEF TypeOK, Args
<1>2. strand' \in Seq(Entry) /\ (Has(strand', ActiveOps, Args) => Has(strand, ActiveOps, Args))
  BY <1>1, PostFlow
<1>3. ASSUME NEW i \in DOMAIN strand', strand'[i].op = "listen"
      PROVE  i \in DOMAIN strand /\ strand[i].op = "listen"
  <2>1. PICK n \in Nat : n = Len(strand)
    BY <1>1
  <2>2. /\ DOMAIN strand' = 1 .. n + 1 /\ DOMAIN strand = 1 .. n
        /\ strand'[n + 1] = E(op, Null) /\ \A k \in 1 .. n : strand'[k] = strand[k]
    BY <1>1, <2>1 DEF Post
  <2>3. i # n + 1
    BY <1>3, <2>2 DEF E
  <2> QED
    BY <1>3, <2>2, <2>3
<1>4. ListenInvariant'
  BY <1>3 DEF LifeInv, ListenInvariant
<1> QED
  BY <1>2, <1>4 DEF LifeInv, Halted, Rest

\* There is an accept loop.
Loop == accepting \/ Has(strand, AcceptOps, Args)

\* Phase, with that.
Stage ==
    CASE acceptor = "crashed" -> "crashed"
      [] acceptor = "open" -> IF Loop THEN "serving" ELSE "deaf"
      [] acceptor \in {"null", "closed"} /\ is_running -> IF Loop THEN "starting" ELSE "broken"
      [] OTHER -> IF acceptor = "null" THEN "new" ELSE "stopped"

\* An accept loop is counted if there is one.
LEMMA LoopCount ==
    ASSUME NEW q \in Seq(Entry), One(q, AcceptOps, Args), NEW b \in BOOLEAN
    PROVE  Cardinality({i \in DOMAIN q :
                           q[i].op \in {"listen", "acceptDone", "OnAccepted", "rearm"}})
              + (IF b THEN 1 ELSE 0) > 0
           <=> b \/ Has(q, AcceptOps, Args)
<1> DEFINE S == {i \in DOMAIN q : q[i].op \in {"listen", "acceptDone", "OnAccepted", "rearm"}}
<1>1. \A i : i \in S <=> i \in DOMAIN q /\ Among(q[i], AcceptOps, Args)
  <2>1. \A i \in DOMAIN q : q[i] \in Entry
    OBVIOUS
  <2> QED
    BY <2>1 DEF Entry, Among, Args, AcceptOps
<1> HIDE DEF S
<1>2. \A i, j \in S : i = j
  BY <1>1 DEF One
<1>3. S # {} <=> Has(q, AcceptOps, Args)
  BY <1>1 DEF Has
<1>4. CASE S = {}
  <2>1. Cardinality(S) = 0
    BY <1>2, <1>4, AtMostOne
  <2> QED
    BY <1>3, <1>4, <2>1 DEF S
<1>5. CASE S # {}
  <2>1. PICK x \in S : TRUE
    BY <1>5
  <2>2. S = {x}
    BY <1>2, <2>1
  <2>3. Cardinality(S) = 1
    BY <2>2, FS_Singleton
  <2> QED
    BY <1>3, <1>5, <2>3 DEF S
<1> QED
  BY <1>4, <1>5

\* The phase before and after a step.
LEMMA PhaseNow ==
    ASSUME ServerInv, ServerInv'
    PROVE  Phase = Stage /\ Phase' = Stage'
<1>1. strand \in Seq(Entry) /\ One(strand, AcceptOps, Args) /\ accepting \in BOOLEAN
  BY DEF ServerInv, TypeOK, AcceptInv
<1>2. strand' \in Seq(Entry) /\ One(strand', AcceptOps, Args) /\ accepting' \in BOOLEAN
  BY DEF ServerInv, TypeOK, AcceptInv
<1>3. AcceptLoop > 0 <=> Loop
  BY <1>1, LoopCount DEF AcceptLoop, Pending, Loop
<1>4. (AcceptLoop > 0)' <=> Loop'
  BY <1>2, LoopCount DEF AcceptLoop, Pending, Loop
<1>5. Phase = Stage
  BY <1>3 DEF Phase, Stage
<1>6. Phase' = Stage'
  BY <1>4 DEF Phase, Stage
<1> QED
  BY <1>5, <1>6

\* The closures of Stop in a queue.
StopsOf(q) == {i \in DOMAIN q : q[i].op \in {"stop"}}

\* They are finitely many, and an entry that is posted may be another.
LEMMA StopsPost ==
    ASSUME NEW q \in Seq(Entry), NEW op \in Closures, NEW a \in Args
    PROVE  /\ Cardinality(StopsOf(q)) \in Nat
           /\ Cardinality(StopsOf(q)) > 0 => q # <<>>
           /\ Cardinality(StopsOf(Append(q, E(op, a)))) =
                 Cardinality(StopsOf(q)) + (IF op = "stop" THEN 1 ELSE 0)
<1>1. PICK n \in Nat : n = Len(q)
  OBVIOUS
<1>2. IsFiniteSet(DOMAIN q) /\ StopsOf(q) \subseteq DOMAIN q
  BY <1>1, FS_Interval DEF StopsOf
<1>3. IsFiniteSet(StopsOf(q)) /\ Cardinality(StopsOf(q)) \in Nat
  BY <1>2, FS_Subset, FS_CardinalityType
<1>4. q = <<>> => Cardinality(StopsOf(q)) = 0
  <2>1. q = <<>> => StopsOf(q) = {}
    BY DEF StopsOf
  <2> QED
    BY <2>1, FS_EmptySet
<1>5. /\ DOMAIN Append(q, E(op, a)) = 1 .. n + 1 /\ DOMAIN q = 1 .. n
      /\ \A k \in 1 .. n : Append(q, E(op, a))[k] = q[k]
      /\ Append(q, E(op, a))[n + 1] = E(op, a)
  <2>1. E(op, a) \in Entry
    BY DEF E, Entry, Args
  <2> QED
    BY <1>1, <2>1
<1>6. E(op, a).op = op
  BY DEF E
<1>7. CASE op = "stop"
  <2>1. StopsOf(Append(q, E(op, a))) = StopsOf(q) \cup {n + 1} /\ n + 1 \notin StopsOf(q)
    BY <1>5, <1>6, <1>7 DEF StopsOf
  <2> QED
    BY <1>3, <1>4, <1>7, <2>1, FS_AddElement
<1>8. CASE op # "stop"
  <2>1. StopsOf(Append(q, E(op, a))) = StopsOf(q)
    BY <1>5, <1>6, <1>8 DEF StopsOf
  <2> QED
    BY <1>3, <1>4, <1>8, <2>1
<1> QED
  BY <1>7, <1>8

\* Running one takes it away; other closures post none.
LEMMA StopsTail ==
    ASSUME NEW q \in Seq(Entry), q # <<>>, NEW p \in Seq(Entry), ~Has(p, {"stop"}, Args)
    PROVE  /\ Cardinality(StopsOf(Tail(q) \o p)) \in Nat
           /\ Cardinality(StopsOf(q)) =
                 Cardinality(StopsOf(Tail(q) \o p)) + (IF Head(q).op = "stop" THEN 1 ELSE 0)
<1> DEFINE r == Tail(q) \o p
           T == StopsOf(q) \ {1}
           f == [i \in StopsOf(r) |-> i + 1]
<1>1. PICK m \in Nat, n \in Nat : m = Len(q) - 1 /\ n = Len(p)
  OBVIOUS
<1>2. /\ DOMAIN q = 1 .. m + 1 /\ DOMAIN p = 1 .. n
      /\ q[1] = Head(q)
  BY <1>1
<1>3. /\ Tail(q) \in Seq(Entry) /\ Len(Tail(q)) = m
      /\ \A k \in 1 .. m : Tail(q)[k] = q[k + 1]
  BY <1>1
<1>4. /\ r \in Seq(Entry) /\ DOMAIN r = 1 .. m + n
      /\ \A k \in 1 .. m : r[k] = q[k + 1]
      /\ \A k \in m + 1 .. m + n : r[k] = p[k - m]
  BY <1>1, <1>3
<1>5. \A k \in 1 .. n : p[k].op # "stop"
  <2> SUFFICES ASSUME NEW k \in 1 .. n, p[k].op = "stop"
               PROVE  FALSE
    OBVIOUS
  <2>1. k \in DOMAIN p /\ p[k] \in Entry
    BY <1>1, <1>2
  <2> QED
    BY <2>1 DEF Has, Among, Entry, Args
<1>6. \A k \in m + 1 .. m + n : k - m \in 1 .. n
  BY <1>1
<1> HIDE DEF r
<1>7. \A k : k \in StopsOf(r) <=> k \in 1 .. m /\ q[k + 1].op = "stop"
  <2>1. ASSUME NEW k \in StopsOf(r)
        PROVE  k \in 1 .. m
    <3>1. k \in 1 .. m + n /\ r[k].op = "stop"
      BY <1>4, <2>1 DEF StopsOf
    <3>2. CASE k \in m + 1 .. m + n
      BY <1>4, <1>5, <1>6, <3>1, <3>2
    <3> QED
      BY <3>1, <3>2
  <2> QED
    BY <1>4, <2>1 DEF StopsOf
<1>8. \A k : k \in T <=> k \in 2 .. m + 1 /\ q[k].op = "stop"
  BY <1>2 DEF StopsOf
<1>9. IsFiniteSet(StopsOf(r)) /\ IsFiniteSet(StopsOf(q))
  <2>1. StopsOf(r) \subseteq 1 .. m + n /\ StopsOf(q) \subseteq 1 .. m + 1
    BY <1>2, <1>4 DEF StopsOf
  <2>2. IsFiniteSet(1 .. m + n) /\ IsFiniteSet(1 .. m + 1)
    BY FS_Interval
  <2> QED
    BY <2>1, <2>2, FS_Subset
<1>10. f \in Bijection(StopsOf(r), T)
  <2>1. f \in [StopsOf(r) -> T]
    BY <1>7, <1>8
  <2>2. \A x, y \in StopsOf(r) : f[x] = f[y] => x = y
    BY <1>7
  <2>3. ASSUME NEW t \in T
        PROVE  \E x \in StopsOf(r) : f[x] = t
    <3>1. t \in 2 .. m + 1 /\ q[t].op = "stop"
      BY <1>8, <2>3
    <3>2. t - 1 \in 1 .. m /\ (t - 1) + 1 = t
      BY <3>1
    <3>3. t - 1 \in StopsOf(r)
      BY <1>7, <3>1, <3>2
    <3>4. f[t - 1] = t
      BY <3>2, <3>3
    <3> QED
      BY <3>3, <3>4
  <2> HIDE DEF f, T
  <2>4. f \in Injection(StopsOf(r), T) /\ f \in Surjection(StopsOf(r), T)
    BY <2>1, <2>2, <2>3 DEF Injection, Surjection, IsInjective
  <2> QED
    BY <2>4 DEF Bijection
<1> HIDE DEF f
<1>11. Cardinality(StopsOf(r)) = Cardinality(T)
  <2>1. ExistsBijection(StopsOf(r), T)
    BY <1>10 DEF ExistsBijection
  <2>2. IsFiniteSet(T)
    BY <1>9, FS_Difference
  <2> QED
    BY <1>9, <2>1, <2>2, FS_Bijection
<1>12. Cardinality(StopsOf(r)) \in Nat /\ Cardinality(StopsOf(q)) \in Nat
  BY <1>9, FS_CardinalityType
<1>13. CASE Head(q).op = "stop"
  <2>1. 1 \in StopsOf(q)
    BY <1>2, <1>13 DEF StopsOf
  <2>2. Cardinality(T) = Cardinality(StopsOf(q)) - 1
    BY <1>9, <2>1, FS_RemoveElement
  <2> QED
    BY <1>11, <1>12, <1>13, <2>2 DEF r
<1>14. CASE Head(q).op # "stop"
  <2>1. T = StopsOf(q)
    BY <1>2, <1>14 DEF StopsOf
  <2>2. Cardinality(StopsOf(q)) = Cardinality(StopsOf(r))
    BY <1>11, <2>1
  <2> QED
    BY <1>12, <1>14, <2>2 DEF r
<1> QED
  BY <1>13, <1>14

\* The stops of ServerLife, and its room.
StopCalls == Cardinality(Pending({"stop"}))
Room == FreeSlots # {}

\* How the calls of Stop change.
LEMMA CallsStep ==
    ASSUME ServerInv, NEW op, NEW a, NEW p \in Seq(Entry), Step(op, a, p), ~Has(p, {"stop"}, Args)
    PROVE  /\ StopCalls \in Nat /\ StopCalls' \in Nat
           /\ StopCalls = StopCalls' + (IF op = "stop" THEN 1 ELSE 0)
<1>1. strand \in Seq(Entry) /\ strand # <<>> /\ Head(strand).op = op /\ strand' = Tail(strand) \o p
  BY DEF ServerInv, TypeOK, Step, Runs, E
<1>2. StopCalls = Cardinality(StopsOf(strand)) /\ StopCalls' = Cardinality(StopsOf(strand'))
  BY DEF StopCalls, StopsOf, Pending
<1>3. /\ Cardinality(StopsOf(strand')) \in Nat
      /\ Cardinality(StopsOf(strand)) =
            Cardinality(StopsOf(strand')) + (IF op = "stop" THEN 1 ELSE 0)
  BY <1>1, StopsTail
<1> QED
  BY <1>2, <1>3

\* The same when a closure is posted.
LEMMA CallsPost ==
    ASSUME ServerInv, NEW op \in Closures, NEW a \in Args, Post(op, a)
    PROVE  StopCalls' = StopCalls + (IF op = "stop" THEN 1 ELSE 0) /\ StopCalls \in Nat
<1>1. strand \in Seq(Entry) /\ strand' = Append(strand, E(op, a))
  BY DEF ServerInv, TypeOK, Post
<1>2. StopCalls = Cardinality(StopsOf(strand)) /\ StopCalls' = Cardinality(StopsOf(strand'))
  BY DEF StopCalls, StopsOf, Pending
<1> QED
  BY <1>1, <1>2, StopsPost

\* A call of Stop, and an accept loop, keep the server busy.
LEMMA KeepsBusy ==
    ASSUME ServerInv, ServerInv'
    PROVE  /\ StopCalls \in Nat /\ StopCalls' \in Nat
           /\ StopCalls > 0 => Busy
           /\ StopCalls' > 0 => Busy'
           /\ Loop => Busy
           /\ Loop' => Busy'
<1>1. strand \in Seq(Entry) /\ strand' \in Seq(Entry)
  BY DEF ServerInv, TypeOK
<1>2. StopCalls = Cardinality(StopsOf(strand)) /\ StopCalls' = Cardinality(StopsOf(strand'))
  BY DEF StopCalls, StopsOf, Pending
<1>3. "stop" \in Closures /\ Null \in Args
  BY LifeMembers DEF Args
<1>4. /\ StopCalls \in Nat /\ StopCalls' \in Nat
      /\ StopCalls > 0 => strand # <<>>
      /\ StopCalls' > 0 => strand' # <<>>
  BY <1>1, <1>2, <1>3, StopsPost
<1>5. Has(strand, AcceptOps, Args) => strand # <<>>
  BY DEF Has
<1>6. Has(strand', AcceptOps, Args) => strand' # <<>>
  BY DEF Has
<1> QED
  BY <1>4, <1>5, <1>6 DEF Busy, Loop

\* A step within a phase: clients come or go, the last operation ends, or
\* ServerLife does not see it.
LEMMA Passes ==
    ASSUME ServerInv, ServerInv', Phase' = Phase, Phase # "crashed", StopCalls' = StopCalls,
           (acceptor \in {"open", "closed"})' <=> acceptor \in {"open", "closed"},
           Busy \/ (~Busy' /\ Room' = Room),
           Room' # Room => Room' /\ Phase \in {"serving", "deaf", "stopped"}
    PROVE  [Life!LifeNext]_(Life!lifeVars)
<1>1. Busy \in BOOLEAN /\ Busy' \in BOOLEAN /\ Room \in BOOLEAN /\ Room' \in BOOLEAN
  BY DEF Busy, Room
<1>2. CASE Busy' = Busy /\ Room' = Room
  BY <1>2 DEF Life!lifeVars, StopCalls, Room
<1>3. CASE Busy /\ Busy' /\ Room' # Room
  <2>1. Life!Serves
    BY <1>1, <1>3 DEF Life!Serves, StopCalls, Room
  <2> QED
    BY <2>1 DEF Life!LifeNext
<1>4. CASE Busy /\ ~Busy'
  <2>1. StopCalls = 0
    BY <1>4, KeepsBusy
  <2>2. Phase \notin {"starting", "serving"}
    <3>1. Phase' = Stage' /\ ~Loop'
      BY <1>4, PhaseNow, KeepsBusy
    <3> QED
      BY <3>1 DEF Stage
  <2>3. Busy' = FALSE /\ Room' \in {Room, TRUE}
    <3>1. CASE Room' = Room
      BY <1>1, <1>4, <3>1
    <3>2. CASE Room' # Room
      <4>1. Room' = TRUE
        BY <1>1, <3>2
      <4> QED
        BY <1>1, <1>4, <4>1
    <3> QED
      BY <3>1, <3>2
  <2>4. UNCHANGED <<Phase, acceptor \in {"open", "closed"}, StopCalls>>
    OBVIOUS
  <2>5. Phase \notin Life!Kept \cup {"crashed"}
    BY <2>2 DEF Life!Kept
  <2>6. Life!Settles
    BY <1>4, <2>1, <2>3, <2>4, <2>5 DEF Life!Settles, StopCalls, Room
  <2> QED
    BY <2>6 DEF Life!LifeNext
<1> QED
  BY <1>1, <1>2, <1>3, <1>4

\* What closures other than Start and Stop post.
Inner(p) == p \in Seq(Entry) /\ ~Has(p, AcceptOps, Args) /\ ~Has(p, {"stop"}, Args)

\* Such posts, one after the other.
LEMMA InnerPosts ==
    /\ Inner(<<>>)
    /\ \A op \in Closures, a \in Args : op \notin AcceptOps /\ op # "stop" => Inner(<<E(op, a)>>)
    /\ \A p, q : Inner(p) /\ Inner(q) => Inner(p \o q)
    /\ \A p : Closing(p) => Inner(p)
<1>1. Inner(<<>>)
  BY Posts DEF Inner
<1>2. \A op \in Closures, a \in Args : op \notin AcceptOps /\ op # "stop" => Inner(<<E(op, a)>>)
  BY Posts DEF Inner
<1>3. \A p, q : Inner(p) /\ Inner(q) => Inner(p \o q)
  BY Concat DEF Inner
<1>4. \A p : Closing(p) => Inner(p)
  BY ClosingPosts DEF Closing, Inner
<1> QED
  BY <1>1, <1>2, <1>3, <1>4

\* A closure that does not accept, start or stop.
LEMMA InnerStep ==
    ASSUME ServerInv, ServerInv', LifeInv, NEW op, NEW a \in Args, NEW p, Inner(p), Step(op, a, p),
           op \notin AcceptOps, op # "stop", UNCHANGED <<acceptor, is_running, accepting>>,
           Room' # Room => Room' /\ ~Halted
    PROVE  [Life!LifeNext]_(Life!lifeVars)
<1>1. strand \in Seq(Entry) /\ acceptor \in {"null", "open", "closed", "crashed"}
  BY DEF ServerInv, TypeOK
<1>2. StopCalls' = StopCalls
  BY CallsStep DEF Inner
<1>3. Has(strand', AcceptOps, Args) <=> Has(strand, AcceptOps, Args)
  BY <1>1, StepFlow DEF Inner
<1>4. Phase' = Phase /\ Phase = Stage
  BY <1>3, PhaseNow DEF Stage, Loop
<1>5. Busy /\ acceptor # "crashed"
  BY DEF Step, Runs, Busy
<1>6. Phase # "crashed" /\ (~Halted => Phase \in {"serving", "deaf", "stopped"})
  BY <1>1, <1>4, <1>5 DEF Stage, Halted
<1> QED
  BY <1>2, <1>4, <1>5, <1>6, Passes

\* A completion posts the rest of a closure.
LEMMA InnerPost ==
    ASSUME ServerInv, ServerInv', ~Halted, Busy, NEW op \in Closures, NEW a \in Args, Post(op, a),
           Loop' = Loop, op # "stop", UNCHANGED <<acceptor, is_running, client_connections>>
    PROVE  [Life!LifeNext]_(Life!lifeVars)
<1>1. acceptor \in {"null", "open", "closed", "crashed"} /\ acceptor # "crashed"
  BY DEF ServerInv, TypeOK, Halted
<1>2. StopCalls' = StopCalls
  BY CallsPost, KeepsBusy
<1>3. Phase' = Phase /\ Phase = Stage
  BY PhaseNow DEF Stage
<1>4. Phase # "crashed"
  BY <1>1, <1>3 DEF Stage
<1>5. Room' = Room
  BY DEF Room, FreeSlots
<1> QED
  BY <1>2, <1>3, <1>4, <1>5, Passes

\* A step keeps the invariant and is one of ServerLife, or none.
LivesOn == LifeInv' /\ [Life!LifeNext]_(Life!lifeVars)

\* No closure of Start is posted.
LEMMA InnerListen ==
    ASSUME NEW p, Inner(p)
    PROVE  p \in Seq(Entry) /\ ~Has(p, {"listen"}, Args)
<1>1. "listen" \in AcceptOps
  BY DEF AcceptOps
<1> QED
  BY <1>1 DEF Inner, Has, Among

\* A closure of an active server that does not accept.
LEMMA ActiveMoves ==
    ASSUME ServerInv, ServerInv', LifeInv, NEW op \in ActiveOps, NEW a \in Args, NEW p, Inner(p),
           Step(op, a, p), op \notin AcceptOps, UNCHANGED <<acceptor, is_running, accepting>>,
           Room' # Room => Room'
    PROVE  LivesOn
<1>1. TypeOK
  BY DEF ServerInv
<1>2. ~Halted /\ LifeInv'
  BY <1>1, InnerListen, ActiveStep
<1>3. op # "stop"
  BY LifeMembers
<1> QED
  BY <1>2, <1>3, InnerStep DEF LivesOn

\* A closure of StopClient or TcpSocket::Stop.
LEMMA QuietMoves ==
    ASSUME ServerInv, ServerInv', LifeInv, NEW op \in {"stopClient", "close"}, NEW a \in Args,
           NEW p, Closing(p), Step(op, a, p),
           UNCHANGED <<acceptor, is_running, accepting, reading, writing, client_connections>>
    PROVE  LivesOn
<1>1. TypeOK
  BY DEF ServerInv
<1>2. ListenInvariant' /\ (Rest => Rest')
  BY <1>1, QuietStep
<1>3. LifeInv'
  BY <1>2 DEF LifeInv, Halted
<1>4. Room' = Room
  BY DEF Room, FreeSlots
<1>5. op \notin AcceptOps /\ op # "stop"
  BY DEF AcceptOps
<1>6. Inner(p)
  BY InnerPosts
<1> QED
  BY <1>3, <1>4, <1>5, <1>6, InnerStep DEF LivesOn

-----------------------------------------------------------------------------
(* The steps of the server as steps of ServerLife. *)

\* Start is Starts: everything of the last time is over.
LEMMA StartLives == ServerInv /\ ServerInv' /\ LifeInv /\ Start => LivesOn
<1> SUFFICES ASSUME ServerInv, ServerInv', LifeInv, Start
             PROVE  LivesOn
  OBVIOUS
<1>1. /\ strand \in Seq(Entry) /\ acceptor \in {"null", "closed"} /\ ~is_running /\ is_running'
      /\ ~Busy /\ acceptor' = acceptor /\ Post("listen", Null)
      /\ UNCHANGED <<client_connections, accepting, reading, writing>>
  BY DEF Start, ServerInv, TypeOK, LifeInv, ioVars
<1>2. strand = <<>> /\ ~accepting /\ reading = {} /\ \A s \in Sockets : writing[s] = Null
  BY <1>1 DEF Busy
<1>3. strand' = <<E("listen", Null)>> /\ "listen" \in Closures /\ Null \in Args
  BY <1>1, <1>2, LifeMembers DEF Post, Args
<1>4. /\ ~Has(strand', ActiveOps, Args) /\ Has(strand', AcceptOps, Args)
      /\ ~Has(strand, AcceptOps, Args)
  <2>1. "listen" \notin ActiveOps /\ "listen" \in AcceptOps
    BY LifeMembers DEF AcceptOps
  <2> QED
    BY <1>2, <1>3, <2>1, Posts
<1>5. ListenInvariant'
  BY <1>1, <1>3 DEF ListenInvariant
<1>6. LifeInv'
  BY <1>1, <1>2, <1>4, <1>5 DEF LifeInv, Rest
<1>7. Phase \in {"new", "stopped"} /\ Phase' = "starting"
  BY <1>1, <1>4, PhaseNow DEF Stage, Loop
<1>8. StopCalls = 0 /\ StopCalls' = StopCalls
  <2>1. StopCalls = 0
    BY <1>1, KeepsBusy
  <2> QED
    BY <1>1, <1>3, <2>1, CallsPost
<1>9. Busy' = TRUE
  BY <1>3 DEF Busy
<1>10. UNCHANGED <<Room, acceptor \in {"open", "closed"}, StopCalls>>
  BY <1>1, <1>8 DEF Room, FreeSlots
<1>11. Life!Starts
  BY <1>1, <1>7, <1>8, <1>9, <1>10 DEF Life!Starts, Room, StopCalls
<1> QED
  BY <1>6, <1>11 DEF LivesOn, Life!LifeNext

\* Start's closure is Listens, whether the Acceptor can be made or not.
LEMMA ListenLives == ServerInv /\ ServerInv' /\ LifeInv /\ Listen => LivesOn
<1> SUFFICES ASSUME ServerInv, ServerInv', LifeInv, Listen
             PROVE  LivesOn
  OBVIOUS
<1>1. strand \in Seq(Entry) /\ UNCHANGED <<is_running, client_connections, reading, writing>>
  BY DEF Listen, ServerInv, TypeOK
<1>2. strand # <<>> /\ Head(strand) = E("listen", Null) /\ acceptor # "crashed"
  BY DEF Listen, Step, Runs
<1>3. is_running /\ acceptor \in {"null", "closed"}
  <2>1. 1 \in DOMAIN strand /\ strand[1].op = "listen"
    BY <1>1, <1>2 DEF E
  <2> QED
    BY <2>1 DEF LifeInv, ListenInvariant
<1>4. Rest
  BY <1>3 DEF LifeInv, Halted
<1>5. "listen" \in AcceptOps /\ Null \in Args /\ "listen" \in Closures
  BY LifeMembers DEF AcceptOps, Args
<1>6. Phase = "starting"
  <2>1. Has(strand, AcceptOps, Args)
    <3>1. PICK p \in Seq(Entry) : Step("listen", Null, p)
      <4>1. <<>> \in Seq(Entry) /\ <<E("onListening", Null)>> \in Seq(Entry)
        BY Posts DEF Closures, Args
      <4> QED
        BY <4>1 DEF Listen
    <3> QED
      BY <1>1, <1>5, <3>1, StepFlow
  <2> QED
    BY <1>2, <1>3, <2>1, PhaseNow DEF Stage, Loop
<1>7. Room' = Room
  BY <1>1 DEF Room, FreeSlots
<1>8. ASSUME NEW p, Inner(p), Step("listen", Null, p)
      PROVE  /\ ListenInvariant' /\ StopCalls' = StopCalls
             /\ ~Has(strand', AcceptOps, Args)
             /\ Has(strand', ActiveOps, Args) => Has(p, ActiveOps, Args)
  <2>1. p \in Seq(Entry) /\ ~Has(p, {"listen"}, Args) /\ ~Has(p, AcceptOps, Args)
    BY <1>8, InnerListen DEF Inner
  <2>2. One(strand, AcceptOps, Args)
    BY DEF ServerInv, AcceptInv
  <2>3. strand' \in Seq(Entry) /\ ~Has(strand', AcceptOps, Args)
    BY <1>1, <1>5, <1>8, <2>1, <2>2, StepFlow
  <2>4. ~Has(strand', {"listen"}, Args)
    BY <1>5, <2>3 DEF Has, Among
  <2>5. ListenInvariant'
    BY <2>3, <2>4, NoListen DEF ListenInvariant
  <2>6. Has(strand', ActiveOps, Args) => Has(strand, ActiveOps, Args) \/ Has(p, ActiveOps, Args)
    BY <1>1, <1>8, <2>1, StepFlow
  <2>7. StopCalls' = StopCalls
    BY <1>8, CallsStep DEF Inner
  <2> QED
    BY <1>4, <2>3, <2>5, <2>6, <2>7 DEF Rest
<1>9. CASE Step("listen", Null, <<E("onListening", Null)>>) /\ acceptor' = "open" /\ accepting'
  <2>1. Inner(<<E("onListening", Null)>>)
    BY <1>5, InnerPosts DEF Closures, AcceptOps
  <2>2. ListenInvariant' /\ StopCalls' = StopCalls
    BY <1>8, <1>9, <2>1
  <2>3. LifeInv'
    BY <1>1, <1>3, <1>9, <2>2 DEF LifeInv, Halted
  <2>4. Phase' = "serving" /\ Busy' = TRUE
    BY <1>9, PhaseNow DEF Stage, Loop, Busy
  <2>5. Life!Listens
    BY <1>6, <1>7, <1>9, <2>2, <2>4 DEF Life!Listens, Room, StopCalls
  <2> QED
    BY <2>3, <2>5 DEF LivesOn, Life!LifeNext
<1>10. CASE Step("listen", Null, <<>>) /\ UNCHANGED <<acceptor, accepting>>
  <2>1. Inner(<<>>) /\ ~Has(<<>>, ActiveOps, Args)
    BY InnerPosts, Posts
  <2>2. /\ ListenInvariant' /\ StopCalls' = StopCalls
        /\ ~Has(strand', AcceptOps, Args) /\ ~Has(strand', ActiveOps, Args)
    BY <1>8, <1>10, <2>1
  <2>3. LifeInv'
    BY <1>1, <1>3, <1>4, <1>10, <2>2 DEF LifeInv, Halted, Rest
  <2>4. ~accepting'
    BY <1>4, <1>10 DEF Rest
  <2>5. Phase' = "broken"
    BY <1>1, <1>3, <1>10, <2>2, <2>4, PhaseNow DEF Stage, Loop
  <2>6. Busy' \in {StopCalls > 0, TRUE}
    <3>1. Busy' \in BOOLEAN /\ (StopCalls > 0) \in BOOLEAN
      BY DEF Busy
    <3>2. StopCalls > 0 => Busy'
      BY <2>2, KeepsBusy
    <3>3. CASE Busy'
      BY <3>1, <3>3
    <3>4. CASE ~Busy'
      BY <3>1, <3>2, <3>4
    <3> QED
      BY <3>3, <3>4
  <2>7. Life!Listens
    BY <1>6, <1>7, <1>10, <2>2, <2>5, <2>6 DEF Life!Listens, Room, StopCalls
  <2> QED
    BY <2>3, <2>7 DEF LivesOn, Life!LifeNext
<1> QED
  BY <1>9, <1>10 DEF Listen

\* A closure of the accept loop, which ends only with the server.
LEMMA AcceptMoves ==
    ASSUME ServerInv, ServerInv', LifeInv, NEW op \in ActiveOps, NEW a \in Args,
           NEW p \in Seq(Entry), Step(op, a, p), ~Has(p, {"listen"}, Args), ~Has(p, {"stop"}, Args),
           is_running /\ acceptor = "open" => Loop' = Loop,
           UNCHANGED <<acceptor, is_running, client_connections>>
    PROVE  LivesOn
<1>1. TypeOK /\ acceptor \in {"null", "open", "closed", "crashed"}
  BY DEF ServerInv, TypeOK
<1>2. ~Halted /\ LifeInv'
  BY <1>1, ActiveStep
<1>3. op # "stop"
  BY LifeMembers
<1>4. StopCalls' = StopCalls
  BY <1>3, CallsStep
<1>5. Room' = Room
  BY DEF Room, FreeSlots
<1>6. Busy
  BY DEF Busy, Step, Runs
<1>7. Phase' = Phase /\ Phase # "crashed"
  <2>1. Phase = Stage /\ Phase' = Stage'
    BY PhaseNow
  <2>2. CASE is_running
    <3>1. acceptor = "open"
      BY <1>1, <1>2, <2>2 DEF Halted
    <3> QED
      BY <2>1, <2>2, <3>1 DEF Stage
  <2>3. CASE ~is_running
    <3>1. acceptor = "closed"
      BY <1>1, <1>2, <2>3 DEF Halted, LifeInv
    <3> QED
      BY <2>1, <2>3, <3>1 DEF Stage
  <2> QED
    BY <2>2, <2>3
<1> QED
  BY <1>2, <1>4, <1>5, <1>6, <1>7, Passes DEF LivesOn

\* A late socket ends the accept loop of a stopped server only.
LEMMA DoAcceptLives ==
    ASSUME NEW s \in Args
    PROVE  ServerInv /\ ServerInv' /\ LifeInv /\ DoAccept(s) => LivesOn
<1> SUFFICES ASSUME ServerInv, ServerInv', LifeInv, DoAccept(s)
             PROVE  LivesOn
  OBVIOUS
<1>1. strand \in Seq(Entry) /\ UNCHANGED <<acceptor, is_running, client_connections>>
  BY DEF DoAccept, ServerInv, TypeOK
<1>2. /\ "acceptDone" \in ActiveOps /\ "acceptDone" \in AcceptOps
      /\ "OnAccepted" \in AcceptOps /\ "OnAccepted" \in Closures
  BY DEF ActiveOps, QuietOps, Closures, AcceptOps
<1>3. CASE acceptor = "open"
  <2> DEFINE p == <<E("OnAccepted", s)>>
  <2>1. Step("acceptDone", s, p)
    BY <1>3 DEF DoAccept
  <2>2. /\ p \in Seq(Entry) /\ ~Has(p, {"listen"}, Args) /\ ~Has(p, {"stop"}, Args)
        /\ Has(p, AcceptOps, Args)
    BY <1>2, Posts
  <2> HIDE DEF p
  <2>3. Loop' = Loop
    BY <1>1, <1>2, <2>1, <2>2, StepFlow DEF Loop
  <2> QED
    BY <1>1, <1>2, <2>1, <2>2, <2>3, AcceptMoves
<1>4. CASE acceptor # "open"
  <2>1. Step("acceptDone", s, <<>>)
    BY <1>4 DEF DoAccept
  <2>2. /\ <<>> \in Seq(Entry) /\ ~Has(<<>>, {"listen"}, Args) /\ ~Has(<<>>, {"stop"}, Args)
    BY Posts
  <2> QED
    BY <1>1, <1>2, <1>4, <2>1, <2>2, AcceptMoves
<1> QED
  BY <1>3, <1>4

\* The accept loop goes on unless the server was stopped.
LEMMA RearmLives == ServerInv /\ ServerInv' /\ LifeInv /\ Rearm => LivesOn
<1> SUFFICES ASSUME ServerInv, ServerInv', LifeInv, Rearm
             PROVE  LivesOn
  OBVIOUS
<1>1. /\ strand \in Seq(Entry) /\ UNCHANGED <<acceptor, is_running, client_connections>>
      /\ Step("rearm", Null, <<>>) /\ (is_running => accepting')
  BY DEF Rearm, ServerInv, TypeOK
<1>2. "rearm" \in ActiveOps /\ "rearm" \in AcceptOps /\ Null \in Args
  BY DEF ActiveOps, QuietOps, Closures, AcceptOps, Args
<1>3. <<>> \in Seq(Entry) /\ ~Has(<<>>, {"listen"}, Args) /\ ~Has(<<>>, {"stop"}, Args)
  BY Posts
<1>4. is_running => Loop' = Loop
  BY <1>1, <1>2, <1>3, StepFlow DEF Loop
<1> QED
  BY <1>1, <1>2, <1>3, <1>4, AcceptMoves

\* A client is refused, and the accept loop ends with it.
LEMMA RefuseLives ==
    ASSUME NEW s \in Sockets, ServerInv, ServerInv', LifeInv, is_running, FreeSlots = {},
           NEW p, Closing(p), Step("OnAccepted", s, p),
           UNCHANGED <<acceptor, is_running, client_connections, accepting>>
    PROVE  LivesOn
<1>1. /\ TypeOK /\ strand \in Seq(Entry) /\ acceptor \in {"null", "open", "closed", "crashed"}
      /\ One(strand, AcceptOps, Args) /\ (accepting => ~Has(strand, AcceptOps, Args))
  BY DEF ServerInv, TypeOK, AcceptInv
<1>2. "OnAccepted" \in ActiveOps /\ "OnAccepted" \in AcceptOps /\ s \in Args
  BY DEF ActiveOps, QuietOps, Closures, AcceptOps, Args
<1>3. Inner(p) /\ p \in Seq(Entry) /\ ~Has(p, {"listen"}, Args)
  BY InnerPosts, InnerListen
<1>4. ~Halted /\ LifeInv'
  BY <1>1, <1>2, <1>3, ActiveStep
<1>5. acceptor = "open"
  BY <1>1, <1>4 DEF Halted
<1>6. Has(strand, AcceptOps, Args) /\ ~Has(strand', AcceptOps, Args)
  BY <1>1, <1>2, <1>3, StepFlow DEF Inner
<1>7. Phase = "serving" /\ Phase' = "deaf"
  BY <1>1, <1>5, <1>6, PhaseNow DEF Stage, Loop
<1>8. StopCalls' = StopCalls
  BY <1>3, CallsStep DEF Inner
<1>9. Busy' \in {StopCalls > 0, TRUE}
  <2>1. Busy' \in BOOLEAN /\ (StopCalls > 0) \in BOOLEAN
    BY DEF Busy
  <2>2. StopCalls > 0 => Busy'
    BY <1>8, KeepsBusy
  <2>3. CASE Busy'
    BY <2>1, <2>3
  <2>4. CASE ~Busy'
    BY <2>1, <2>2, <2>4
  <2> QED
    BY <2>3, <2>4
<1>10. UNCHANGED <<Room, acceptor \in {"open", "closed"}, StopCalls>>
  BY <1>8 DEF Room, FreeSlots
<1>11. Life!Refuses
  BY <1>7, <1>9, <1>10 DEF Life!Refuses, Room, StopCalls
<1> QED
  BY <1>4, <1>11 DEF LivesOn, Life!LifeNext

\* A client gets a slot, and the accept loop goes on.
LEMMA AdmitLives ==
    ASSUME NEW s \in Sockets, ServerInv, ServerInv', LifeInv, is_running, Admit(s),
           UNCHANGED <<acceptor, is_running, accepting>>
    PROVE  LivesOn
<1> DEFINE p == <<E("onConnected", s)>> \o (IF open[s] THEN <<E("read", s)>> ELSE <<>>)
           t == <<E("rearm", Null)>>
<1>1. TypeOK /\ strand \in Seq(Entry) /\ acceptor \in {"null", "open", "closed", "crashed"}
  BY DEF ServerInv, TypeOK
<1>2. /\ "OnAccepted" \in ActiveOps /\ "OnAccepted" \in AcceptOps /\ s \in Args /\ Null \in Args
      /\ "rearm" \in AcceptOps /\ "rearm" \in Closures
  BY DEF ActiveOps, QuietOps, Closures, AcceptOps, Args
<1>3. Inner(p)
  <2>1. Inner(<<E("onConnected", s)>>) /\ Inner(<<E("read", s)>>) /\ Inner(<<>>)
    BY <1>2, InnerPosts DEF Closures, AcceptOps
  <2> QED
    BY <2>1, InnerPosts
<1>4. Step("OnAccepted", s, p \o t)
  BY DEF Admit
<1> HIDE DEF p
<1>5. /\ t \in Seq(Entry) /\ ~Has(t, {"listen"}, Args) /\ ~Has(t, {"stop"}, Args)
      /\ Has(t, AcceptOps, Args)
  BY <1>2, Posts
<1> HIDE DEF t
<1>6. /\ p \o t \in Seq(Entry) /\ ~Has(p \o t, {"listen"}, Args) /\ ~Has(p \o t, {"stop"}, Args)
      /\ Has(p \o t, AcceptOps, Args)
  BY <1>3, <1>5, InnerListen, Concat DEF Inner
<1> DEFINE r == p \o t
<1>7. /\ r \in Seq(Entry) /\ ~Has(r, {"listen"}, Args) /\ ~Has(r, {"stop"}, Args)
      /\ Has(r, AcceptOps, Args) /\ Step("OnAccepted", s, r)
  BY <1>4, <1>6
<1> HIDE DEF r
<1>8. ~Halted /\ LifeInv'
  BY <1>1, <1>2, <1>7, ActiveStep
<1>9. acceptor = "open"
  BY <1>1, <1>8 DEF Halted
<1>10. Has(strand, AcceptOps, Args) /\ Has(strand', AcceptOps, Args)
  BY <1>1, <1>2, <1>7, StepFlow
<1>11. Phase = "serving" /\ Phase' = "serving"
  BY <1>1, <1>9, <1>10, PhaseNow DEF Stage, Loop
<1>12. StopCalls' = StopCalls
  <2>1. "OnAccepted" # "stop"
    OBVIOUS
  <2> QED
    BY <1>7, <2>1, CallsStep
<1>13. Busy = TRUE /\ Busy' = TRUE
  BY <1>10, KeepsBusy DEF Loop, Busy
<1>14. Life!Serves
  <2>1. Room' \in BOOLEAN
    BY DEF Room
  <2> QED
    BY <1>11, <1>12, <1>13, <2>1 DEF Life!Serves, Room, StopCalls
<1> QED
  BY <1>8, <1>14 DEF LivesOn, Life!LifeNext

\* OnAccepted is Refuses, Serves, or too late.
LEMMA OnAcceptedLives ==
    ASSUME NEW s \in Sockets
    PROVE  ServerInv /\ ServerInv' /\ LifeInv /\ OnAccepted(s) => LivesOn
<1> SUFFICES ASSUME ServerInv, ServerInv', LifeInv, OnAccepted(s)
             PROVE  LivesOn
  OBVIOUS
<1>1. UNCHANGED <<acceptor, is_running, accepting>>
  BY DEF OnAccepted, ioVars
<1>2. CASE ~is_running
  <2>1. Step("OnAccepted", s, <<>>) /\ UNCHANGED client_connections
    BY <1>2 DEF OnAccepted
  <2>2. <<>> \in Seq(Entry) /\ ~Has(<<>>, {"listen"}, Args) /\ ~Has(<<>>, {"stop"}, Args)
    BY Posts
  <2>3. "OnAccepted" \in ActiveOps /\ s \in Args
    BY DEF ActiveOps, QuietOps, Closures, Args
  <2> QED
    BY <1>1, <1>2, <2>1, <2>2, <2>3, AcceptMoves
<1>3. CASE is_running /\ FreeSlots = {}
  <2>1. Step("OnAccepted", s, StopSocket(s)) /\ UNCHANGED client_connections
    BY <1>3 DEF OnAccepted
  <2>2. Closing(StopSocket(s))
    BY ClosingOne
  <2> QED
    BY <1>1, <1>3, <2>1, <2>2, RefuseLives
<1>4. CASE is_running /\ FreeSlots # {}
  <2>1. Admit(s)
    BY <1>4 DEF OnAccepted
  <2> QED
    BY <1>1, <1>4, <2>1, AdmitLives
<1> QED
  BY <1>2, <1>3, <1>4

\* The closures of a socket: what they post, and that the server does not see
\* them.
LEMMA SocketMoves ==
    ASSUME ServerInv, ServerInv', LifeInv, NEW s \in Args, NEW p, Inner(p),
           NEW op \in {"onListening", "onConnected", "start", "read", "readOk", "readClosed",
                       "readError", "writeDone", "disconnected", "release"},
           Step(op, s, p), UNCHANGED <<acceptor, is_running, accepting>>, Room' # Room => Room'
    PROVE  LivesOn
<1>1. op \in ActiveOps /\ op \notin AcceptOps
  BY DEF ActiveOps, QuietOps, Closures, AcceptOps
<1> QED
  BY <1>1, ActiveMoves

\* What the closures of a socket post.
LEMMA InnerOne ==
    ASSUME NEW s \in Sockets
    PROVE  /\ s \in Args /\ Inner(<<>>) /\ Inner(<<E("start", s)>>) /\ Inner(<<E("read", s)>>)
           /\ Inner(<<E("release", s)>>) /\ Inner(StopSocket(s))
           /\ Inner(PostDisconnected(s))
<1>1. s \in Args /\ Inner(<<>>) /\ Inner(StopSocket(s))
  BY InnerPosts, ClosingOne DEF Args
<1>2. /\ Inner(<<E("start", s)>>) /\ Inner(<<E("read", s)>>)
      /\ Inner(<<E("release", s)>>) /\ Inner(<<E("disconnected", s)>>)
  BY <1>1, InnerPosts DEF Closures, AcceptOps
<1>3. Inner(PostDisconnected(s))
  BY <1>1, <1>2 DEF PostDisconnected
<1> QED
  BY <1>1, <1>2, <1>3

\* What raising on_data_ posts.
LEMMA RaiseInner ==
    ASSUME NEW s \in Sockets, NEW op, NEW posts, Inner(posts), RaiseOnData(s, op, posts)
    PROVE  \E p : Inner(p) /\ Step(op, s, p)
<1>1. Inner(posts \o <<E("start", s)>>)
  BY InnerOne, InnerPosts
<1>2. Step(op, s, posts) \/ Step(op, s, posts \o <<E("start", s)>>)
  BY DEF RaiseOnData
<1> QED
  BY <1>1, <1>2

\* on_listening_ is not a step of ServerLife.
LEMMA OnListeningLives == ServerInv /\ ServerInv' /\ LifeInv /\ OnListening => LivesOn
<1> SUFFICES ASSUME ServerInv, ServerInv', LifeInv, OnListening
             PROVE  LivesOn
  OBVIOUS
<1>1. /\ Step("onListening", Null, <<>>)
      /\ UNCHANGED <<acceptor, is_running, accepting, client_connections>>
  BY DEF OnListening, ioVars
<1>2. Inner(<<>>) /\ Null \in Args
  BY InnerPosts DEF Args
<1>3. Room' = Room
  BY <1>1 DEF Room, FreeSlots
<1> QED
  BY <1>1, <1>2, <1>3, SocketMoves

\* The read loop of a socket is not, unless it is the last operation.
LEMMA SocketLives ==
    ASSUME NEW s \in Sockets
    PROVE  /\ ServerInv /\ ServerInv' /\ LifeInv
           /\ \/ OnConnected(s) \/ StartSocket(s) \/ Read(s) \/ ReadOk(s)
              \/ ReadEnds(s, "readClosed") \/ ReadEnds(s, "readError")
              \/ WriteDone(s) \/ OnSocketDisconnected(s)
           => LivesOn
<1> SUFFICES ASSUME ServerInv, ServerInv', LifeInv,
                    \/ OnConnected(s) \/ StartSocket(s) \/ Read(s) \/ ReadOk(s)
                    \/ ReadEnds(s, "readClosed") \/ ReadEnds(s, "readError")
                    \/ WriteDone(s) \/ OnSocketDisconnected(s)
             PROVE  LivesOn
  OBVIOUS
<1>1. UNCHANGED <<acceptor, is_running, accepting, client_connections>>
  BY DEF OnConnected, StartSocket, Read, ReadOk, ReadEnds, WriteDone, OnSocketDisconnected, ioVars
<1>2. Room' = Room
  BY <1>1 DEF Room, FreeSlots
<1>3. /\ s \in Args /\ Inner(<<>>) /\ Inner(<<E("start", s)>>) /\ Inner(<<E("read", s)>>)
      /\ Inner(<<E("release", s)>>) /\ Inner(StopSocket(s)) /\ Inner(PostDisconnected(s))
  BY InnerOne
<1>4. ASSUME NEW op \in {"onConnected", "start", "read", "readOk", "readClosed", "readError",
                         "writeDone", "disconnected"},
             \E p : Inner(p) /\ Step(op, s, p)
      PROVE  LivesOn
  BY <1>1, <1>2, <1>3, <1>4, SocketMoves
<1>5. CASE OnConnected(s)
  <2>1. Step("onConnected", s, <<>>)
    BY <1>5 DEF OnConnected
  <2> QED
    BY <1>3, <1>4, <2>1
<1>6. CASE StartSocket(s)
  <2>1. Step("start", s, IF open[s] THEN <<E("read", s)>> ELSE <<>>)
    BY <1>6 DEF StartSocket
  <2> QED
    BY <1>3, <1>4, <2>1
<1>7. CASE Read(s)
  <2>1. Step("read", s, <<>>) \/ RaiseOnData(s, "read", <<>>)
    BY <1>7 DEF Read
  <2> QED
    BY <1>3, <1>4, <2>1, RaiseInner
<1>8. CASE ReadOk(s)
  <2>1. RaiseOnData(s, "readOk", PostDisconnected(s))
    BY <1>8 DEF ReadOk
  <2> QED
    BY <1>3, <1>4, <2>1, RaiseInner
<1>9. ASSUME NEW op \in {"readClosed", "readError"}, ReadEnds(s, op)
      PROVE  LivesOn
  <2> DEFINE m == IF op = "readError" THEN StopSocket(s) ELSE <<>>
             n == IF stopped'[s] THEN <<>> ELSE <<E("release", s)>>
  <2>1. Inner(m) /\ Inner(n)
    BY <1>3
  <2>2. Step(op, s, PostDisconnected(s) \o m \o n)
    BY <1>9 DEF ReadEnds
  <2> HIDE DEF m, n
  <2>3. Inner(PostDisconnected(s) \o m \o n)
    BY <1>3, <2>1, InnerPosts
  <2> QED
    BY <1>4, <2>2, <2>3
<1>10. CASE WriteDone(s)
  <2>1. Step("writeDone", s, PostDisconnected(writing[s]) \o <<E("start", s)>>)
    BY <1>10 DEF WriteDone
  <2>2. Has(strand, {"writeDone"}, {s})
    <3>1. strand \in Seq(Entry) /\ strand # <<>> /\ Head(strand) = E("writeDone", s)
      BY <2>1 DEF ServerInv, TypeOK, Step, Runs
    <3>2. 1 \in DOMAIN strand /\ Among(strand[1], {"writeDone"}, {s})
      BY <3>1 DEF E, Among
    <3> QED
      BY <3>2 DEF Has
  <2>3. writing[s] = s
    BY <2>2 DEF ServerInv, SocketInv, LoopInv
  <2>4. Inner(PostDisconnected(s) \o <<E("start", s)>>)
    BY <1>3, InnerPosts
  <2> QED
    BY <1>4, <2>1, <2>3, <2>4
<1>11. CASE OnSocketDisconnected(s)
  <2>1. Step("disconnected", s, <<E("release", s)>>)
    BY <1>11 DEF OnSocketDisconnected
  <2> QED
    BY <1>3, <1>4, <2>1
<1> QED
  BY <1>5, <1>6, <1>7, <1>8, <1>9, <1>10, <1>11

\* The slot of a client is given back.
LEMMA ReleaseLives ==
    ASSUME NEW s \in Sockets
    PROVE  ServerInv /\ ServerInv' /\ LifeInv /\ Release(s) => LivesOn
<1> SUFFICES ASSUME ServerInv, ServerInv', LifeInv, Release(s)
             PROVE  LivesOn
  OBVIOUS
<1>1. /\ Step("release", s, <<>>) /\ UNCHANGED <<acceptor, is_running, accepting>>
      /\ client_connections' = [client_connections EXCEPT ![id[s]] = Null]
  BY DEF Release, ioVars
<1>2. s \in Args /\ Inner(<<>>)
  BY InnerOne
<1>3. Room => Room'
  <2> SUFFICES ASSUME NEW i \in FreeSlots
               PROVE  Room'
    BY DEF Room
  <2>1. i \in Slots /\ client_connections[i] = Null
    BY DEF FreeSlots
  <2>2. client_connections'[i] = Null
    BY <1>1, <2>1 DEF ServerInv, TypeOK
  <2> QED
    BY <2>1, <2>2 DEF Room, FreeSlots
<1>4. Room \in BOOLEAN /\ Room' \in BOOLEAN
  BY DEF Room
<1>5. Room' # Room => Room'
  BY <1>3, <1>4
<1> QED
  BY <1>1, <1>2, <1>5, SocketMoves

\* Completions: the accept loop goes on in the strand.
LEMMA CompleteLives ==
    ServerInv /\ ServerInv' /\ LifeInv /\ Complete => LivesOn
<1> SUFFICES ASSUME ServerInv, ServerInv', LifeInv, Complete
             PROVE  LivesOn
  OBVIOUS
<1>1. TypeOK /\ strand \in Seq(Entry)
  BY DEF ServerInv, TypeOK
<1>2. UNCHANGED <<acceptor, is_running, client_connections>>
  BY DEF Complete, AcceptAborted, AcceptComplete, ReadComplete, WriteComplete
<1>3. ASSUME NEW op \in Closures, NEW a \in Args, Post(op, a), op # "listen", op # "stop",
             accepting \/ reading # {} \/ \E s \in Sockets : writing[s] # Null, Loop' = Loop
      PROVE  LivesOn
  <2>1. ~Halted /\ LifeInv'
    BY <1>1, <1>2, <1>3, ActivePost
  <2>2. Busy
    BY <1>3 DEF Busy
  <2> QED
    BY <1>2, <1>3, <2>1, <2>2, InnerPost DEF LivesOn
<1>4. ASSUME NEW a \in Args, accepting, Post("acceptDone", a)
      PROVE  LivesOn
  <2>1. "acceptDone" \in Closures /\ "acceptDone" \in AcceptOps
    BY DEF Closures, AcceptOps
  <2>2. Loop' = Loop
    BY <1>1, <1>4, <2>1, PostFlow DEF Loop
  <2> QED
    BY <1>3, <1>4, <2>1, <2>2
<1>5. ASSUME NEW s \in Sockets, NEW op \in {"readOk", "readClosed", "readError", "writeDone"},
             Post(op, s), reading # {} \/ writing[s] # Null, accepting' = accepting
      PROVE  LivesOn
  <2>1. op \in Closures /\ op \notin AcceptOps /\ s \in Args /\ op # "listen" /\ op # "stop"
    BY DEF Closures, AcceptOps, Args
  <2>2. Loop' = Loop
    BY <1>1, <1>5, <2>1, PostFlow DEF Loop
  <2> QED
    BY <1>3, <1>5, <2>1, <2>2
<1>6. CASE AcceptAborted
  BY <1>4, <1>6 DEF AcceptAborted, Args
<1>7. ASSUME NEW s \in Sockets, AcceptComplete(s)
      PROVE  LivesOn
  BY <1>4, <1>7 DEF AcceptComplete, Args
<1>8. ASSUME NEW s \in Sockets, ReadComplete(s)
      PROVE  LivesOn
  <2>1. Post("readOk", s) \/ Post("readClosed", s) \/ Post("readError", s)
    BY <1>8 DEF ReadComplete
  <2>2. reading # {} /\ accepting' = accepting
    BY <1>8 DEF ReadComplete
  <2> QED
    BY <1>5, <2>1, <2>2
<1>9. ASSUME NEW s \in Sockets, WriteComplete(s)
      PROVE  LivesOn
  <2>1. Post("writeDone", s) /\ writing[s] # Null /\ accepting' = accepting
    BY <1>9 DEF WriteComplete, ioVars
  <2> QED
    BY <1>5, <2>1
<1> QED
  BY <1>6, <1>7, <1>8, <1>9 DEF Complete

\* Closing a socket may be the last operation.
LEMMA CloseLives ==
    ASSUME NEW s \in Sockets
    PROVE  ServerInv /\ ServerInv' /\ LifeInv /\ Close(s) => LivesOn
<1> SUFFICES ASSUME ServerInv, ServerInv', LifeInv, Close(s)
             PROVE  LivesOn
  OBVIOUS
<1>1. /\ Step("close", s, <<>>) /\ s \in Args /\ Closing(<<>>)
      /\ UNCHANGED <<acceptor, is_running, accepting, reading, writing, client_connections>>
  BY ClosingOne DEF Close, ioVars, Args
<1> QED
  BY <1>1, QuietMoves

\* So may a closure of StopClient.
LEMMA StopClientLives == ServerInv /\ ServerInv' /\ LifeInv /\ StopClient => LivesOn
<1> SUFFICES ASSUME ServerInv, ServerInv', LifeInv, StopClient
             PROVE  LivesOn
  OBVIOUS
<1>1. PICK p : Closing(p) /\ Step("stopClient", Null, p)
  <2>1. PICK j \in 0 .. MaxConnections :
           Step("stopClient", Null, IF GetSocket(j) = Null THEN <<>> ELSE StopSocket(GetSocket(j)))
    BY DEF StopClient
  <2>2. GetSocket(j) \in Sockets \cup {Null}
    BY DEF ServerInv, TypeOK, GetSocket
  <2> QED
    BY <2>1, <2>2, ClosingOne
<1>2. /\ Null \in Args
      /\ UNCHANGED <<acceptor, is_running, accepting, reading, writing, client_connections>>
  BY DEF StopClient, ioVars, Args
<1> QED
  BY <1>1, <1>2, QuietMoves

\* Stop or StopClient is called of a server that was started.
LEMMA CallLives ==
    ServerInv /\ ServerInv' /\ LifeInv /\ (CallStop \/ CallStopClient) => LivesOn
<1> SUFFICES ASSUME ServerInv, ServerInv', LifeInv, CallStop \/ CallStopClient
             PROVE  LivesOn
  OBVIOUS
<1>1. TypeOK /\ strand \in Seq(Entry) /\ acceptor \in {"null", "open", "closed", "crashed"}
  BY DEF ServerInv, TypeOK
<1>2. UNCHANGED <<acceptor, is_running, client_connections, accepting, reading, writing>>
  BY DEF CallStop, CallStopClient, ioVars
<1>3. Started
  BY DEF CallStop, CallStopClient
<1>4. /\ "stop" \in Closures /\ "stopClient" \in Closures /\ Null \in Args
      /\ "stop" \notin AcceptOps /\ "stopClient" \notin AcceptOps
  BY LifeMembers DEF Args, AcceptOps
<1>5. Phase = Stage /\ Phase' = Stage'
  BY PhaseNow
<1>6. Phase \notin {"new", "crashed"}
  BY <1>1, <1>3, <1>5 DEF Stage, Started
<1>7. ASSUME NEW op \in {"stop", "stopClient"}, Post(op, Null)
      PROVE  /\ LifeInv' /\ Busy' = TRUE
             /\ UNCHANGED <<Phase, Room, acceptor \in {"open", "closed"}>>
  <2>1. LifeInv'
    BY <1>1, <1>2, <1>7, CallLife
  <2>2. strand' # <<>>
    BY <1>1, <1>7 DEF Post
  <2>3. Loop' = Loop
    BY <1>1, <1>2, <1>4, <1>7, PostFlow DEF Loop
  <2>4. Phase' = Phase
    BY <1>2, <1>5, <2>3 DEF Stage
  <2> QED
    BY <1>2, <2>1, <2>2, <2>4 DEF Busy, Room, FreeSlots
<1>8. CASE CallStop
  <2>1. Post("stop", Null)
    BY <1>8 DEF CallStop
  <2>2. StopCalls' = StopCalls + 1
    BY <1>4, <2>1, CallsPost
  <2>3. Life!CallStop
    BY <1>6, <1>7, <2>1, <2>2 DEF Life!CallStop, Room, StopCalls
  <2> QED
    BY <1>7, <2>1, <2>3 DEF LivesOn, Life!LifeNext
<1>9. CASE CallStopClient
  <2>1. Post("stopClient", Null)
    BY <1>9 DEF CallStopClient
  <2>2. StopCalls' = StopCalls
    BY <1>4, <2>1, CallsPost
  <2>3. Life!CallStopClient
    BY <1>6, <1>7, <2>1, <2>2 DEF Life!CallStopClient, Room, StopCalls
  <2> QED
    BY <1>7, <2>1, <2>3 DEF LivesOn, Life!LifeNext
<1> QED
  BY <1>8, <1>9

\* The closure of Stop: the server stops, or crashes without an Acceptor.
LEMMA StopLives == ServerInv /\ ServerInv' /\ LifeInv /\ Stop => LivesOn
<1> SUFFICES ASSUME ServerInv, ServerInv', LifeInv, Stop
             PROVE  LivesOn
  OBVIOUS
<1>1. /\ TypeOK /\ strand \in Seq(Entry) /\ acceptor \in {"null", "open", "closed", "crashed"}
      /\ is_running \in BOOLEAN
  BY DEF ServerInv, TypeOK
<1>2. PICK p : Closing(p) /\ Step("stop", Null, p)
  <2>1. \/ Step("stop", Null, StopSockets[MaxConnections])
        \/ Step("stop", Null, <<>>)
    BY DEF Stop
  <2> QED
    BY <1>1, <2>1, StopSocketsClosing, ClosingOne
<1>3. ~is_running' /\ UNCHANGED <<client_connections, accepting, reading, writing>>
  BY DEF Stop, ioVars
<1>4. /\ is_running /\ acceptor # "null" => acceptor' = "closed"
      /\ is_running /\ acceptor = "null" => acceptor' = "crashed"
      /\ ~is_running => acceptor' = acceptor
  BY <1>1 DEF Stop
<1>5. acceptor # "crashed" /\ (acceptor = "open" => is_running)
  BY <1>2 DEF Step, Runs, LifeInv
<1>6. /\ ~Has(strand, {"listen"}, Args) /\ ListenInvariant'
      /\ Rest => Rest'
  BY <1>1, <1>2, <1>3, QuietStep DEF Args
<1>7. LifeInv'
  <2>1. Halted' => Halted
    BY <1>1, <1>3, <1>4 DEF Halted
  <2>2. acceptor' # "open"
    BY <1>1, <1>4, <1>5
  <2> QED
    BY <1>6, <2>1, <2>2 DEF LifeInv
<1>8. Phase = Stage /\ Phase' = Stage'
  BY PhaseNow
<1>9. is_running /\ acceptor # "open" => ~Loop
  <2> SUFFICES ASSUME is_running, acceptor # "open", Has(strand, AcceptOps, Args)
               PROVE  FALSE
    BY DEF LifeInv, Halted, Rest, Loop
  <2>1. ~Has(strand, ActiveOps, Args)
    BY DEF LifeInv, Halted, Rest
  <2>2. PICK i \in DOMAIN strand : Among(strand[i], AcceptOps, Args)
    BY DEF Has
  <2>3. strand[i].op = "listen" \/ strand[i].op \in ActiveOps
    BY <2>2 DEF Among, AcceptOps, ActiveOps, QuietOps, Closures
  <2> QED
    BY <1>6, <2>1, <2>2, <2>3 DEF Has, Among
<1>10. Phase \notin {"starting", "crashed"}
  BY <1>1, <1>5, <1>8, <1>9 DEF Stage
<1>11. Phase' = CASE Phase = "new" -> "new"
                  [] Phase = "broken" /\ acceptor \notin {"open", "closed"} -> "crashed"
                  [] OTHER -> "stopped"
  <2>1. CASE is_running /\ acceptor # "null"
    BY <1>1, <1>3, <1>4, <1>5, <1>8, <1>9, <2>1 DEF Stage
  <2>2. CASE is_running /\ acceptor = "null"
    BY <1>3, <1>4, <1>8, <1>9, <2>2 DEF Stage
  <2>3. CASE ~is_running
    BY <1>1, <1>3, <1>4, <1>5, <1>8, <2>3 DEF Stage
  <2> QED
    BY <1>1, <2>1, <2>2, <2>3
<1>12. StopCalls \in Nat /\ StopCalls' = StopCalls - 1 /\ StopCalls > 0
  <2>1. p \in Seq(Entry) /\ ~Has(p, {"stop"}, Args)
    BY <1>2, InnerPosts DEF Inner
  <2> QED
    BY <1>2, <2>1, CallsStep
<1>13. Busy' \in {StopCalls' > 0, TRUE}
  <2>1. Busy' \in BOOLEAN /\ (StopCalls' > 0) \in BOOLEAN
    BY DEF Busy
  <2>2. StopCalls' > 0 => Busy'
    BY KeepsBusy
  <2>3. CASE Busy'
    BY <2>1, <2>3
  <2>4. CASE ~Busy'
    BY <2>1, <2>2, <2>4
  <2> QED
    BY <2>3, <2>4
<1>14. UNCHANGED <<Room, acceptor \in {"open", "closed"}>>
  <2>1. (acceptor \in {"open", "closed"})' <=> acceptor \in {"open", "closed"}
    BY <1>1, <1>4, <1>5
  <2> QED
    BY <1>3, <2>1 DEF Room, FreeSlots
<1>15. Life!Stops
  BY <1>10, <1>11, <1>12, <1>13, <1>14 DEF Life!Stops, Room, StopCalls
<1> QED
  BY <1>7, <1>15 DEF LivesOn, Life!LifeNext

\* What clients do is not seen.
LEMMA ClientLives ==
    ServerInv /\ LifeInv /\ (Clients \/ UNCHANGED vars) => LivesOn
<1> SUFFICES ASSUME ServerInv, LifeInv, Clients \/ UNCHANGED vars
             PROVE  LivesOn
  OBVIOUS
<1>1. UNCHANGED <<strand, acceptor, is_running, client_connections, accepting, reading, writing>>
  BY DEF Clients, Connect, Send, Leave, ioVars, vars
<1>2. LifeInv'
  BY <1>1 DEF LifeInv, Halted, Rest, ListenInvariant
<1>3. UNCHANGED Life!lifeVars
  BY <1>1 DEF Life!lifeVars, Phase, AcceptLoop, Pending, Busy, FreeSlots
<1> QED
  BY <1>2, <1>3 DEF LivesOn

\* Every step.
LEMMA NextLives == ServerInv /\ ServerInv' /\ LifeInv /\ [Next]_vars => LivesOn
<1> SUFFICES ASSUME ServerInv, ServerInv', LifeInv, [Next]_vars
             PROVE  LivesOn
  OBVIOUS
<1>1. CASE RunStrand
  <2>1. CASE Listen \/ OnListening \/ Rearm \/ Stop \/ StopClient \/ DoAccept(Null)
    BY <2>1, ListenLives, OnListeningLives, RearmLives, StopLives, StopClientLives, DoAcceptLives
       DEF Args
  <2>2. ASSUME NEW s \in Sockets,
               \/ DoAccept(s) \/ OnAccepted(s) \/ OnConnected(s)
               \/ StartSocket(s) \/ Read(s) \/ ReadOk(s)
               \/ ReadEnds(s, "readClosed") \/ ReadEnds(s, "readError")
               \/ WriteDone(s) \/ OnSocketDisconnected(s) \/ Release(s) \/ Close(s)
        PROVE  LivesOn
    BY <2>2, DoAcceptLives, OnAcceptedLives, SocketLives, ReleaseLives, CloseLives DEF Args
  <2> QED
    BY <1>1, <2>1, <2>2 DEF RunStrand
<1>2. CASE Complete
  BY <1>2, CompleteLives
<1>3. CASE Clients \/ UNCHANGED vars
  BY <1>3, ClientLives
<1>4. CASE Start \/ CallStop \/ CallStopClient
  BY <1>4, StartLives, CallLives
<1> QED
  BY <1>1, <1>2, <1>3, <1>4 DEF Next

\* In the beginning.
LEMMA InitLives == Init => LifeInv /\ Life!LifeInit
<1> SUFFICES ASSUME Init
             PROVE  LifeInv /\ Life!LifeInit
  OBVIOUS
<1>1. /\ strand = <<>> /\ ~is_running /\ acceptor = "null" /\ ~accepting /\ reading = {}
      /\ writing = [s \in Sockets |-> Null] /\ client_connections = [i \in Slots |-> Null]
  BY DEF Init
<1>2. ~Has(strand, ActiveOps, Args)
  BY <1>1 DEF Has
<1>3. LifeInv
  BY <1>1, <1>2 DEF LifeInv, ListenInvariant, Rest, Halted
<1>4. Phase = "new" /\ (acceptor \in {"open", "closed"}) = FALSE
  BY <1>1 DEF Phase
<1>5. Busy = FALSE
  BY <1>1 DEF Busy
<1>6. (FreeSlots # {}) = TRUE
  <2>1. 1 \in Slots
    BY ServerAssumption DEF Slots
  <2> QED
    BY <1>1, <2>1 DEF FreeSlots
<1>7. Cardinality(Pending({"stop"})) = 0
  <2>1. Pending({"stop"}) = {}
    BY <1>1 DEF Pending
  <2> QED
    BY <2>1, FS_EmptySet
<1> QED
  BY <1>3, <1>4, <1>5, <1>6, <1>7 DEF Life!LifeInit

\* The server implements ServerLife: it keeps an operation outstanding while it
\* starts and while it listens and accepts, it stops accepting only when a
\* client comes while every slot is taken or when it is stopped, it comes to
\* rest otherwise, and only a Stop after a failed Start crashes it, for any
\* number of clients, slots and calls.
THEOREM LifeRefinement == Spec => ImplementsLife
<1>1. ServerInv /\ ServerInv' /\ LifeInv /\ [Next]_vars =>
         LifeInv' /\ [Life!LifeNext]_(Life!lifeVars)
  BY NextLives DEF LivesOn
<1> QED
  BY <1>1, InitLives, Invariance, PTL DEF Spec, ImplementsLife, Life!LifeSpec

=============================================================================
