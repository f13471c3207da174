----------------------------- MODULE GroupProofs -----------------------------
(***************************************************************************)
(* The connections that a test group believes in are those of its network  *)
(* (ConnectedIsPrecise, PartitionIsExact, ClientReach), and a failed check *)
(* shows in its annotations (FailureShown), for any number of servers,     *)
(* clients and operations.  The invariant is GroupInv.                     *)
(***************************************************************************)
EXTENDS Group, FiniteSetTheorems, WellFoundedInduction, TLAPS

Less == OpToRel(<, Nat)

LEMMA LeastExists ==
    ASSUME NEW T \in SUBSET Nat, T # {}
    PROVE  \E n \in T : \A m \in T : ~(m < n)
  <1>1. \E n \in T : \A m \in T : ~(<<m, n>> \in Less)
    BY Zenon, WFMin, NatLessThanWellFounded DEF Less
  <1>2. \A m, n \in Nat : m < n => <<m, n>> \in Less
    BY Zenon DEF Less, OpToRel
  <1> QED
    BY Zenon, <1>1, <1>2

(***************************************************************************)
(* The loops.  A loop over s is well defined, and what its turns preserve  *)
(* holds when it is over: I[n] is what may be there after n turns.         *)
(***************************************************************************)
Turns(k, s, step, g, x) ==
    x = [n \in 0 .. k |-> IF n = 0 THEN g ELSE step[s[n]][x[n - 1]]]

LEMMA OneTurnMore ==
    ASSUME NEW k \in Nat, k > 0, NEW s, NEW step, NEW g, NEW x, Turns(k - 1, s, step, g, x)
    PROVE  \E y : Turns(k, s, step, g, y)
  <1> DEFINE y == [n \in 0 .. k |-> IF n = k THEN step[s[k]][x[k - 1]] ELSE x[n]]
  <1>1. \A n \in 0 .. k - 1 : x[n] = IF n = 0 THEN g ELSE step[s[n]][x[n - 1]]
    BY Zenon DEF Turns
  <1>2. \A n \in 0 .. k : n = k \/ n \in 0 .. k - 1
    OBVIOUS
  <1>3. \A n \in 0 .. k : n # 0 => y[n - 1] = x[n - 1]
    OBVIOUS
  <1>4. \A n \in 0 .. k : y[n] = IF n = 0 THEN g ELSE step[s[n]][y[n - 1]]
    BY <1>1, <1>2, <1>3
  <1>5. y = [n \in 0 .. k |-> y[n]]
    BY Zenon
  <1> HIDE DEF y
  <1>6. Turns(k, s, step, g, y)
    BY Zenon, <1>4, <1>5 DEF Turns
  <1> QED
    BY Zenon, <1>6

LEMMA TurnsExist ==
    ASSUME NEW k \in Nat, NEW s, NEW step, NEW g
    PROVE  \E x : Turns(k, s, step, g, x)
  <1> DEFINE T == {n \in Nat : ~ \E x : Turns(n, s, step, g, x)}
  <1>1. SUFFICES ASSUME T # {}
                 PROVE  FALSE
    BY Zenon
  <1>2. PICK n \in T : \A m \in T : ~(m < n)
    BY Zenon, <1>1, LeastExists
  <1>3. CASE n = 0
    <2>1. Turns(0, s, step, g, [m \in 0 .. 0 |-> g])
      BY DEF Turns
    <2> QED
      BY Zenon, <1>3, <2>1
  <1>4. CASE n # 0
    <2>1. n \in Nat /\ n > 0 /\ n - 1 \in Nat /\ n - 1 < n
      BY <1>4
    <2>2. \E x : Turns(n - 1, s, step, g, x)
      BY Zenon, <1>2, <2>1
    <2> QED
      BY Zenon, <2>1, <2>2, OneTurnMore
  <1> QED
    BY Zenon, <1>3, <1>4

LEMMA ForIs ==
    ASSUME NEW s, NEW step, NEW g, Len(s) \in Nat
    PROVE  \E x : Turns(Len(s), s, step, g, x) /\ For(s, step, g) = x[Len(s)]
  <1> DEFINE after[n \in 0 .. Len(s)] == IF n = 0 THEN g ELSE step[s[n]][after[n - 1]]
  <1>0. PICK x : Turns(Len(s), s, step, g, x)
    BY Zenon, TurnsExist
  <1>1. Turns(Len(s), s, step, g, after)
    BY Zenon, <1>0 DEF Turns
  <1>2. For(s, step, g) = after[Len(s)]
    BY Zenon DEF For
  <1> QED
    BY Zenon, <1>1, <1>2

LEMMA ForInduction ==
    ASSUME NEW s, Len(s) \in Nat, NEW step, NEW g, NEW I, g \in I[0],
           \A n \in 0 .. Len(s) - 1 : \A y \in I[n] : step[s[n + 1]][y] \in I[n + 1]
    PROVE  For(s, step, g) \in I[Len(s)]
  <1>1. PICK x : Turns(Len(s), s, step, g, x) /\ For(s, step, g) = x[Len(s)]
    BY Zenon, ForIs
  <1>2. \A n \in 0 .. Len(s) : x[n] = IF n = 0 THEN g ELSE step[s[n]][x[n - 1]]
    BY Zenon, <1>1 DEF Turns
  <1> DEFINE T == {n \in 0 .. Len(s) : x[n] \notin I[n]}
  <1>3. SUFFICES ASSUME T # {}
                 PROVE  FALSE
    <2>1. Len(s) \in 0 .. Len(s)
      OBVIOUS
    <2> QED
      BY Zenon, <1>1, <2>1
  <1>4. T \in SUBSET Nat
    OBVIOUS
  <1>5. PICK n \in T : \A m \in T : ~(m < n)
    BY Zenon, <1>3, <1>4, LeastExists
  <1>6. n # 0
    BY Zenon, <1>2, <1>5
  <1>7. /\ n - 1 \in 0 .. Len(s) - 1 /\ n - 1 \in 0 .. Len(s) /\ n - 1 < n
        /\ (n - 1) + 1 = n
    BY <1>6
  <1>8. x[n - 1] \in I[n - 1]
    BY Zenon, <1>5, <1>7
  <1>9. step[s[n]][x[n - 1]] \in I[n]
    BY Zenon, <1>7, <1>8
  <1> QED
    BY Zenon, <1>2, <1>6, <1>9

-----------------------------------------------------------------------------
(* The servers, and one turn of a loop. *)
LEMMA Servers ==
    /\ Cardinality(Srv) \in Nat /\ Len(all) = Cardinality(Srv)
    /\ \A n \in 1 .. Len(all) : all[n] = n - 1 /\ all[n] \in Srv
    /\ \A i \in Srv : i \in Nat /\ i < Len(all)
    /\ Range(all) = Srv
  <1>1. Cardinality(Srv) \in Nat
    BY GroupAssumption, FS_CardinalityType
  <1>2. Srv = 0 .. Cardinality(Srv) - 1
    BY Zenon, GroupAssumption
  <1>3. DOMAIN all = 1 .. Cardinality(Srv) /\ \A n \in 1 .. Cardinality(Srv) : all[n] = n - 1
    BY Zenon DEF all
  <1>4. \A n \in 1 .. Cardinality(Srv) : n - 1 \in 0 .. Cardinality(Srv) - 1
    BY <1>1
  <1>5. all \in Seq(Srv) /\ Len(all) = Cardinality(Srv)
    BY <1>1, <1>2, <1>4 DEF all
  <1>6. \A i \in 0 .. Cardinality(Srv) - 1 : i \in Nat /\ i < Cardinality(Srv)
            /\ i + 1 \in 1 .. Cardinality(Srv) /\ i = (i + 1) - 1
    BY <1>1
  <1>7. \A i \in Srv : \E n \in DOMAIN all : all[n] = i
    BY ZenonT(40), <1>2, <1>3, <1>6
  <1>8. \A n \in DOMAIN all : all[n] \in Srv
    BY Zenon, <1>2, <1>3, <1>4
  <1>9. Range(all) = Srv
    BY Zenon, <1>7, <1>8 DEF Range
  <1> QED
    BY Zenon, <1>1, <1>2, <1>3, <1>5, <1>6, <1>8, <1>9

LEMMA Made ==
    ASSUME NEW c \in SUBSET Srv, NEW e \in SUBSET (Srv \X Srv)
    PROVE  [connected |-> c, ends |-> e] \in Grp
  BY DEF Grp

LEMMA GrpIs ==
    ASSUME NEW x \in Grp
    PROVE  /\ x.connected \in SUBSET Srv /\ x.ends \in SUBSET (Srv \X Srv)
           /\ x = [connected |-> x.connected, ends |-> x.ends]
  BY DEF Grp

LEMMA EndsAre ==
    ASSUME NEW i \in Srv, NEW js \in SUBSET Srv
    PROVE  /\ Ends(i, js) \in SUBSET (Srv \X Srv)
           /\ \A k, l \in Srv :
                <<k, l>> \in Ends(i, js) <=> (k = i /\ l \in js) \/ (l = i /\ k \in js)
  BY DEF Ends

LEMMA Connected ==
    ASSUME NEW x \in Grp, NEW i \in Srv, NEW to, Range(to) \in SUBSET Srv
    PROVE  /\ connect(x, i, to) \in Grp
           /\ connect(x, i, to).connected = x.connected \cup {i}
           /\ \A k, l \in Srv :
                <<k, l>> \in connect(x, i, to).ends <=>
                    \/ <<k, l>> \in x.ends
                    \/ k = i /\ l \in Range(to) /\ l \in x.connected \cup {i}
                    \/ l = i /\ k \in Range(to) /\ k \in x.connected \cup {i}
  <1> DEFINE c == x.connected \cup {i}
             js == Range(to) \cap c
  <1>1. x.connected \in SUBSET Srv /\ x.ends \in SUBSET (Srv \X Srv)
    BY Zenon, GrpIs
  <1>2. connect(x, i, to) = [connected |-> c, ends |-> x.ends \cup Ends(i, js)]
    BY Zenon DEF connect
  <1>3. c \in SUBSET Srv /\ js \in SUBSET Srv
    BY Zenon, <1>1
  <1>8. \A k : /\ k \in js <=> k \in Range(to) /\ k \in x.connected \cup {i}
               /\ k \in c <=> k \in x.connected \cup {i}
    BY Zenon
  <1> HIDE DEF c, js
  <1>4. \A k, l \in Srv : <<k, l>> \in Ends(i, js) <=> (k = i /\ l \in js) \/ (l = i /\ k \in js)
    BY Zenon, <1>3, EndsAre
  <1>5. x.ends \cup Ends(i, js) \in SUBSET (Srv \X Srv)
    BY <1>1, <1>3, EndsAre
  <1>6. connect(x, i, to) \in Grp
    BY Zenon, <1>2, <1>3, <1>5, Made
  <1>7. connect(x, i, to).connected = c /\ connect(x, i, to).ends = x.ends \cup Ends(i, js)
    BY <1>2
  <1> QED
    BY Zenon, <1>4, <1>6, <1>7, <1>8

LEMMA Disconnected ==
    ASSUME NEW x \in Grp, NEW i \in Srv, NEW from, Range(from) \in SUBSET Srv
    PROVE  /\ disconnect(x, i, from) \in Grp
           /\ disconnect(x, i, from).connected = x.connected \ {i}
           /\ \A k, l \in Srv :
                <<k, l>> \in disconnect(x, i, from).ends <=>
                    /\ <<k, l>> \in x.ends
                    /\ ~(k = i /\ l \in Range(from)) /\ ~(l = i /\ k \in Range(from))
  <1>1. x.connected \in SUBSET Srv /\ x.ends \in SUBSET (Srv \X Srv)
    BY Zenon, GrpIs
  <1>2. disconnect(x, i, from) =
            [connected |-> x.connected \ {i}, ends |-> x.ends \ Ends(i, Range(from))]
    BY Zenon DEF disconnect
  <1>3. disconnect(x, i, from) \in Grp
    BY ZenonT(40), <1>1, <1>2, Made
  <1>4. /\ disconnect(x, i, from).connected = x.connected \ {i}
        /\ disconnect(x, i, from).ends = x.ends \ Ends(i, Range(from))
    BY <1>2
  <1> QED
    BY Zenon, <1>3, <1>4, EndsAre

LEMMA SamePairs ==
    ASSUME NEW A \in SUBSET (Srv \X Srv), NEW B \in SUBSET (Srv \X Srv),
           \A k, l \in Srv : <<k, l>> \in A <=> <<k, l>> \in B
    PROVE  A = B
  <1>1. \A e \in Srv \X Srv : \E k, l \in Srv : e = <<k, l>>
    OBVIOUS
  <1>2. ASSUME NEW e \in A PROVE e \in B
    <2>1. PICK k \in Srv, l \in Srv : e = <<k, l>>
      BY Zenon, <1>1
    <2> QED
      BY <2>1
  <1>3. ASSUME NEW e \in B PROVE e \in A
    <2>1. PICK k \in Srv, l \in Srv : e = <<k, l>>
      BY Zenon, <1>1
    <2> QED
      BY <2>1
  <1> QED
    BY Zenon, <1>2, <1>3

LEMMA SameGrp ==
    ASSUME NEW x \in Grp, NEW y \in Grp, x.connected = y.connected,
           \A k, l \in Srv : <<k, l>> \in x.ends <=> <<k, l>> \in y.ends
    PROVE  x = y
  <1>1. x.ends = y.ends
    <2>1. x.ends \in SUBSET (Srv \X Srv) /\ y.ends \in SUBSET (Srv \X Srv)
      BY Zenon, GrpIs
    <2> QED
      BY Zenon, <2>1, SamePairs
  <1> QED
    BY Zenon, <1>1, GrpIs

-----------------------------------------------------------------------------
(* What the loops of group.go do. *)

(* ConnectAll connects everything, whatever it starts from. *)
LEMMA ConnectAllIs ==
    ASSUME NEW g \in Grp
    PROVE  ConnectAll(g) = [connected |-> Srv, ends |-> Srv \X Srv]
  <1> DEFINE step == [i \in Srv |-> [x \in Grp |-> connect(x, i, all)]]
             P(n, x) == /\ \A i \in Srv : i < n => i \in x.connected
                        /\ \A i, j \in Srv : i < n /\ j < n => <<i, j>> \in x.ends
             I == [n \in 0 .. Len(all) |-> {x \in Grp : P(n, x)}]
  <1>0. Len(all) \in Nat /\ 0 \in 0 .. Len(all)
    BY Servers
  <1>1. g \in I[0]
    <2>1. \A i \in Srv : ~(i < 0)
      BY Servers
    <2> QED
      BY Zenon, <1>0, <2>1
  <1>2. ASSUME NEW n \in 0 .. Len(all) - 1, NEW y \in I[n]
        PROVE  step[all[n + 1]][y] \in I[n + 1]
    <2>1. /\ n \in 0 .. Len(all) /\ n + 1 \in 0 .. Len(all) /\ n + 1 \in 1 .. Len(all)
          /\ (n + 1) - 1 = n
      BY <1>0
    <2>2. all[n + 1] = n /\ n \in Srv
      BY Zenon, <2>1, Servers
    <2>3. /\ y \in Grp
          /\ \A i \in Srv : i < n => i \in y.connected
          /\ \A i, j \in Srv : i < n /\ j < n => <<i, j>> \in y.ends
      BY Zenon, <2>1
    <2>4. step[all[n + 1]][y] = connect(y, n, all)
      BY Zenon, <2>2, <2>3
    <2>5. \A i \in Srv : i < n + 1 => i < n \/ i = n
      BY <2>2, Servers
    <2>6. /\ connect(y, n, all) \in Grp
          /\ connect(y, n, all).connected = y.connected \cup {n}
          /\ \A k, l \in Srv :
                <<k, l>> \in connect(y, n, all).ends <=>
                    \/ <<k, l>> \in y.ends
                    \/ k = n /\ l \in Range(all) /\ l \in y.connected \cup {n}
                    \/ l = n /\ k \in Range(all) /\ k \in y.connected \cup {n}
      <3>1. Range(all) \in SUBSET Srv /\ n \in Srv
        BY Zenon, <2>2, Servers
      <3> HIDE DEF step, I, P
      <3> QED
        BY ZenonT(40), <2>3, <3>1, Connected
    <2>7. \A i \in Srv : i < n + 1 => i \in connect(y, n, all).connected
      BY Zenon, <2>3, <2>5, <2>6
    <2>8. \A i, j \in Srv : i < n + 1 /\ j < n + 1 => <<i, j>> \in connect(y, n, all).ends
      BY Zenon, <2>3, <2>5, <2>6, Servers
    <2>9. P(n + 1, connect(y, n, all))
      BY Zenon, <2>7, <2>8
    <2>10. I[n + 1] = {x \in Grp : P(n + 1, x)}
      BY Zenon, <2>1
    <2> HIDE DEF P, I, step
    <2> QED
      BY Zenon, <2>4, <2>6, <2>9, <2>10
  <1>3. For(all, step, g) \in I[Len(all)]
    <2> HIDE DEF step, I
    <2> QED
      BY Zenon, <1>0, <1>1, <1>2, ForInduction
  <1> DEFINE r == For(all, step, g)
  <1>4. /\ r \in Grp
        /\ \A i \in Srv : i < Len(all) => i \in r.connected
        /\ \A i, j \in Srv : i < Len(all) /\ j < Len(all) => <<i, j>> \in r.ends
    <2>1. Len(all) \in 0 .. Len(all)
      BY <1>0
    <2> QED
      BY Zenon, <1>3, <2>1
  <1>5. ConnectAll(g) = r
    BY Zenon DEF ConnectAll
  <1> HIDE DEF r
  <1>6. r.connected = Srv /\ r.ends = Srv \X Srv
    <2>1. \A k, l \in Srv : <<k, l>> \in r.ends <=> <<k, l>> \in Srv \X Srv
      BY Zenon, <1>4, Servers
    <2>2. r.connected \in SUBSET Srv /\ r.ends \in SUBSET (Srv \X Srv)
      BY Zenon, <1>4, GrpIs
    <2>4. r.ends = Srv \X Srv
      <3> DEFINE F == Srv \X Srv
      <3>1. /\ F \in SUBSET (Srv \X Srv)
            /\ \A k, l \in Srv : <<k, l>> \in r.ends <=> <<k, l>> \in F
        BY Zenon, <2>1
      <3> HIDE DEF F
      <3>2. r.ends = F
        BY Zenon, <2>2, <3>1, SamePairs
      <3> QED
        BY Zenon, <3>2 DEF F
    <2> QED
      BY Zenon, <1>4, <2>2, <2>4, Servers
  <1> QED
    BY ZenonT(40), <1>4, <1>5, <1>6, GrpIs

(* One turn of Partition's loops. *)
LEMMA HalfTurn ==
    ASSUME NEW x \in Grp, NEW i \in Srv, NEW to, Range(to) \in SUBSET Srv,
           NEW from, Range(from) \in SUBSET Srv
    PROVE  LET t == connect(disconnect(x, i, from), i, to)
           IN  /\ t \in Grp
               /\ t.connected = x.connected \cup {i}
               /\ \A k, l \in Srv :
                    <<k, l>> \in t.ends <=>
                        \/ /\ <<k, l>> \in x.ends
                           /\ ~(k = i /\ l \in Range(from)) /\ ~(l = i /\ k \in Range(from))
                        \/ k = i /\ l \in Range(to) /\ l \in x.connected \cup {i}
                        \/ l = i /\ k \in Range(to) /\ k \in x.connected \cup {i}
  <1> DEFINE d == disconnect(x, i, from)
             t == connect(d, i, to)
  <1>1. /\ d \in Grp
        /\ d.connected = x.connected \ {i}
        /\ \A k, l \in Srv :
             <<k, l>> \in d.ends <=>
                 /\ <<k, l>> \in x.ends
                 /\ ~(k = i /\ l \in Range(from)) /\ ~(l = i /\ k \in Range(from))
    BY Zenon, Disconnected
  <1> HIDE DEF d
  <1>0. d \in Grp
    BY Zenon, <1>1
  <1>2. /\ t \in Grp
        /\ t.connected = d.connected \cup {i}
        /\ \A k, l \in Srv :
             <<k, l>> \in t.ends <=>
                 \/ <<k, l>> \in d.ends
                 \/ k = i /\ l \in Range(to) /\ l \in d.connected \cup {i}
                 \/ l = i /\ k \in Range(to) /\ k \in d.connected \cup {i}
    BY ZenonT(40), <1>0, Connected
  <1>3. d.connected \cup {i} = x.connected \cup {i}
    BY Zenon, <1>1
  <1> HIDE DEF t
  <1>4. /\ t \in Grp
        /\ t.connected = x.connected \cup {i}
        /\ \A k, l \in Srv :
             <<k, l>> \in t.ends <=>
                 \/ /\ <<k, l>> \in x.ends
                    /\ ~(k = i /\ l \in Range(from)) /\ ~(l = i /\ k \in Range(from))
                 \/ k = i /\ l \in Range(to) /\ l \in x.connected \cup {i}
                 \/ l = i /\ k \in Range(to) /\ k \in x.connected \cup {i}
    BY Zenon, <1>1, <1>2, <1>3
  <1> QED
    BY Zenon, <1>4 DEF t, d

(* A half of a partition ends up connected within itself, cut off from the   *)
(* other half, and the ends within the other half are left alone.            *)
LEMMA HalfIs ==
    ASSUME NEW h \in Grp, NEW p \in Seq(Srv), NEW other, Range(other) = Srv \ Range(p)
    PROVE  LET r == Half(h, p, other)
           IN  /\ r \in Grp
               /\ h.connected \cup Range(p) \subseteq r.connected
               /\ \A k, l \in Range(p) : <<k, l>> \in r.ends
               /\ \A k \in Range(p), l \in Range(other) :
                    <<k, l>> \notin r.ends /\ <<l, k>> \notin r.ends
               /\ \A k, l \in Range(other) : <<k, l>> \in r.ends <=> <<k, l>> \in h.ends
  <1> DEFINE step == [i \in Srv |-> [x \in Grp |-> connect(disconnect(x, i, other), i, p)]]
             P(n, x) == /\ \A k \in h.connected : k \in x.connected
                        /\ \A a \in 1 .. n : p[a] \in x.connected
                        /\ \A a, b \in 1 .. n : <<p[a], p[b]>> \in x.ends
                        /\ \A a \in 1 .. n, l \in Range(other) :
                              <<p[a], l>> \notin x.ends /\ <<l, p[a]>> \notin x.ends
                        /\ \A k, l \in Range(other) : <<k, l>> \in x.ends <=> <<k, l>> \in h.ends
             I == [n \in 0 .. Len(p) |-> {x \in Grp : P(n, x)}]
  <1>0. /\ Len(p) \in Nat /\ 0 \in 0 .. Len(p) /\ Len(p) \in 0 .. Len(p)
        /\ \A a \in 1 .. 0 : FALSE
        /\ DOMAIN p = 1 .. Len(p) /\ \A a \in 1 .. Len(p) : p[a] \in Srv
    OBVIOUS
  <1>00. /\ Range(p) \in SUBSET Srv /\ Range(other) \in SUBSET Srv
         /\ \A a \in 1 .. Len(p) : p[a] \in Range(p) /\ p[a] \notin Range(other)
    BY Zenon, <1>0 DEF Range
  <1>1. h \in I[0]
    BY Zenon, <1>0
  <1>2. ASSUME NEW n \in 0 .. Len(p) - 1, NEW y \in I[n]
        PROVE  step[p[n + 1]][y] \in I[n + 1]
    <2>1. /\ n \in 0 .. Len(p) /\ n + 1 \in 0 .. Len(p) /\ n + 1 \in 1 .. Len(p)
          /\ \A a \in 1 .. n + 1 : a \in 1 .. n \/ a = n + 1
          /\ \A a \in 1 .. n + 1 : a \in 1 .. Len(p)
      BY <1>0
    <2>2. y \in Grp /\ P(n, y)
      BY Zenon, <2>1
    <2> DEFINE i == p[n + 1]
               t == connect(disconnect(y, i, other), i, p)
    <2>3. i \in Srv /\ i \in Range(p) /\ i \notin Range(other)
      BY Zenon, <1>0, <1>00, <2>1
    <2>4. step[i][y] = t
      BY Zenon, <2>2, <2>3
    <2> HIDE DEF i, step, I
    <2>5. /\ t \in Grp
          /\ t.connected = y.connected \cup {i}
          /\ \A k, l \in Srv :
               <<k, l>> \in t.ends <=>
                   \/ /\ <<k, l>> \in y.ends
                      /\ ~(k = i /\ l \in Range(other)) /\ ~(l = i /\ k \in Range(other))
                   \/ k = i /\ l \in Range(p) /\ l \in y.connected \cup {i}
                   \/ l = i /\ k \in Range(p) /\ k \in y.connected \cup {i}
      BY ZenonT(40), <1>00, <2>2, <2>3, HalfTurn
    <2> HIDE DEF t
    <2>6. \A a \in 1 .. n + 1 : a \in 1 .. n \/ p[a] = i
      BY Zenon, <2>1 DEF i
    <2>7. \A a \in 1 .. n + 1 : p[a] \in Srv /\ p[a] \in Range(p) /\ p[a] \notin Range(other)
      BY Zenon, <1>0, <1>00, <2>1
    <2>8. /\ \A k \in h.connected : k \in t.connected
          /\ \A a \in 1 .. n + 1 : p[a] \in t.connected
      BY Zenon, <2>2, <2>5, <2>6
    <2>9. \A a, b \in 1 .. n + 1 : <<p[a], p[b]>> \in t.ends
      BY Zenon, <2>2, <2>3, <2>5, <2>6, <2>7
    <2>10. \A a \in 1 .. n + 1, l \in Range(other) :
               <<p[a], l>> \notin t.ends /\ <<l, p[a]>> \notin t.ends
      BY Zenon, <1>00, <2>2, <2>3, <2>5, <2>6, <2>7
    <2>11. \A k, l \in Range(other) : <<k, l>> \in t.ends <=> <<k, l>> \in h.ends
      BY Zenon, <1>00, <2>2, <2>3, <2>5
    <2>12. P(n + 1, t)
      BY Zenon, <2>8, <2>9, <2>10, <2>11
    <2> HIDE DEF P
    <2>13. I[n + 1] = {x \in Grp : P(n + 1, x)}
      BY Zenon, <2>1 DEF I
    <2>14. t \in I[n + 1]
      BY Zenon, <2>5, <2>12, <2>13
    <2> QED
      BY Zenon, <2>4, <2>14 DEF i
  <1>3. For(p, step, h) \in I[Len(p)]
    <2> HIDE DEF step, I
    <2> QED
      BY Zenon, <1>0, <1>1, <1>2, ForInduction
  <1>4. Half(h, p, other) = For(p, step, h)
    BY Zenon DEF Half
  <1> DEFINE r == Half(h, p, other)
  <1> HIDE DEF step
  <1>5. r \in Grp /\ P(Len(p), r)
    BY Zenon, <1>0, <1>3, <1>4
  <1> HIDE DEF r
  <1>6. \A k \in Range(p) : \E a \in 1 .. Len(p) : p[a] = k
    BY Zenon, <1>0 DEF Range
  <1>7. h.connected \cup Range(p) \subseteq r.connected
    <2>1. /\ \A k \in h.connected : k \in r.connected
          /\ \A a \in 1 .. Len(p) : p[a] \in r.connected
      BY Zenon, <1>5
    <2> QED
      BY Zenon, <1>6, <2>1
  <1>8. \A k, l \in Range(p) : <<k, l>> \in r.ends
    <2> TAKE k, l \in Range(p)
    <2>1. PICK a \in 1 .. Len(p) : p[a] = k
      BY Zenon, <1>6
    <2>2. PICK b \in 1 .. Len(p) : p[b] = l
      BY Zenon, <1>6
    <2>3. <<p[a], p[b]>> \in r.ends
      BY Zenon, <1>5
    <2> QED
      BY Zenon, <2>1, <2>2, <2>3
  <1>9. \A k \in Range(p), l \in Range(other) :
             <<k, l>> \notin r.ends /\ <<l, k>> \notin r.ends
    BY Zenon, <1>5, <1>6
  <1> QED
    BY Zenon, <1>5, <1>7, <1>8, <1>9 DEF r

LEMMA TwoHalves ==
    ASSUME NEW p1, NEW p2
    PROVE  UNION {Range(h) \X Range(h) : h \in Range(<<p1, p2>>)}
               = (Range(p1) \X Range(p1)) \cup (Range(p2) \X Range(p2))
  <1>1. Range(<<p1, p2>>) = {p1, p2}
    BY DEF Range
  <1> QED
    BY Zenon, <1>1

(* Partition connects every server, and leaves just the ends within a half. *)
LEMMA PartitionIs ==
    ASSUME NEW g \in Grp, NEW p1 \in Seq(Srv), NEW p2 \in Seq(Srv),
           Range(p1) = Srv \ Range(p2)
    PROVE  LET r == Partition(g, p1, p2)
           IN  /\ r \in Grp
               /\ r.connected = Srv
               /\ r.ends = UNION {Range(h) \X Range(h) : h \in Range(<<p1, p2>>)}
  <1> DEFINE h == Half(g, p1, p2)
             r == Half(h, p2, p1)
             F == (Range(p1) \X Range(p1)) \cup (Range(p2) \X Range(p2))
  <1>0. /\ Range(p1) \in SUBSET Srv /\ Range(p2) \in SUBSET Srv
        /\ Range(p2) = Srv \ Range(p1)
    <2>1. \A q \in Seq(Srv) : DOMAIN q = 1 .. Len(q) /\ \A a \in 1 .. Len(q) : q[a] \in Srv
      OBVIOUS
    <2>2. Range(p1) \in SUBSET Srv /\ Range(p2) \in SUBSET Srv
      BY Zenon, <2>1 DEF Range
    <2> QED
      BY Zenon, <2>2
  <1>1. /\ h \in Grp
        /\ g.connected \cup Range(p1) \subseteq h.connected
        /\ \A k, l \in Range(p1) : <<k, l>> \in h.ends
        /\ \A k \in Range(p1), l \in Range(p2) :
             <<k, l>> \notin h.ends /\ <<l, k>> \notin h.ends
    BY Zenon, <1>0, HalfIs
  <1> HIDE DEF h
  <1>2. h \in Grp
    BY Zenon, <1>1
  <1>3. /\ r \in Grp
        /\ h.connected \cup Range(p2) \subseteq r.connected
        /\ \A k, l \in Range(p2) : <<k, l>> \in r.ends
        /\ \A k \in Range(p2), l \in Range(p1) :
             <<k, l>> \notin r.ends /\ <<l, k>> \notin r.ends
        /\ \A k, l \in Range(p1) : <<k, l>> \in r.ends <=> <<k, l>> \in h.ends
    BY Zenon, <1>2, HalfIs
  <1> HIDE DEF r
  <1>4. r.connected \in SUBSET Srv /\ r.ends \in SUBSET (Srv \X Srv)
    BY Zenon, <1>3, GrpIs
  <1>5. r.connected = Srv
    BY Zenon, <1>0, <1>1, <1>3, <1>4
  <1>6. \A k \in Srv : k \in Range(p1) <=> k \notin Range(p2)
    BY Zenon, <1>0
  <1>7. \A k, l : <<k, l>> \in F <=> \/ k \in Range(p1) /\ l \in Range(p1)
                                     \/ k \in Range(p2) /\ l \in Range(p2)
    BY Zenon
  <1>8. F \in SUBSET (Srv \X Srv)
    BY <1>0
  <1> HIDE DEF F
  <1>9. \A k, l \in Srv : <<k, l>> \in r.ends <=> <<k, l>> \in F
    BY Zenon, <1>1, <1>3, <1>6, <1>7
  <1>10. r.ends = F
    BY Zenon, <1>4, <1>8, <1>9, SamePairs
  <1>11. r = Partition(g, p1, p2)
    BY Zenon DEF Partition, h, r
  <1>12. F = UNION {Range(q) \X Range(q) : q \in Range(<<p1, p2>>)}
    BY Zenon, TwoHalves DEF F
  <1> QED
    BY Zenon, <1>3, <1>5, <1>10, <1>11, <1>12

(* A group whose ends are those its connected field says, and a turn of Kill. *)
LEMMA Precise ==
    ASSUME NEW x \in Grp
    PROVE  x.ends = x.connected \X x.connected <=>
               \A k, l \in Srv : <<k, l>> \in x.ends <=> k \in x.connected /\ l \in x.connected
  <1> DEFINE F == x.connected \X x.connected
  <1>1. \A k, l : <<k, l>> \in F <=> k \in x.connected /\ l \in x.connected
    BY Zenon
  <1>2. x.connected \in SUBSET Srv /\ x.ends \in SUBSET (Srv \X Srv)
    BY Zenon, GrpIs
  <1>3. F \in SUBSET (Srv \X Srv)
    BY <1>2
  <1> HIDE DEF F
  <1>4. x.ends = F => \A k, l \in Srv : <<k, l>> \in x.ends <=> k \in x.connected /\ l \in x.connected
    BY Zenon, <1>1
  <1>5. ASSUME \A k, l \in Srv : <<k, l>> \in x.ends <=> k \in x.connected /\ l \in x.connected
        PROVE  x.ends = F
    <2>1. \A k, l \in Srv : <<k, l>> \in x.ends <=> <<k, l>> \in F
      BY Zenon, <1>1, <1>5
    <2> QED
      BY Zenon, <1>2, <1>3, <2>1, SamePairs
  <1> QED
    BY Zenon, <1>4, <1>5 DEF F

(* Killing servers cuts just them off. *)
KillStep(servers) ==
    [i \in Srv |-> [x \in Grp |-> IF i \in servers THEN disconnect(x, i, all) ELSE x]]

LEMMA KillTurn ==
    ASSUME NEW x \in Grp, NEW i \in Srv, NEW servers \in SUBSET Srv
    PROVE  LET t == KillStep(servers)[i][x]
           IN  /\ t \in Grp
               /\ \A k \in Srv : k \in t.connected <=>
                      k \in x.connected /\ ~(k = i /\ k \in servers)
               /\ \A k, l \in Srv : <<k, l>> \in t.ends <=>
                      /\ <<k, l>> \in x.ends
                      /\ ~(k = i /\ k \in servers) /\ ~(l = i /\ l \in servers)
  <1> DEFINE t == KillStep(servers)[i][x]
             d == disconnect(x, i, all)
  <1>1. t = IF i \in servers THEN d ELSE x
    BY Zenon DEF KillStep
  <1> HIDE DEF t
  <1>2. Range(all) \in SUBSET Srv
    BY Zenon, Servers
  <1>3. /\ d \in Grp
        /\ d.connected = x.connected \ {i}
        /\ \A k, l \in Srv :
             <<k, l>> \in d.ends <=>
                 /\ <<k, l>> \in x.ends
                 /\ ~(k = i /\ l \in Range(all)) /\ ~(l = i /\ k \in Range(all))
    BY Zenon, <1>2, Disconnected
  <1> HIDE DEF d
  <1>4. CASE i \in servers
    <2>1. t = d
      BY Zenon, <1>1, <1>4
    <2>2. \A k \in Srv : k \in Range(all)
      BY Zenon, Servers
    <2>3. /\ \A k \in Srv : k \in d.connected <=> k \in x.connected /\ ~(k = i /\ k \in servers)
          /\ \A k, l \in Srv : <<k, l>> \in d.ends <=>
                 /\ <<k, l>> \in x.ends
                 /\ ~(k = i /\ k \in servers) /\ ~(l = i /\ l \in servers)
      BY Zenon, <1>3, <1>4, <2>2
    <2> QED
      BY Zenon, <1>3, <2>1, <2>3 DEF t
  <1>5. CASE i \notin servers
    <2>1. t = x
      BY Zenon, <1>1, <1>5
    <2> QED
      BY Zenon, <1>5, <2>1 DEF t
  <1> QED
    BY Zenon, <1>4, <1>5

LEMMA KillIs ==
    ASSUME NEW g \in Grp, NEW servers \in SUBSET Srv, g.ends = g.connected \X g.connected
    PROVE  LET r == For(all, KillStep(servers), g)
           IN  /\ r \in Grp
               /\ r.connected = g.connected \ servers
               /\ r.ends = r.connected \X r.connected
  <1> DEFINE step == KillStep(servers)
             P(n, x) == /\ \A k \in Srv : k \in x.connected <=>
                               k \in g.connected /\ ~(k < n /\ k \in servers)
                        /\ \A k, l \in Srv : <<k, l>> \in x.ends <=>
                               k \in x.connected /\ l \in x.connected
             I == [n \in 0 .. Len(all) |-> {x \in Grp : P(n, x)}]
  <1>0. /\ Len(all) \in Nat /\ 0 \in 0 .. Len(all) /\ Len(all) \in 0 .. Len(all)
        /\ \A k \in Srv : ~(k < 0)
    BY Servers
  <1>1. g \in I[0]
    <2>1. \A k, l \in Srv : <<k, l>> \in g.ends <=> k \in g.connected /\ l \in g.connected
      BY Zenon, Precise
    <2> QED
      BY Zenon, <1>0, <2>1
  <1>2. ASSUME NEW n \in 0 .. Len(all) - 1, NEW y \in I[n]
        PROVE  step[all[n + 1]][y] \in I[n + 1]
    <2>1. /\ n \in 0 .. Len(all) /\ n + 1 \in 0 .. Len(all) /\ n + 1 \in 1 .. Len(all)
          /\ (n + 1) - 1 = n
      BY <1>0
    <2>2. all[n + 1] = n
      BY Zenon, <2>1, Servers
    <2>3. n \in Srv
      BY ZenonT(40), <2>1, Servers
    <2>4. y \in Grp /\ P(n, y)
      BY Zenon, <2>1
    <2>5. \A k \in Srv : k < n + 1 <=> k < n \/ k = n
      BY <2>3, Servers
    <2> DEFINE t == step[n][y]
    <2> HIDE DEF I
    <2>6. /\ t \in Grp
          /\ \A k \in Srv : k \in t.connected <=>
                 k \in y.connected /\ ~(k = n /\ k \in servers)
          /\ \A k, l \in Srv : <<k, l>> \in t.ends <=>
                 /\ <<k, l>> \in y.ends
                 /\ ~(k = n /\ k \in servers) /\ ~(l = n /\ l \in servers)
      BY ZenonT(40), <2>3, <2>4, KillTurn
    <2> HIDE DEF t
    <2>7. \A k \in Srv : k \in t.connected <=> k \in g.connected /\ ~(k < n + 1 /\ k \in servers)
      BY Zenon, <2>4, <2>5, <2>6
    <2>8. \A k, l \in Srv : <<k, l>> \in t.ends <=> k \in t.connected /\ l \in t.connected
      BY Zenon, <2>4, <2>6
    <2>9. P(n + 1, t)
      BY Zenon, <2>7, <2>8
    <2>10. I[n + 1] = {x \in Grp : P(n + 1, x)}
      BY Zenon, <2>1 DEF I
    <2> HIDE DEF P
    <2>11. t \in I[n + 1]
      BY Zenon, <2>6, <2>9, <2>10
    <2> QED
      BY Zenon, <2>2, <2>11 DEF t
  <1>3. For(all, step, g) \in I[Len(all)]
    <2> HIDE DEF step, I
    <2> QED
      BY Zenon, <1>0, <1>1, <1>2, ForInduction
  <1> DEFINE r == For(all, step, g)
  <1>4. r \in Grp /\ P(Len(all), r)
    BY Zenon, <1>0, <1>3
  <1> HIDE DEF r
  <1>5. \A k \in Srv : k \in r.connected <=> k \in g.connected /\ k \notin servers
    BY Zenon, <1>4, Servers
  <1>6. r.connected = g.connected \ servers
    BY Zenon, <1>4, <1>5, GrpIs
  <1>7. r.ends = r.connected \X r.connected
    BY Zenon, <1>4, Precise
  <1> QED
    BY Zenon, <1>4, <1>6, <1>7 DEF r

LEMMA NewEnds ==
    ASSUME NEW x \in Grp, NEW e
    PROVE  [x EXCEPT !.ends = e] = [connected |-> x.connected, ends |-> e]
  BY DEF Grp

LEMMA StartedIs ==
    ASSUME NEW g \in Grp, NEW i \in Srv
    PROVE  /\ Started(g, i) \in Grp
           /\ Started(g, i).connected = g.connected
           /\ \A k, l \in Srv : <<k, l>> \in Started(g, i).ends <=> <<k, l>> \in g.ends /\ k # i
  <1>1. g.connected \in SUBSET Srv /\ g.ends \in SUBSET (Srv \X Srv)
    BY Zenon, GrpIs
  <1>2. Started(g, i) = [connected |-> g.connected, ends |-> g.ends \ ({i} \X Srv)]
    BY Zenon, NewEnds DEF Started
  <1>3. Started(g, i) \in Grp
    BY Zenon, <1>1, <1>2, Made
  <1>4. Started(g, i).connected = g.connected /\ Started(g, i).ends = g.ends \ ({i} \X Srv)
    BY <1>2
  <1> QED
    BY Zenon, <1>3, <1>4

LEMMA AllStarted ==
    ASSUME NEW g \in Grp
    PROVE  For(all, [i \in Srv |-> [x \in Grp |-> Started(x, i)]], g) \in Grp
  <1> DEFINE step == [i \in Srv |-> [x \in Grp |-> Started(x, i)]]
             I == [n \in 0 .. Len(all) |-> Grp]
  <1>0. Len(all) \in Nat /\ 0 \in 0 .. Len(all) /\ Len(all) \in 0 .. Len(all)
    BY Servers
  <1>1. g \in I[0]
    BY Zenon, <1>0
  <1>2. ASSUME NEW n \in 0 .. Len(all) - 1, NEW y \in I[n]
        PROVE  step[all[n + 1]][y] \in I[n + 1]
    <2>1. n \in 0 .. Len(all) /\ n + 1 \in 0 .. Len(all) /\ n + 1 \in 1 .. Len(all)
      BY <1>0
    <2>2. all[n + 1] \in Srv /\ y \in Grp
      BY Zenon, <2>1, Servers
    <2>3. step[all[n + 1]][y] = Started(y, all[n + 1])
      BY Zenon, <2>2
    <2>4. Started(y, all[n + 1]) \in Grp
      BY Zenon, <2>2, StartedIs
    <2>5. I[n + 1] = Grp
      BY Zenon, <2>1
    <2> HIDE DEF step, I
    <2> QED
      BY Zenon, <2>3, <2>4, <2>5
  <1>3. For(all, step, g) \in I[Len(all)]
    <2> HIDE DEF step, I
    <2> QED
      BY Zenon, <1>0, <1>1, <1>2, ForInduction
  <1> HIDE DEF step
  <1>4. For(all, step, g) \in Grp
    BY Zenon, <1>0, <1>3
  <1> QED
    BY Zenon, <1>4 DEF step

(* MakePartition deals every server out to just one half. *)
LEMMA MakePartitionIs ==
    ASSUME NEW l \in Srv
    PROVE  /\ MakePartition(l)[1] \in Seq(Srv) /\ MakePartition(l)[2] \in Seq(Srv)
           /\ Range(MakePartition(l)[1]) = Srv \ Range(MakePartition(l)[2])
  <1> DEFINE n == Cardinality(Srv)
             m == n \div 2
             other(j) == IF j <= l THEN j - 1 ELSE j
             p1 == [j \in 1 .. m + 1 |-> other(j)]
             p2 == [j \in 1 .. m |-> IF j = m THEN l ELSE other(m + 1 + j)]
  <1>1. n \in Nat /\ m \in Nat /\ n = 2 * m + 1 /\ m >= 1
    <2>1. n \in Nat /\ n % 2 = 1 /\ n > 1
      BY Zenon, Servers, GroupAssumption
    <2> HIDE DEF n
    <2> QED
      BY <2>1
  <1>2. Srv = 0 .. 2 * m
    BY <1>1, GroupAssumption
  <1>3. MakePartition(l)[1] = p1 /\ MakePartition(l)[2] = p2
    BY DEF MakePartition
  <1>4. l \in 0 .. 2 * m
    BY Zenon, <1>2
  <1> HIDE DEF n, m
  <1>5. \A j \in 1 .. 2 * m : other(j) \in 0 .. 2 * m /\ other(j) # l
    BY <1>1, <1>4
  <1>6. \A x \in 0 .. 2 * m : x # l => \E j \in 1 .. 2 * m : x = other(j)
    <2> TAKE x \in 0 .. 2 * m
    <2> HAVE x # l
    <2>1. CASE x < l
      <3>1. x + 1 \in 1 .. 2 * m /\ other(x + 1) = x
        BY <1>1, <1>4, <2>1
      <3> QED
        BY Zenon, <3>1
    <2>2. CASE ~(x < l)
      <3>1. x \in 1 .. 2 * m /\ other(x) = x
        BY <1>1, <1>4, <2>2
      <3> QED
        BY Zenon, <3>1
    <2> QED
      BY Zenon, <2>1, <2>2
  <1>7. \A j, k \in 1 .. 2 * m : other(j) = other(k) => j = k
    BY <1>1, <1>4
  <1>8. /\ \A j \in 1 .. m + 1 : j \in 1 .. 2 * m
        /\ \A j \in 1 .. m : j # m => m + 1 + j \in 1 .. 2 * m /\ m + 1 + j \notin 1 .. m + 1
        /\ \A j \in 1 .. 2 * m : j \notin 1 .. m + 1 =>
                j - (m + 1) \in 1 .. m /\ j - (m + 1) # m /\ m + 1 + (j - (m + 1)) = j
        /\ m \in 1 .. m
    BY <1>1
  <1> HIDE DEF other
  <1>9. DOMAIN p1 = 1 .. m + 1 /\ \A j \in 1 .. m + 1 : p1[j] = other(j)
    BY Zenon
  <1>10. DOMAIN p2 = 1 .. m /\ \A j \in 1 .. m : p2[j] = IF j = m THEN l ELSE other(m + 1 + j)
    BY Zenon
  <1>11. p1 \in [1 .. m + 1 -> Srv]
    BY Zenon, <1>2, <1>5, <1>8
  <1>12. p2 \in [1 .. m -> Srv]
    BY Zenon, <1>2, <1>4, <1>5, <1>8
  <1> HIDE DEF p1, p2
  <1>13. p1 \in Seq(Srv) /\ p2 \in Seq(Srv)
    <2>1. m + 1 \in Nat
      BY <1>1
    <2> QED
      BY <1>1, <1>11, <1>12, <2>1
  <1>14. ASSUME NEW x \in Srv PROVE x \in Range(p1) <=> x \notin Range(p2)
    <2>1. CASE x = l
      <3>1. x \in Range(p2)
        BY Zenon, <1>8, <1>10, <2>1 DEF Range
      <3>2. x \notin Range(p1)
        BY ZenonT(40), <1>5, <1>8, <1>9, <2>1 DEF Range
      <3> QED
        BY Zenon, <3>1, <3>2
    <2>2. CASE x # l
      <3>1. PICK j \in 1 .. 2 * m : x = other(j)
        BY Zenon, <1>2, <1>6, <2>2
      <3>2. CASE j \in 1 .. m + 1
        <4>1. x \in Range(p1)
          BY Zenon, <1>9, <3>1, <3>2 DEF Range
        <4>2. ASSUME NEW k \in 1 .. m PROVE p2[k] # x
          <5>1. CASE k = m
            BY Zenon, <1>10, <2>2, <5>1
          <5>2. CASE k # m
            <6>1. m + 1 + k \in 1 .. 2 * m /\ m + 1 + k # j
              BY Zenon, <1>8, <3>2, <5>2
            <6>2. p2[k] = other(m + 1 + k)
              BY Zenon, <1>10, <5>2
            <6> QED
              BY Zenon, <1>7, <3>1, <6>1, <6>2
          <5> QED
            BY Zenon, <5>1, <5>2
        <4> QED
          BY Zenon, <1>10, <4>1, <4>2 DEF Range
      <3>3. CASE j \notin 1 .. m + 1
        <4>1. x \notin Range(p1)
          <5>1. ASSUME NEW i \in 1 .. m + 1 PROVE p1[i] # x
            <6>1. i \in 1 .. 2 * m /\ i # j
              BY Zenon, <1>8, <3>3
            <6>2. p1[i] = other(i)
              BY Zenon, <1>9
            <6> QED
              BY Zenon, <1>7, <3>1, <6>1, <6>2
          <5> QED
            BY Zenon, <1>9, <5>1 DEF Range
        <4> DEFINE k == j - (m + 1)
        <4>2. k \in 1 .. m /\ k # m /\ m + 1 + k = j
          BY Zenon, <1>8, <3>3
        <4> HIDE DEF k
        <4>3. p2[k] = x
          BY Zenon, <1>10, <3>1, <4>2
        <4> QED
          BY Zenon, <1>10, <4>1, <4>2, <4>3 DEF Range
      <3> QED
        BY Zenon, <3>2, <3>3
    <2> QED
      BY Zenon, <2>1, <2>2
  <1>15. Range(p1) \subseteq Srv
    BY Zenon, <1>9, <1>11 DEF Range
  <1>16. Range(p1) = Srv \ Range(p2)
    BY Zenon, <1>14, <1>15
  <1> QED
    BY Zenon, <1>3, <1>13, <1>16

-----------------------------------------------------------------------------
(* The clients' ends. *)

Clients == [ends : SUBSET Srv, enabled : SUBSET Srv,
            srvs : {All} \cup SUBSET Srv, there : BOOLEAN]

Reaches(r) == r.enabled = {s \in r.ends : r.srvs = All \/ s \in r.srvs}

ClientsOK == clnt \in [Clnt -> Clients] /\ ClientReach

LEMMA ClientMade ==
    ASSUME NEW e \in SUBSET Srv, NEW n \in SUBSET Srv, NEW s \in {All} \cup SUBSET Srv,
           NEW b \in BOOLEAN
    PROVE  LET r == [ends |-> e, enabled |-> n, srvs |-> s, there |-> b]
           IN  /\ r \in Clients
               /\ r.ends = e /\ r.enabled = n /\ r.srvs = s
  BY DEF Clients

LEMMA ClientStart ==
    ASSUME Init
    PROVE  ClientsOK
  <1> DEFINE First == {[ends |-> {}, enabled |-> {}, srvs |-> s, there |-> TRUE] :
                         s \in {All} \cup SUBSET Srv}
  <1>1. ASSUME NEW r \in First PROVE r \in Clients /\ r.enabled = {} /\ r.ends = {}
    <2>1. PICK s \in {All} \cup SUBSET Srv :
              r = [ends |-> {}, enabled |-> {}, srvs |-> s, there |-> TRUE]
      BY Zenon
    <2> QED
      BY Zenon, <2>1, ClientMade
  <1>3. clnt \in [Clnt -> First]
    BY Zenon DEF Init
  <1> HIDE DEF First
  <1>2. \A c \in Clnt : clnt[c] \in Clients /\ clnt[c].enabled = {} /\ clnt[c].ends = {}
    BY Zenon, <1>1, <1>3
  <1>4. clnt \in [Clnt -> Clients]
    BY Zenon, <1>1, <1>3
  <1>5. ClientReach
    BY Zenon, <1>2 DEF ClientReach
  <1> QED
    BY Zenon, <1>4, <1>5 DEF ClientsOK

LEMMA ClientChanged ==
    ASSUME ClientsOK, NEW c \in Clnt, NEW new \in Clients, Reaches(new), Change(c, new)
    PROVE  ClientsOK'
  <1>1. clnt' = [clnt EXCEPT ![c] = new]
    BY Zenon DEF Change
  <1>2. clnt' \in [Clnt -> Clients]
    BY Zenon, <1>1 DEF ClientsOK
  <1>3. \A d \in Clnt : clnt'[d] = IF d = c THEN new ELSE clnt[d]
    BY Zenon, <1>1 DEF ClientsOK
  <1>4. \A d \in Clnt : Reaches(clnt[d])
    BY Zenon DEF ClientsOK, ClientReach, Reaches, allowedL
  <1>5. \A d \in Clnt : Reaches(clnt'[d])
    BY Zenon, <1>3, <1>4
  <1>6. ClientReach'
    BY Zenon, <1>5 DEF ClientReach, Reaches, allowedL
  <1> QED
    BY Zenon, <1>2, <1>6 DEF ClientsOK

LEMMA ClientRecord ==
    ASSUME NEW r \in Clients
    PROVE  /\ r.ends \in SUBSET Srv /\ r.enabled \in SUBSET Srv
           /\ r.srvs \in {All} \cup SUBSET Srv /\ r.there \in BOOLEAN
           /\ r = [ends |-> r.ends, enabled |-> r.enabled, srvs |-> r.srvs, there |-> r.there]
  BY DEF Clients

LEMMA ClientEnds ==
    ASSUME NEW r \in Clients, NEW e, NEW n
    PROVE  [r EXCEPT !.ends = e, !.enabled = n]
               = [ends |-> e, enabled |-> n, srvs |-> r.srvs, there |-> r.there]
  <1> DEFINE x == [ends |-> e, enabled |-> r.enabled, srvs |-> r.srvs, there |-> r.there]
  <1>1. r = [ends |-> r.ends, enabled |-> r.enabled, srvs |-> r.srvs, there |-> r.there]
    BY Zenon, ClientRecord
  <1>2. [r EXCEPT !.ends = e, !.enabled = n] = [[r EXCEPT !.ends = e] EXCEPT !.enabled = n]
    BY <1>1
  <1>3. [r EXCEPT !.ends = e] = x
    BY <1>1
  <1>4. [x EXCEPT !.enabled = n]
            = [ends |-> e, enabled |-> n, srvs |-> r.srvs, there |-> r.there]
    OBVIOUS
  <1> HIDE DEF x
  <1> QED
    BY Zenon, <1>2, <1>3, <1>4

LEMMA ClientSrvs ==
    ASSUME NEW r \in Clients, NEW n, NEW s
    PROVE  [r EXCEPT !.enabled = n, !.srvs = s]
               = [ends |-> r.ends, enabled |-> n, srvs |-> s, there |-> r.there]
  <1> DEFINE x == [ends |-> r.ends, enabled |-> n, srvs |-> r.srvs, there |-> r.there]
  <1>1. r = [ends |-> r.ends, enabled |-> r.enabled, srvs |-> r.srvs, there |-> r.there]
    BY Zenon, ClientRecord
  <1>2. [r EXCEPT !.enabled = n, !.srvs = s] = [[r EXCEPT !.enabled = n] EXCEPT !.srvs = s]
    BY <1>1
  <1>3. [r EXCEPT !.enabled = n] = x
    BY <1>1
  <1>4. [x EXCEPT !.srvs = s]
            = [ends |-> r.ends, enabled |-> n, srvs |-> s, there |-> r.there]
    OBVIOUS
  <1> HIDE DEF x
  <1> QED
    BY Zenon, <1>2, <1>3, <1>4

LEMMA ClientSteps ==
    ASSUME ClientsOK, NEW c \in Clnt,
           \/ ClntConnectAll(c) \/ ClntDisconnectAll(c) \/ DeleteClient(c)
           \/ \E s \in Srv : makeEnd(c, s)
    PROVE  ClientsOK'
  <1> DEFINE r == clnt[c]
  <1>1. r \in Clients /\ Reaches(r)
    BY Zenon DEF ClientsOK, ClientReach, Reaches, allowedL
  <1>2. /\ r.ends \in SUBSET Srv /\ r.enabled \in SUBSET Srv
        /\ r.srvs \in {All} \cup SUBSET Srv /\ r.there \in BOOLEAN
    BY Zenon, <1>1, ClientRecord
  <1>3. {} \in {All} \cup SUBSET Srv /\ All \in {All} \cup SUBSET Srv /\ {} \in SUBSET Srv
        /\ All # {}
    BY Zenon, GroupAssumption
  <1>4. CASE ClntConnectAll(c)
    <2> DEFINE n == [ends |-> r.ends, enabled |-> r.ends, srvs |-> All, there |-> r.there]
    <2>1. Change(c, n)
      <3>1. n = [clnt[c] EXCEPT !.enabled = clnt[c].ends, !.srvs = All]
        BY Zenon, <1>1, ClientSrvs
      <3> HIDE DEF n
      <3> QED
        BY Zenon, <1>4, <3>1 DEF ClntConnectAll
    <2>2. n \in Clients /\ n.ends = r.ends /\ n.enabled = r.ends /\ n.srvs = All
      BY Zenon, <1>2, <1>3, ClientMade
    <2> HIDE DEF n
    <2>3. Reaches(n)
      BY Zenon, <2>2 DEF Reaches
    <2> QED
      BY Zenon, <2>1, <2>2, <2>3, ClientChanged
  <1>5. CASE ClntDisconnectAll(c)
    <2> DEFINE n == [ends |-> r.ends, enabled |-> {}, srvs |-> {}, there |-> r.there]
    <2>1. Change(c, n)
      <3>1. n = [clnt[c] EXCEPT !.enabled = {}, !.srvs = {}]
        BY Zenon, <1>1, ClientSrvs
      <3> HIDE DEF n
      <3> QED
        BY Zenon, <1>5, <3>1 DEF ClntDisconnectAll
    <2>2. n \in Clients /\ n.ends = r.ends /\ n.enabled = {} /\ n.srvs = {}
      BY Zenon, <1>2, <1>3, ClientMade
    <2> HIDE DEF n
    <2>3. Reaches(n)
      BY Zenon, <1>3, <2>2 DEF Reaches
    <2> QED
      BY Zenon, <2>1, <2>2, <2>3, ClientChanged
  <1>6. CASE DeleteClient(c)
    <2>1. Change(c, remove)
      BY Zenon, <1>6 DEF DeleteClient
    <2>2. remove \in Clients /\ remove.ends = {} /\ remove.enabled = {} /\ remove.srvs = All
      BY Zenon, <1>3, ClientMade DEF remove
    <2>3. Reaches(remove)
      BY Zenon, <2>2 DEF Reaches
    <2> QED
      BY Zenon, <2>1, <2>2, <2>3, ClientChanged
  <1>7. ASSUME NEW s \in Srv, makeEnd(c, s) PROVE ClientsOK'
    <2> DEFINE e == r.ends \cup {s}
               on == IF allowedL(c, s) THEN r.enabled \cup {s} ELSE r.enabled
               n == [ends |-> e, enabled |-> on, srvs |-> r.srvs, there |-> r.there]
    <2>1. Change(c, n)
      <3>1. n = [clnt[c] EXCEPT !.ends = e, !.enabled = on]
        BY Zenon, <1>1, ClientEnds
      <3> HIDE DEF n
      <3> QED
        BY Zenon, <1>7, <3>1 DEF makeEnd
    <2>2. e \in SUBSET Srv /\ on \in SUBSET Srv
      BY Zenon, <1>2
    <2>3. \A k : /\ k \in e <=> k \in r.ends \/ k = s
                 /\ k \in on <=> k \in r.enabled
                                 \/ (k = s /\ (r.srvs = All \/ s \in r.srvs))
      BY Zenon DEF allowedL
    <2> HIDE DEF e, on
    <2>4. n \in Clients /\ n.ends = e /\ n.enabled = on /\ n.srvs = r.srvs
      BY Zenon, <1>2, <2>2, ClientMade
    <2> HIDE DEF n
    <2>5. \A k : k \in r.enabled <=> k \in r.ends /\ (r.srvs = All \/ k \in r.srvs)
      BY Zenon, <1>1 DEF Reaches
    <2>6. \A k : k \in on <=> k \in e /\ (r.srvs = All \/ k \in r.srvs)
      BY Zenon, <2>3, <2>5
    <2>7. Reaches(n)
      BY Zenon, <2>4, <2>6 DEF Reaches
    <2> QED
      BY Zenon, <2>1, <2>4, <2>7, ClientChanged
  <1> QED
    BY Zenon, <1>4, <1>5, <1>6, <1>7

-----------------------------------------------------------------------------
(* The ends between the servers. *)

WiredOK ==
    /\ grp \in Grp
    /\ alive \subseteq Srv
    /\ halves \in {<<>>} \cup (Seq(Srv) \X Seq(Srv))
    /\ Wired

LEMMA ConnectPrecise ==
    ASSUME NEW x \in Grp, x.ends = x.connected \X x.connected, NEW i \in Srv
    PROVE  LET t == connect(x, i, all)
           IN  /\ t \in Grp
               /\ t.connected = x.connected \cup {i}
               /\ t.ends = t.connected \X t.connected
  <1> DEFINE t == connect(x, i, all)
  <1>1. Range(all) \in SUBSET Srv /\ \A k \in Srv : k \in Range(all)
    BY Zenon, Servers
  <1>2. /\ t \in Grp
        /\ t.connected = x.connected \cup {i}
        /\ \A k, l \in Srv :
             <<k, l>> \in t.ends <=>
                 \/ <<k, l>> \in x.ends
                 \/ k = i /\ l \in Range(all) /\ l \in x.connected \cup {i}
                 \/ l = i /\ k \in Range(all) /\ k \in x.connected \cup {i}
    BY Zenon, <1>1, Connected
  <1> HIDE DEF t
  <1>3. \A k, l \in Srv : <<k, l>> \in x.ends <=> k \in x.connected /\ l \in x.connected
    BY Zenon, Precise
  <1>4. \A k : k \in t.connected <=> k \in x.connected \/ k = i
    BY Zenon, <1>2
  <1>5. \A k, l \in Srv : <<k, l>> \in t.ends <=> k \in t.connected /\ l \in t.connected
    BY ZenonT(40), <1>1, <1>2, <1>3, <1>4
  <1>6. t.ends = t.connected \X t.connected
    BY Zenon, <1>2, <1>5, Precise
  <1> QED
    BY Zenon, <1>2, <1>6 DEF t

LEMMA DisconnectPrecise ==
    ASSUME NEW x \in Grp, x.ends = x.connected \X x.connected, NEW i \in Srv
    PROVE  LET t == disconnect(x, i, all)
           IN  /\ t \in Grp
               /\ t.connected = x.connected \ {i}
               /\ t.ends = t.connected \X t.connected
  <1> DEFINE t == disconnect(x, i, all)
  <1>1. Range(all) \in SUBSET Srv /\ \A k \in Srv : k \in Range(all)
    BY Zenon, Servers
  <1>2. /\ t \in Grp
        /\ t.connected = x.connected \ {i}
        /\ \A k, l \in Srv :
             <<k, l>> \in t.ends <=>
                 /\ <<k, l>> \in x.ends
                 /\ ~(k = i /\ l \in Range(all)) /\ ~(l = i /\ k \in Range(all))
    BY Zenon, <1>1, Disconnected
  <1> HIDE DEF t
  <1>3. \A k, l \in Srv : <<k, l>> \in x.ends <=> k \in x.connected /\ l \in x.connected
    BY Zenon, Precise
  <1>4. \A k : k \in t.connected <=> k \in x.connected /\ k # i
    BY Zenon, <1>2
  <1>5. \A k, l \in Srv : <<k, l>> \in t.ends <=> k \in t.connected /\ l \in t.connected
    BY Zenon, <1>1, <1>2, <1>3, <1>4
  <1>6. t.ends = t.connected \X t.connected
    BY Zenon, <1>2, <1>5, Precise
  <1> QED
    BY Zenon, <1>2, <1>6 DEF t

LEMMA StartedPrecise ==
    ASSUME NEW x \in Grp, x.ends = x.connected \X x.connected, NEW i \in Srv,
           i \notin x.connected
    PROVE  LET t == Started(x, i)
           IN  /\ t \in Grp
               /\ t.connected = x.connected
               /\ t.ends = t.connected \X t.connected
  <1> DEFINE t == Started(x, i)
  <1>1. /\ t \in Grp
        /\ t.connected = x.connected
        /\ \A k, l \in Srv : <<k, l>> \in t.ends <=> <<k, l>> \in x.ends /\ k # i
    BY Zenon, StartedIs
  <1> HIDE DEF t
  <1>2. \A k, l \in Srv : <<k, l>> \in x.ends <=> k \in x.connected /\ l \in x.connected
    BY Zenon, Precise
  <1>3. \A k, l \in Srv : <<k, l>> \in t.ends <=> k \in t.connected /\ l \in t.connected
    BY Zenon, <1>1, <1>2
  <1>4. t.ends = t.connected \X t.connected
    BY Zenon, <1>1, <1>3, Precise
  <1> QED
    BY Zenon, <1>1, <1>4 DEF t

(* How Wired is established by a step that leaves no partition, or makes one. *)
LEMMA WholeWired ==
    ASSUME halves' = <<>>, grp' \in Grp, alive' \subseteq Srv,
           grp'.connected \subseteq alive', grp'.ends = grp'.connected \X grp'.connected
    PROVE  WiredOK'
  BY Zenon DEF WiredOK, Wired, ConnectedIsPrecise, PartitionIsExact

LEMMA SplitWired ==
    ASSUME NEW p1 \in Seq(Srv), NEW p2 \in Seq(Srv), Range(p1) = Srv \ Range(p2),
           halves' = <<p1, p2>>, alive' = Srv, grp' \in Grp, grp'.connected = Srv,
           grp'.ends = UNION {Range(h) \X Range(h) : h \in Range(<<p1, p2>>)}
    PROVE  WiredOK'
  <1>1. /\ <<p1, p2>> # <<>> /\ <<p1, p2>>[1] = p1 /\ <<p1, p2>>[2] = p2
        /\ <<p1, p2>> \in Seq(Srv) \X Seq(Srv)
    OBVIOUS
  <1> DEFINE hs == <<p1, p2>>
  <1>2. hs # <<>> /\ hs[1] = p1 /\ hs[2] = p2 /\ hs \in Seq(Srv) \X Seq(Srv) /\ halves' = hs
        /\ grp'.ends = UNION {Range(h) \X Range(h) : h \in Range(hs)}
    BY Zenon, <1>1
  <1> HIDE DEF hs
  <1>3. PartitionIsExact' /\ ConnectedIsPrecise'
    BY Zenon, <1>2 DEF PartitionIsExact, ConnectedIsPrecise
  <1>4. grp'.connected \subseteq alive' /\ Range(halves'[1]) = Srv \ Range(halves'[2])
    BY Zenon, <1>2
  <1>5. Wired'
    BY Zenon, <1>3, <1>4 DEF Wired
  <1>6. halves' \in {<<>>} \cup (Seq(Srv) \X Seq(Srv)) /\ alive' \subseteq Srv
    BY Zenon, <1>2
  <1> QED
    BY Zenon, <1>5, <1>6 DEF WiredOK

LEMMA Whole ==
    ASSUME WiredOK, halves = <<>>
    PROVE  /\ grp \in Grp /\ alive \subseteq Srv /\ grp.connected \subseteq alive
           /\ grp.ends = grp.connected \X grp.connected
  BY Zenon DEF WiredOK, Wired, ConnectedIsPrecise

LEMMA Down ==
    ASSUME WiredOK, alive # Srv
    PROVE  halves = <<>>
  BY Zenon DEF WiredOK, Wired

-----------------------------------------------------------------------------
(* The annotations. *)

Info == [connected : SUBSET Srv, crashed : SUBSET Srv]

LEMMA InfoIs ==
    ASSUME NEW f \in Info
    PROVE  /\ f.connected \in SUBSET Srv /\ f.crashed \in SUBSET Srv
           /\ \A c \in SUBSET Srv :
                 /\ [f EXCEPT !.connected = c] \in Info
                 /\ [f EXCEPT !.connected = c].connected = c
                 /\ [f EXCEPT !.connected = c].crashed = f.crashed
           /\ \A c \in SUBSET Srv :
                 /\ [f EXCEPT !.crashed = c] \in Info
                 /\ [f EXCEPT !.crashed = c].crashed = c
                 /\ [f EXCEPT !.crashed = c].connected = f.connected
  BY DEF Info

LEMMA FirstInfo ==
    /\ mkFrameworkInfo \in Info
    /\ mkFrameworkInfo.connected = Srv /\ mkFrameworkInfo.crashed = {}
  BY DEF Info, mkFrameworkInfo

LEMMA PictureMade ==
    ASSUME NEW parts \in SUBSET SUBSET Srv, NEW crashed \in SUBSET Srv, NEW b \in BOOLEAN
    PROVE  LET p == [parts |-> parts, crashed |-> crashed, ongoing |-> b]
           IN  p \in Picture /\ p.parts = parts /\ p.crashed = crashed
  BY DEF Picture

LEMMA NoFailureIs ==
    NoFailure \in Picture /\ NoFailure.parts = {Srv} /\ NoFailure.crashed = {}
  <1>1. {Srv} \in SUBSET SUBSET Srv /\ {} \in SUBSET Srv /\ FALSE \in BOOLEAN
    BY Zenon
  <1> QED
    BY Zenon, <1>1, PictureMade DEF NoFailure

LEMMA ShownIs ==
    ASSUME NEW f \in Info
    PROVE  /\ Shown(f) \in Picture
           /\ f = mkFrameworkInfo => Shown(f) = NoFailure
           /\ f # mkFrameworkInfo =>
                /\ Shown(f).parts = {{i} : i \in Srv \ (f.connected \cup f.crashed)}
                                        \cup ({f.connected \ f.crashed} \ {{}})
                /\ Shown(f).crashed = f.crashed
  <1> DEFINE parts == {{i} : i \in Srv \ (f.connected \cup f.crashed)}
                          \cup ({f.connected \ f.crashed} \ {{}})
  <1>1. f.connected \in SUBSET Srv /\ f.crashed \in SUBSET Srv
    BY Zenon, InfoIs
  <1>2. parts \in SUBSET SUBSET Srv
    BY Zenon, <1>1
  <1>3. CASE f = mkFrameworkInfo
    <2>1. Shown(f) = NoFailure
      BY Zenon, <1>3 DEF Shown
    <2> QED
      BY Zenon, <1>3, <2>1, NoFailureIs
  <1>4. CASE f # mkFrameworkInfo
    <2>1. Shown(f) = [parts |-> parts, crashed |-> f.crashed, ongoing |-> TRUE]
      BY Zenon, <1>4 DEF Shown
    <2> HIDE DEF parts
    <2>2. TRUE \in BOOLEAN
      BY Zenon
    <2>3. Shown(f) \in Picture /\ Shown(f).parts = parts /\ Shown(f).crashed = f.crashed
      <3> DEFINE p == [parts |-> parts, crashed |-> f.crashed, ongoing |-> TRUE]
      <3>1. p \in Picture /\ p.parts = parts /\ p.crashed = f.crashed
        BY Zenon, <1>1, <1>2, <2>2, PictureMade
      <3> HIDE DEF p
      <3> QED
        BY Zenon, <2>1, <3>1 DEF p
    <2> QED
      BY Zenon, <1>4, <2>3 DEF parts
  <1> QED
    BY Zenon, <1>3, <1>4

LEMMA FaultShown ==
    ASSUME NEW f, annotateFault(f)
    PROVE  continuous' = Shown(f)
  <1>1. CASE f = mkFrameworkInfo
    BY Zenon, <1>1 DEF annotateFault, annotateContinuousEnd, Shown
  <1>2. CASE f # mkFrameworkInfo
    BY Zenon, <1>2 DEF annotateFault, annotateContinuousColor, Shown
  <1> QED
    BY Zenon, <1>1, <1>2

(* After either call the annotation shows what was just reported. *)
LEMMA ConnectionShown ==
    ASSUME finfo \in Info, continuous = Shown(finfo), NEW c \in SUBSET Srv,
           AnnotateConnection(c)
    PROVE  /\ finfo' \in Info /\ continuous' = Shown(finfo')
           /\ finfo'.connected = c /\ finfo'.crashed = finfo.crashed
  <1>1. CASE finfo.connected = c
    <2>1. finfo' = finfo /\ continuous' = continuous
      BY Zenon, <1>1 DEF AnnotateConnection
    <2> QED
      BY Zenon, <1>1, <2>1
  <1>2. CASE finfo.connected # c
    <2>1. finfo' = [finfo EXCEPT !.connected = c] /\ annotateFault(finfo')
      BY Zenon, <1>2 DEF AnnotateConnection
    <2> QED
      BY ZenonT(40), <2>1, InfoIs, FaultShown
  <1> QED
    BY Zenon, <1>1, <1>2

LEMMA CrashesShown ==
    ASSUME finfo \in Info, continuous = Shown(finfo), NEW c \in SUBSET Srv,
           AnnotateCrashes(c)
    PROVE  finfo' \in Info /\ continuous' = Shown(finfo') /\ finfo'.crashed = c
  <1>1. CASE finfo.crashed = c
    <2>1. finfo' = finfo /\ continuous' = continuous
      BY Zenon, <1>1 DEF AnnotateCrashes
    <2> QED
      BY Zenon, <1>1, <2>1
  <1>2. CASE finfo.crashed # c
    <2>1. finfo' = [finfo EXCEPT !.crashed = c] /\ annotateFault(finfo')
      BY Zenon, <1>2 DEF AnnotateCrashes
    <2> QED
      BY ZenonT(40), <2>1, InfoIs, FaultShown
  <1> QED
    BY Zenon, <1>1, <1>2

(* The calls that may follow. *)
LEMMA Calls ==
    ASSUME NEW x, NEW y
    PROVE  /\ <<x>> # <<>> /\ <<x, y>> # <<>>
           /\ Head(<<x>>) = x /\ Tail(<<x>>) = <<>>
           /\ Head(<<x, y>>) = x /\ Tail(<<x, y>>) = <<y>>
  OBVIOUS

LEMMA Called ==
    ASSUME NEW call, NEW servers
    PROVE  Then(call, servers).call = call /\ Then(call, servers).servers = servers
  BY DEF Then

LEMMA Idle ==
    ASSUME Reported, todo = <<>>, halves = <<>>
    PROVE  continuous = Shown(finfo) /\ finfo.crashed = Srv \ alive
  BY Zenon, Calls DEF Reported

-----------------------------------------------------------------------------
(* The invariant, in the parts the proof keeps apart. *)

Parts == WiredOK /\ AnnotationTypeOK /\ Reported /\ ClientsOK

LEMMA InvIsParts == GroupInv <=> Parts
  BY Zenon DEF GroupInv, Parts, TypeOK, WiredOK, ClientsOK, Clients

(* What an operation leaves alone. *)
LEMMA Begun ==
    ASSUME Parts, NEW g, NEW calls, Begin(g, calls)
    PROVE  /\ todo = <<>> /\ grp' = g /\ todo' = calls
           /\ finfo' = finfo /\ continuous' = continuous
           /\ AnnotationTypeOK' /\ ClientsOK'
  <1>1. /\ todo = <<>> /\ grp' = g /\ todo' = calls
        /\ finfo' = finfo /\ continuous' = continuous /\ clnt' = clnt
    BY Zenon DEF Begin, annVars
  <1>2. AnnotationTypeOK'
    BY Zenon, <1>1 DEF Parts, AnnotationTypeOK
  <1>3. ClientsOK'
    BY Zenon, <1>1 DEF Parts, ClientsOK, ClientReach, allowedL
  <1> QED
    BY Zenon, <1>1, <1>2, <1>3

(* An operation of a group without partitions, and what is left to report. *)
LEMMA WholeBegun ==
    ASSUME Parts, NEW g, NEW calls, Begin(g, calls), halves = <<>>, halves' = <<>>,
           WiredOK',
           \/ calls = <<Then("AnnotateConnection", {})>> /\ alive' = alive
           \/ \E s \in SUBSET Srv :
                calls = <<Then("AnnotateShutdown", s)>> /\ s \subseteq alive /\ alive' = alive \ s
           \/ \E i \in Srv :
                /\ calls = <<Then("AnnotateRestart", {i}), Then("ConnectOne", {i})>>
                /\ alive' = alive \cup {i}
           \/ calls = <<Then("AnnotateRestart", Srv)>> /\ alive' = Srv
    PROVE  Parts'
  <1>1. /\ todo = <<>> /\ todo' = calls
        /\ finfo' = finfo /\ continuous' = continuous
        /\ AnnotationTypeOK' /\ ClientsOK'
    BY Zenon, Begun
  <1>2. continuous = Shown(finfo) /\ finfo.crashed = Srv \ alive
    BY Zenon, <1>1, Idle DEF Parts
  <1>3. continuous' = Shown(finfo')
    BY Zenon, <1>1, <1>2
  <1>4. alive \subseteq Srv
    BY Zenon DEF Parts, WiredOK
  <1>5. Reported'
    <2>1. CASE calls = <<Then("AnnotateConnection", {})>> /\ alive' = alive
      <3>1. finfo'.crashed = Srv \ alive' /\ todo' \in {<<>>, <<Then("AnnotateConnection", {})>>}
        BY Zenon, <1>1, <1>2, <2>1
      <3> QED
        BY Zenon, <1>3, <3>1 DEF Reported
    <2>2. ASSUME NEW s \in SUBSET Srv, calls = <<Then("AnnotateShutdown", s)>>,
                 s \subseteq alive, alive' = alive \ s
          PROVE  Reported'
      <3>1. finfo'.crashed \cup s = Srv \ alive'
        BY Zenon, <1>1, <1>2, <2>2
      <3>2. todo' = <<Then("AnnotateShutdown", s)>>
        BY Zenon, <1>1, <2>2
      <3> QED
        BY Zenon, <1>3, <3>1, <3>2 DEF Reported
    <2>3. ASSUME NEW i \in Srv, alive' = alive \cup {i},
                 calls = <<Then("AnnotateRestart", {i}), Then("ConnectOne", {i})>>
          PROVE  Reported'
      <3>1. finfo'.crashed \ {i} = Srv \ alive' /\ i \in alive'
        BY Zenon, <1>1, <1>2, <2>3
      <3>2. todo' = <<Then("AnnotateRestart", {i}), Then("ConnectOne", {i})>>
        BY Zenon, <1>1, <2>3
      <3> QED
        BY Zenon, <1>3, <3>1, <3>2 DEF Reported
    <2>4. CASE calls = <<Then("AnnotateRestart", Srv)>> /\ alive' = Srv
      <3>1. todo' = <<Then("AnnotateRestart", Srv)>> /\ alive' = Srv
        BY Zenon, <1>1, <2>4
      <3> QED
        BY Zenon, <1>3, <3>1 DEF Reported
    <2> QED
      BY Zenon, <2>1, <2>2, <2>3, <2>4
  <1> QED
    BY Zenon, <1>1, <1>5 DEF Parts

LEMMA DisconnectStep ==
    ASSUME Parts, NEW i \in Srv, DisconnectOp(i)
    PROVE  Parts'
  <1> DEFINE t == disconnect(grp, i, all)
  <1>1. /\ halves = <<>> /\ halves' = <<>> /\ alive' = alive
        /\ Begin(t, <<Then("AnnotateConnection", {})>>)
    BY Zenon DEF DisconnectOp
  <1>2. /\ grp \in Grp /\ alive \subseteq Srv /\ grp.connected \subseteq alive
        /\ grp.ends = grp.connected \X grp.connected
    BY Zenon, <1>1, Whole DEF Parts
  <1>3. t \in Grp /\ t.connected = grp.connected \ {i} /\ t.ends = t.connected \X t.connected
    BY Zenon, <1>2, DisconnectPrecise
  <1> HIDE DEF t
  <1>4. grp' = t
    BY Zenon, <1>1, Begun
  <1>5. grp'.connected \subseteq alive'
    BY Zenon, <1>1, <1>2, <1>3, <1>4
  <1>6. WiredOK'
    BY Zenon, <1>1, <1>2, <1>3, <1>4, <1>5, WholeWired
  <1> QED
    BY Zenon, <1>1, <1>6, WholeBegun

LEMMA ConnectStep ==
    ASSUME Parts, NEW i \in Srv, ConnectOp(i)
    PROVE  Parts'
  <1> DEFINE t == connect(grp, i, all)
  <1>1. /\ halves = <<>> /\ halves' = <<>> /\ alive' = alive /\ i \in alive
        /\ Begin(t, <<Then("AnnotateConnection", {})>>)
    BY Zenon DEF ConnectOp
  <1>2. /\ grp \in Grp /\ alive \subseteq Srv /\ grp.connected \subseteq alive
        /\ grp.ends = grp.connected \X grp.connected
    BY Zenon, <1>1, Whole DEF Parts
  <1>3. t \in Grp /\ t.connected = grp.connected \cup {i} /\ t.ends = t.connected \X t.connected
    BY Zenon, <1>2, ConnectPrecise
  <1> HIDE DEF t
  <1>4. grp' = t
    BY Zenon, <1>1, Begun
  <1>5. grp'.connected \subseteq alive'
    BY Zenon, <1>1, <1>2, <1>3, <1>4
  <1>6. WiredOK'
    BY ZenonT(40), <1>1, <1>2, <1>3, <1>4, <1>5, WholeWired
  <1> QED
    BY Zenon, <1>1, <1>6, WholeBegun

LEMMA KillAction ==
    ASSUME Parts, NEW servers \in SUBSET Srv, Kill(servers)
    PROVE  Parts'
  <1> DEFINE t == For(all, KillStep(servers), grp)
  <1>1. /\ halves = <<>> /\ halves' = <<>> /\ servers \subseteq alive
        /\ alive' = alive \ servers
        /\ Begin(t, <<Then("AnnotateShutdown", servers)>>)
    BY Zenon DEF Kill, KillStep
  <1>2. /\ grp \in Grp /\ alive \subseteq Srv /\ grp.connected \subseteq alive
        /\ grp.ends = grp.connected \X grp.connected
    BY Zenon, <1>1, Whole DEF Parts
  <1>3. t \in Grp /\ t.connected = grp.connected \ servers /\ t.ends = t.connected \X t.connected
    BY Zenon, <1>2, KillIs
  <1> HIDE DEF t
  <1>4. grp' = t
    BY Zenon, <1>1, Begun
  <1>5. grp'.connected \subseteq alive' /\ alive' \subseteq Srv
    BY Zenon, <1>1, <1>2, <1>3, <1>4
  <1>6. WiredOK'
    BY Zenon, <1>1, <1>3, <1>4, <1>5, WholeWired
  <1> QED
    BY Zenon, <1>1, <1>6, WholeBegun

LEMMA RestartStep ==
    ASSUME Parts, NEW i \in Srv, RestartOp(i)
    PROVE  Parts'
  <1> DEFINE t == Started(grp, i)
             calls == <<Then("AnnotateRestart", {i}), Then("ConnectOne", {i})>>
  <1>1. /\ i \notin alive /\ halves' = halves /\ alive' = alive \cup {i}
        /\ Begin(t, calls)
    BY Zenon DEF RestartOp
  <1>2. halves = <<>>
    BY Zenon, <1>1, Down DEF Parts
  <1>3. /\ grp \in Grp /\ alive \subseteq Srv /\ grp.connected \subseteq alive
        /\ grp.ends = grp.connected \X grp.connected
    BY Zenon, <1>2, Whole DEF Parts
  <1>4. i \notin grp.connected
    BY Zenon, <1>1, <1>3
  <1>5. t \in Grp /\ t.connected = grp.connected /\ t.ends = t.connected \X t.connected
    BY Zenon, <1>3, <1>4, StartedPrecise
  <1> HIDE DEF t
  <1>6. grp' = t
    BY Zenon, <1>1, Begun
  <1>7. grp'.connected \subseteq alive' /\ alive' \subseteq Srv /\ halves' = <<>>
    BY Zenon, <1>1, <1>2, <1>3, <1>5, <1>6
  <1>8. WiredOK'
    BY ZenonT(40), <1>5, <1>6, <1>7, WholeWired
  <1>9. Begin(t, <<Then("AnnotateRestart", {i}), Then("ConnectOne", {i})>>)
    BY Zenon, <1>1
  <1> QED
    BY ZenonT(40), <1>1, <1>2, <1>7, <1>8, <1>9, WholeBegun

LEMMA RestartAllStep ==
    ASSUME Parts, RestartAllOp
    PROVE  Parts'
  <1> DEFINE x == For(all, [i \in Srv |-> [y \in Grp |-> Started(y, i)]], grp)
             t == ConnectAll(x)
             full == [connected |-> Srv, ends |-> Srv \X Srv]
  <1>1. /\ alive = {} /\ halves' = halves /\ alive' = Srv
        /\ Begin(t, <<Then("AnnotateRestart", Srv)>>)
    BY Zenon DEF RestartAllOp
  <1>2. alive # Srv
    <2>1. 0 \in Srv
      BY Servers, GroupAssumption
    <2> QED
      BY Zenon, <1>1, <2>1
  <1>3. halves = <<>>
    BY Zenon, <1>2, Down DEF Parts
  <1>4. grp \in Grp
    BY Zenon DEF Parts, WiredOK
  <1>5. x \in Grp
    BY Zenon, <1>4, AllStarted
  <1> HIDE DEF x
  <1>6. t = full
    BY Zenon, <1>5, ConnectAllIs
  <1> HIDE DEF t
  <1>7. full \in Grp /\ full.connected = Srv /\ full.ends = full.connected \X full.connected
    BY DEF Grp
  <1> HIDE DEF full
  <1>8. grp' = full
    BY Zenon, <1>1, <1>6, Begun
  <1>9. grp'.connected \subseteq alive' /\ alive' \subseteq Srv /\ halves' = <<>>
    BY Zenon, <1>1, <1>3, <1>7, <1>8
  <1>10. WiredOK'
    BY Zenon, <1>7, <1>8, <1>9, WholeWired
  <1> QED
    BY Zenon, <1>1, <1>3, <1>9, <1>10, WholeBegun

LEMMA PartitionStep ==
    ASSUME Parts, NEW p1 \in Seq(Srv), NEW p2 \in Seq(Srv), Range(p1) = Srv \ Range(p2),
           PartitionOp(p1, p2)
    PROVE  Parts'
  <1> DEFINE t == Partition(grp, p1, p2)
  <1>1. /\ alive = Srv /\ alive' = alive /\ halves' = <<p1, p2>>
        /\ Begin(t, <<Then("AnnotateTwoPartitions", {})>>)
    BY Zenon DEF PartitionOp
  <1>2. grp \in Grp
    BY Zenon DEF Parts, WiredOK
  <1>3. /\ t \in Grp /\ t.connected = Srv
        /\ t.ends = UNION {Range(h) \X Range(h) : h \in Range(<<p1, p2>>)}
    BY ZenonT(40), <1>2, PartitionIs
  <1> HIDE DEF t
  <1>4. /\ grp' = t /\ todo' = <<Then("AnnotateTwoPartitions", {})>>
        /\ AnnotationTypeOK' /\ ClientsOK'
    BY Zenon, <1>1, Begun
  <1>5. /\ grp' \in Grp /\ grp'.connected = Srv /\ alive' = Srv
        /\ grp'.ends = UNION {Range(h) \X Range(h) : h \in Range(<<p1, p2>>)}
    BY Zenon, <1>1, <1>3, <1>4
  <1>6. WiredOK'
    BY Zenon, <1>1, <1>5, SplitWired
  <1>7. halves' # <<>>
    BY Zenon, <1>1, Calls
  <1>8. Reported'
    BY Zenon, <1>4, <1>7 DEF Reported
  <1> QED
    BY Zenon, <1>4, <1>6, <1>8 DEF Parts

LEMMA PartitionerStep ==
    ASSUME Parts, PartitionerOp
    PROVE  Parts'
  <1>1. PICK p1 \in Increasing, p2 \in Increasing :
            Range(p1) = Srv \ Range(p2) /\ PartitionOp(p1, p2)
    BY Zenon DEF PartitionerOp
  <1>2. ASSUME NEW p \in Increasing PROVE p \in Seq(Srv)
    <2>1. PICK m \in 0 .. Cardinality(Srv) : p \in [1 .. m -> Srv]
      BY Zenon DEF Increasing
    <2>2. m \in Nat
      BY Servers
    <2> QED
      BY <2>1, <2>2
  <1>3. p1 \in Seq(Srv) /\ p2 \in Seq(Srv)
    BY Zenon, <1>2
  <1> QED
    BY Zenon, <1>1, <1>3, PartitionStep

LEMMA PartitionLeaderStep ==
    ASSUME Parts, NEW l \in Srv, PartitionLeaderOp(l)
    PROVE  Parts'
  <1> DEFINE p1 == MakePartition(l)[1]
             p2 == MakePartition(l)[2]
  <1>1. PartitionOp(p1, p2)
    BY Zenon DEF PartitionLeaderOp
  <1>2. p1 \in Seq(Srv) /\ p2 \in Seq(Srv) /\ Range(p1) = Srv \ Range(p2)
    BY Zenon, MakePartitionIs
  <1> HIDE DEF p1, p2
  <1> QED
    BY Zenon, <1>1, <1>2, PartitionStep

(* The end of a partition: everything is connected, and is about to be so reported. *)
LEMMA FailureOver ==
    ASSUME Parts, NEW t \in Grp, Begin(t, <<Then("AnnotateClearFailure", {})>>),
           t.connected = Srv, t.ends = t.connected \X t.connected,
           halves' = <<>>, alive = Srv, alive' = Srv
    PROVE  Parts'
  <1>1. /\ grp' = t /\ todo' = <<Then("AnnotateClearFailure", {})>>
        /\ AnnotationTypeOK' /\ ClientsOK'
    BY Zenon, Begun
  <1>2. grp' \in Grp /\ grp'.connected \subseteq alive' /\ alive' \subseteq Srv
        /\ grp'.ends = grp'.connected \X grp'.connected
    BY Zenon, <1>1
  <1>3. WiredOK'
    BY Zenon, <1>2, WholeWired
  <1>4. Reported'
    BY Zenon, <1>1 DEF Reported
  <1> QED
    BY Zenon, <1>1, <1>3, <1>4 DEF Parts

LEMMA ConnectAllStep ==
    ASSUME Parts, ConnectAllOp
    PROVE  Parts'
  <1> DEFINE t == ConnectAll(grp)
             full == [connected |-> Srv, ends |-> Srv \X Srv]
  <1>1. /\ alive = Srv /\ alive' = alive /\ halves' = <<>>
        /\ Begin(t, <<Then("AnnotateClearFailure", {})>>)
    BY Zenon DEF ConnectAllOp
  <1>2. grp \in Grp
    BY Zenon DEF Parts, WiredOK
  <1>3. t = full
    BY Zenon, <1>2, ConnectAllIs
  <1> HIDE DEF t
  <1>4. full \in Grp /\ full.connected = Srv /\ full.ends = full.connected \X full.connected
    BY DEF Grp
  <1> HIDE DEF full
  <1>5. t \in Grp /\ t.connected = Srv /\ t.ends = t.connected \X t.connected
    BY Zenon, <1>3, <1>4
  <1> QED
    BY Zenon, <1>1, <1>5, FailureOver

(* The partition in force, and the ends it leaves. *)
LEMMA Split ==
    ASSUME WiredOK, halves # <<>>
    PROVE  /\ halves[1] \in Seq(Srv) /\ halves[2] \in Seq(Srv)
           /\ alive = Srv /\ grp \in Grp /\ grp.connected = Srv
           /\ Range(halves[1]) \in SUBSET Srv /\ Range(halves[2]) \in SUBSET Srv
           /\ \A k \in Srv : k \in Range(halves[1]) <=> k \notin Range(halves[2])
           /\ \A k, l \in Srv : <<k, l>> \in grp.ends <=>
                \/ k \in Range(halves[1]) /\ l \in Range(halves[1])
                \/ k \in Range(halves[2]) /\ l \in Range(halves[2])
  <1> DEFINE p1 == halves[1]
             p2 == halves[2]
  <1>1. halves \in Seq(Srv) \X Seq(Srv)
    BY Zenon DEF WiredOK
  <1>2. halves = <<p1, p2>> /\ p1 \in Seq(Srv) /\ p2 \in Seq(Srv)
    BY <1>1
  <1>3. /\ alive = Srv /\ grp \in Grp /\ grp.connected = Srv
        /\ Range(p1) = Srv \ Range(p2)
        /\ grp.ends = UNION {Range(h) \X Range(h) : h \in Range(halves)}
    BY Zenon DEF WiredOK, Wired, PartitionIsExact
  <1> HIDE DEF p1, p2
  <1>4. \A q \in Seq(Srv) : DOMAIN q = 1 .. Len(q) /\ \A a \in 1 .. Len(q) : q[a] \in Srv
    OBVIOUS
  <1>5. Range(p1) \in SUBSET Srv /\ Range(p2) \in SUBSET Srv
    BY Zenon, <1>2, <1>4 DEF Range
  <1>6. grp.ends = (Range(p1) \X Range(p1)) \cup (Range(p2) \X Range(p2))
    <2>1. grp.ends = UNION {Range(h) \X Range(h) : h \in Range(<<p1, p2>>)}
      BY Zenon, <1>2, <1>3
    <2> QED
      BY Zenon, <2>1, TwoHalves
  <1>7. \A k, l : <<k, l>> \in grp.ends <=>
            \/ k \in Range(p1) /\ l \in Range(p1)
            \/ k \in Range(p2) /\ l \in Range(p2)
    BY Zenon, <1>6
  <1>8. \A k \in Srv : k \in Range(p1) <=> k \notin Range(p2)
    BY Zenon, <1>3
  <1> QED
    BY ZenonT(40), <1>2, <1>3, <1>5, <1>7, <1>8 DEF p1, p2

LEMMA ReconnectLeaderStep ==
    ASSUME Parts, ReconnectLeaderOp
    PROVE  Parts'
  <1> DEFINE i == halves[2][1]
             t == connect(grp, i, all)
  <1>1. /\ halves # <<>> /\ Len(halves[2]) = 1
        /\ halves' = <<>> /\ alive' = alive
        /\ Begin(t, <<Then("AnnotateClearFailure", {})>>)
    BY Zenon DEF ReconnectLeaderOp
  <1>2. /\ halves[1] \in Seq(Srv) /\ halves[2] \in Seq(Srv)
        /\ alive = Srv /\ grp \in Grp /\ grp.connected = Srv
        /\ \A k \in Srv : k \in Range(halves[1]) <=> k \notin Range(halves[2])
        /\ \A k, l \in Srv : <<k, l>> \in grp.ends <=>
             \/ k \in Range(halves[1]) /\ l \in Range(halves[1])
             \/ k \in Range(halves[2]) /\ l \in Range(halves[2])
    BY Zenon, <1>1, Split DEF Parts
  <1>3. i \in Srv /\ \A k \in Range(halves[2]) : k = i
    <2>1. DOMAIN halves[2] = {1} /\ halves[2][1] \in Srv
      BY <1>1, <1>2
    <2> QED
      BY Zenon, <2>1 DEF Range
  <1> HIDE DEF i
  <1>4. Range(all) \in SUBSET Srv /\ \A k \in Srv : k \in Range(all)
    BY Zenon, Servers
  <1>5. grp \in Grp
    BY Zenon, <1>2
  <1>6. i \in Srv
    BY Zenon, <1>3
  <1>7. /\ t \in Grp
        /\ t.connected = grp.connected \cup {i}
        /\ \A k, l \in Srv :
             <<k, l>> \in t.ends <=>
                 \/ <<k, l>> \in grp.ends
                 \/ k = i /\ l \in Range(all) /\ l \in grp.connected \cup {i}
                 \/ l = i /\ k \in Range(all) /\ k \in grp.connected \cup {i}
    BY ZenonT(40), <1>4, <1>5, <1>6, Connected
  <1> HIDE DEF t
  <1>8. t.connected = Srv /\ \A k \in Srv : k \in grp.connected \cup {i}
    <2>1. grp.connected = Srv /\ t.connected = grp.connected \cup {i}
      BY Zenon, <1>2, <1>7
    <2> QED
      BY Zenon, <1>6, <2>1
  <1>9. \A k, l \in Srv : <<k, l>> \in t.ends <=> k \in t.connected /\ l \in t.connected
    <2> TAKE k, l \in Srv
    <2>1. CASE k = i \/ l = i
      BY Zenon, <1>4, <1>7, <1>8, <2>1
    <2>2. CASE k # i /\ l # i
      <3>1. k \in Range(halves[1]) /\ l \in Range(halves[1])
        BY Zenon, <1>2, <1>3, <2>2
      <3>2. <<k, l>> \in grp.ends
        BY Zenon, <1>2, <3>1
      <3> QED
        BY Zenon, <1>7, <1>8, <3>2
    <2> QED
      BY Zenon, <2>1, <2>2
  <1>10. t.ends = t.connected \X t.connected
    BY Zenon, <1>7, <1>9, Precise
  <1>11. alive = Srv /\ alive' = Srv
    BY Zenon, <1>1, <1>2
  <1> QED
    BY ZenonT(40), <1>1, <1>7, <1>8, <1>10, <1>11, FailureOver

(* Follow, by the call that is due. *)
LEMMA FollowIs ==
    ASSUME Follow, NEW call, NEW servers, Head(todo) = Then(call, servers)
    PROVE  /\ todo' = Tail(todo) /\ alive' = alive /\ halves' = halves /\ clnt' = clnt
           /\ call = "AnnotateConnection" => AnnotateConnection(grp.connected) /\ grp' = grp
           /\ call = "AnnotateShutdown" => AnnotateShutdown(servers) /\ grp' = grp
           /\ call = "AnnotateRestart" => AnnotateRestart(servers) /\ grp' = grp
           /\ call = "AnnotateTwoPartitions" =>
                AnnotateTwoPartitions(halves[1], halves[2]) /\ grp' = grp
           /\ call = "AnnotateClearFailure" => AnnotateClearFailure /\ grp' = grp
           /\ call = "ConnectOne" =>
                /\ finfo' = finfo /\ continuous' = continuous
                /\ grp' = connect(grp, CHOOSE i \in servers : TRUE, all)
  <1>1. Head(todo).call = call /\ Head(todo).servers = servers
    BY ZenonT(40), Called
  <1>2. todo' = Tail(todo) /\ alive' = alive /\ halves' = halves /\ clnt' = clnt
    BY Zenon DEF Follow
  <1> DEFINE c == Head(todo).call
             srvs == Head(todo).servers
  <1>3. /\ CASE c = "AnnotateConnection" -> AnnotateConnection(grp.connected)
              [] c = "AnnotateShutdown" -> AnnotateShutdown(srvs)
              [] c = "AnnotateRestart" -> AnnotateRestart(srvs)
              [] c = "AnnotateTwoPartitions" -> AnnotateTwoPartitions(halves[1], halves[2])
              [] c = "AnnotateClearFailure" -> AnnotateClearFailure
              [] c = "ConnectOne" -> UNCHANGED annVars
        /\ grp' = IF c = "ConnectOne"
                  THEN connect(grp, CHOOSE i \in srvs : TRUE, all) ELSE grp
    BY Zenon DEF Follow
  <1>0. c = call /\ srvs = servers
    BY Zenon, <1>1
  <1> HIDE DEF c, srvs
  <1>4. ASSUME call = "AnnotateConnection" PROVE AnnotateConnection(grp.connected) /\ grp' = grp
    BY Zenon, <1>0, <1>3, <1>4
  <1>5. ASSUME call = "AnnotateShutdown" PROVE AnnotateShutdown(servers) /\ grp' = grp
    BY Zenon, <1>0, <1>3, <1>5
  <1>6. ASSUME call = "AnnotateRestart" PROVE AnnotateRestart(servers) /\ grp' = grp
    BY Zenon, <1>0, <1>3, <1>6
  <1>7. ASSUME call = "AnnotateTwoPartitions"
        PROVE  AnnotateTwoPartitions(halves[1], halves[2]) /\ grp' = grp
    BY Zenon, <1>0, <1>3, <1>7
  <1>8. ASSUME call = "AnnotateClearFailure" PROVE AnnotateClearFailure /\ grp' = grp
    BY Zenon, <1>0, <1>3, <1>8
  <1>9. ASSUME call = "ConnectOne"
        PROVE  /\ finfo' = finfo /\ continuous' = continuous
               /\ grp' = connect(grp, CHOOSE i \in servers : TRUE, all)
    BY Zenon, <1>0, <1>3, <1>9 DEF annVars
  <1> QED
    BY ZenonT(40), <1>2, <1>4, <1>5, <1>6, <1>7, <1>8, <1>9

LEMMA SameClients ==
    ASSUME ClientsOK, clnt' = clnt
    PROVE  ClientsOK'
  BY Zenon DEF ClientsOK, ClientReach, allowedL

LEMMA SameWired ==
    ASSUME WiredOK, grp' = grp, alive' = alive, halves' = halves
    PROVE  WiredOK'
  BY Zenon DEF WiredOK, Wired, ConnectedIsPrecise, PartitionIsExact

LEMMA Annotated ==
    ASSUME finfo' \in Info, continuous' \in Picture
    PROVE  AnnotationTypeOK'
  BY Zenon DEF AnnotationTypeOK, Info

(* The call is a report of connections, of a crash or of a restart. *)
LEMMA ReportStep ==
    ASSUME Parts, halves = <<>>, halves' = halves, alive' = alive, clnt' = clnt, grp' = grp,
           finfo' \in Info, continuous' = Shown(finfo'), finfo'.crashed = Srv \ alive,
           \/ todo' = <<>>
           \/ \E i \in alive : todo' = <<Then("ConnectOne", {i})>>
    PROVE  Parts'
  <1>1. WiredOK' /\ ClientsOK'
    BY Zenon, SameWired, SameClients DEF Parts
  <1>2. AnnotationTypeOK'
    BY Zenon, ShownIs, Annotated
  <1>3. halves' = <<>> /\ finfo'.crashed = Srv \ alive'
    BY Zenon
  <1>4. \/ todo' \in {<<>>, <<Then("AnnotateConnection", {})>>}
        \/ \E i \in alive' : todo' = <<Then("ConnectOne", {i})>>
    BY Zenon
  <1>5. Reported'
    BY Zenon, <1>3, <1>4 DEF Reported
  <1> QED
    BY Zenon, <1>1, <1>2, <1>5 DEF Parts

LEMMA FollowTwoPartitions ==
    ASSUME Parts, Follow, todo = <<Then("AnnotateTwoPartitions", {})>>, halves # <<>>
    PROVE  Parts'
  <1>1. Head(todo) = Then("AnnotateTwoPartitions", {}) /\ Tail(todo) = <<>>
    BY Zenon, Calls
  <1>2. /\ todo' = <<>> /\ alive' = alive /\ halves' = halves /\ clnt' = clnt
        /\ AnnotateTwoPartitions(halves[1], halves[2]) /\ grp' = grp
    BY Zenon, <1>1, FollowIs
  <1> DEFINE parts == {Range(halves[1]), Range(halves[2])} \ {{}}
  <1>3. /\ continuous' = [parts |-> parts, crashed |-> {}, ongoing |-> TRUE]
        /\ finfo' = finfo
    BY Zenon, <1>2 DEF AnnotateTwoPartitions, annotateContinuousColor
  <1>4. parts \in SUBSET SUBSET Srv /\ {} \in SUBSET Srv /\ TRUE \in BOOLEAN
    BY Zenon, Split DEF Parts
  <1>5. continuous' \in Picture /\ finfo' \in Info
    <2> HIDE DEF parts
    <2>1. [parts |-> parts, crashed |-> {}, ongoing |-> TRUE] \in Picture
      BY Zenon, <1>4, PictureMade
    <2> QED
      BY Zenon, <1>3, <2>1 DEF Parts, AnnotationTypeOK, Info
  <1>6. AnnotationTypeOK' /\ WiredOK' /\ ClientsOK'
    BY ZenonT(40), <1>2, <1>5, Annotated, SameWired, SameClients DEF Parts
  <1>7. Reported'
    <2>1. /\ halves' # <<>>
          /\ continuous' = [parts |-> {Range(halves'[1]), Range(halves'[2])} \ {{}},
                            crashed |-> {}, ongoing |-> TRUE]
      BY Zenon, <1>2, <1>3
    <2> QED
      BY ZenonT(40), <1>2, <2>1 DEF Reported
  <1> QED
    BY Zenon, <1>6, <1>7 DEF Parts

LEMMA FollowClearFailure ==
    ASSUME Parts, Follow, todo = <<Then("AnnotateClearFailure", {})>>, halves = <<>>,
           alive = Srv
    PROVE  Parts'
  <1>1. Head(todo) = Then("AnnotateClearFailure", {}) /\ Tail(todo) = <<>>
    BY Zenon, Calls
  <1>2. /\ todo' = <<>> /\ alive' = alive /\ halves' = halves /\ clnt' = clnt
        /\ AnnotateClearFailure /\ grp' = grp
    BY Zenon, <1>1, FollowIs
  <1>3. finfo' = mkFrameworkInfo /\ continuous' = NoFailure
    BY Zenon, <1>2 DEF AnnotateClearFailure, annotateContinuousEnd
  <1>4. finfo' \in Info /\ continuous' = Shown(finfo') /\ finfo'.crashed = {}
    BY Zenon, <1>3, FirstInfo, ShownIs
  <1>5. finfo'.crashed = Srv \ alive
    BY Zenon, <1>4
  <1> QED
    BY ZenonT(40), <1>2, <1>4, <1>5, ReportStep

LEMMA FollowConnection ==
    ASSUME Parts, Follow, todo = <<Then("AnnotateConnection", {})>>, halves = <<>>,
           continuous = Shown(finfo), finfo.crashed = Srv \ alive
    PROVE  Parts'
  <1>1. Head(todo) = Then("AnnotateConnection", {}) /\ Tail(todo) = <<>>
    BY Zenon, Calls
  <1>2. /\ todo' = <<>> /\ alive' = alive /\ halves' = halves /\ clnt' = clnt
        /\ AnnotateConnection(grp.connected) /\ grp' = grp
    BY Zenon, <1>1, FollowIs
  <1>3. finfo \in Info /\ grp.connected \in SUBSET Srv
    BY Zenon, GrpIs DEF Parts, AnnotationTypeOK, Info, WiredOK
  <1>4. finfo' \in Info /\ continuous' = Shown(finfo') /\ finfo'.crashed = finfo.crashed
    BY ZenonT(40), <1>2, <1>3, ConnectionShown
  <1>5. finfo'.crashed = Srv \ alive
    BY Zenon, <1>4
  <1> QED
    BY ZenonT(40), <1>2, <1>4, <1>5, ReportStep

LEMMA FollowConnectOne ==
    ASSUME Parts, Follow, NEW i \in alive, todo = <<Then("ConnectOne", {i})>>, halves = <<>>,
           continuous = Shown(finfo), finfo.crashed = Srv \ alive
    PROVE  Parts'
  <1>1. Head(todo) = Then("ConnectOne", {i}) /\ Tail(todo) = <<>>
    BY Zenon, Calls
  <1>2. /\ todo' = <<>> /\ alive' = alive /\ halves' = halves /\ clnt' = clnt
        /\ finfo' = finfo /\ continuous' = continuous
        /\ grp' = connect(grp, CHOOSE j \in {i} : TRUE, all)
    BY Zenon, <1>1, FollowIs
  <1> DEFINE t == connect(grp, i, all)
  <1>3. grp' = t
    <2>1. (CHOOSE j \in {i} : TRUE) = i
      OBVIOUS
    <2> QED
      BY Zenon, <1>2, <2>1
  <1>4. /\ grp \in Grp /\ alive \subseteq Srv /\ grp.connected \subseteq alive
        /\ grp.ends = grp.connected \X grp.connected
    BY Zenon, Whole DEF Parts
  <1>5. i \in Srv
    BY Zenon, <1>4
  <1>6. t \in Grp /\ t.connected = grp.connected \cup {i} /\ t.ends = t.connected \X t.connected
    BY ZenonT(40), <1>4, <1>5, ConnectPrecise
  <1> HIDE DEF t
  <1>7. /\ grp'.connected \subseteq alive' /\ alive' \subseteq Srv /\ halves' = <<>>
        /\ grp' \in Grp /\ grp'.ends = grp'.connected \X grp'.connected
    BY ZenonT(40), <1>2, <1>3, <1>4, <1>6
  <1>8. WiredOK'
    BY Zenon, <1>7, WholeWired
  <1>9. AnnotationTypeOK' /\ ClientsOK'
    BY Zenon, <1>2, SameClients DEF Parts, AnnotationTypeOK
  <1>10. continuous' = Shown(finfo') /\ finfo'.crashed = Srv \ alive'
         /\ todo' \in {<<>>, <<Then("AnnotateConnection", {})>>}
    BY Zenon, <1>2
  <1>11. Reported'
    BY ZenonT(40), <1>7, <1>10 DEF Reported
  <1> QED
    BY ZenonT(40), <1>8, <1>9, <1>11 DEF Parts

LEMMA FollowRestart ==
    ASSUME Parts, Follow, NEW servers \in SUBSET Srv, NEW rest,
           Head(todo) = Then("AnnotateRestart", servers), Tail(todo) = rest,
           \/ rest = <<>>
           \/ \E i \in alive : rest = <<Then("ConnectOne", {i})>>,
           halves = <<>>, continuous = Shown(finfo), finfo.crashed \ servers = Srv \ alive
    PROVE  Parts'
  <1>2. /\ todo' = rest /\ alive' = alive /\ halves' = halves /\ clnt' = clnt
        /\ AnnotateRestart(servers) /\ grp' = grp
    BY Zenon, FollowIs
  <1>3. finfo \in Info
    BY Zenon DEF Parts, AnnotationTypeOK, Info
  <1> DEFINE c == finfo.crashed \ servers
  <1>4. c \in SUBSET Srv /\ AnnotateCrashes(c) /\ c = Srv \ alive
    BY Zenon, <1>2, <1>3, InfoIs DEF AnnotateRestart
  <1> HIDE DEF c
  <1>5. finfo' \in Info /\ continuous' = Shown(finfo') /\ finfo'.crashed = c
    BY Zenon, <1>3, <1>4, CrashesShown
  <1>6. finfo'.crashed = Srv \ alive
    BY Zenon, <1>4, <1>5
  <1> QED
    BY ZenonT(40), <1>2, <1>5, <1>6, ReportStep

LEMMA FollowShutdown ==
    ASSUME Parts, Follow, NEW servers \in SUBSET Srv,
           todo = <<Then("AnnotateShutdown", servers)>>,
           halves = <<>>, continuous = Shown(finfo), finfo.crashed \cup servers = Srv \ alive
    PROVE  Parts'
  <1>1. Head(todo) = Then("AnnotateShutdown", servers) /\ Tail(todo) = <<>>
    BY Zenon, Calls
  <1>2. /\ todo' = <<>> /\ alive' = alive /\ halves' = halves /\ clnt' = clnt
        /\ AnnotateShutdown(servers) /\ grp' = grp
    BY Zenon, <1>1, FollowIs
  <1>3. finfo \in Info
    BY Zenon DEF Parts, AnnotationTypeOK, Info
  <1> DEFINE c == finfo.crashed \cup servers
  <1>4. c \in SUBSET Srv /\ AnnotateCrashes(c) /\ c = Srv \ alive
    BY Zenon, <1>2, <1>3, InfoIs DEF AnnotateShutdown
  <1> HIDE DEF c
  <1>5. finfo' \in Info /\ continuous' = Shown(finfo') /\ finfo'.crashed = c
    BY Zenon, <1>3, <1>4, CrashesShown
  <1>6. finfo'.crashed = Srv \ alive
    BY Zenon, <1>4, <1>5
  <1> QED
    BY ZenonT(40), <1>2, <1>5, <1>6, ReportStep

LEMMA FollowStep ==
    ASSUME Parts, Follow
    PROVE  Parts'
  <1>0. todo # <<>> /\ Reported
    BY Zenon DEF Parts, Follow
  <1>1. CASE todo = <<Then("AnnotateTwoPartitions", {})>> /\ halves # <<>>
    BY Zenon, <1>1, FollowTwoPartitions
  <1>2. CASE todo = <<Then("AnnotateClearFailure", {})>> /\ halves = <<>> /\ alive = Srv
    BY Zenon, <1>2, FollowClearFailure
  <1> DEFINE shown == halves = <<>> /\ continuous = Shown(finfo)
  <1>3. CASE /\ shown /\ todo = <<Then("AnnotateConnection", {})>>
             /\ finfo.crashed = Srv \ alive
    BY Zenon, <1>3, FollowConnection
  <1>4. CASE /\ shown /\ finfo.crashed = Srv \ alive
             /\ \E i \in alive : todo = <<Then("ConnectOne", {i})>>
    BY Zenon, <1>4, FollowConnectOne
  <1>5. ASSUME shown, NEW i \in alive, finfo.crashed \ {i} = Srv \ alive,
               todo = <<Then("AnnotateRestart", {i}), Then("ConnectOne", {i})>>
        PROVE  Parts'
    <2>1. Head(todo) = Then("AnnotateRestart", {i}) /\ Tail(todo) = <<Then("ConnectOne", {i})>>
      BY Zenon, <1>5, Calls
    <2>2. {i} \in SUBSET Srv
      BY Zenon DEF Parts, WiredOK
    <2> QED
      BY ZenonT(40), <1>5, <2>1, <2>2, FollowRestart
  <1>6. CASE shown /\ todo = <<Then("AnnotateRestart", Srv)>> /\ alive = Srv
    <2>1. Head(todo) = Then("AnnotateRestart", Srv) /\ Tail(todo) = <<>>
      BY Zenon, <1>6, Calls
    <2>2. Srv \in SUBSET Srv /\ finfo.crashed \ Srv = Srv \ alive
      <3>1. finfo.crashed \in SUBSET Srv
        BY Zenon, InfoIs DEF Parts, AnnotationTypeOK, Info
      <3> QED
        BY Zenon, <1>6, <3>1
    <2> QED
      BY ZenonT(40), <1>6, <2>1, <2>2, FollowRestart
  <1>7. ASSUME shown, NEW s \in SUBSET Srv, todo = <<Then("AnnotateShutdown", s)>>,
               finfo.crashed \cup s = Srv \ alive
        PROVE  Parts'
    BY Zenon, <1>7, FollowShutdown
  <1> QED
    BY ZenonT(40), <1>0, <1>1, <1>2, <1>3, <1>4, <1>5, <1>6, <1>7 DEF Reported

LEMMA ClientStep ==
    ASSUME Parts, NEW c \in Clnt,
           \/ ClntConnectAll(c) \/ ClntDisconnectAll(c) \/ DeleteClient(c)
           \/ \E s \in Srv : makeEnd(c, s)
    PROVE  Parts'
  <1>1. UNCHANGED <<annVars, grp, alive, halves, todo>>
    BY Zenon DEF ClntConnectAll, ClntDisconnectAll, DeleteClient, makeEnd, Change
  <1>2. /\ finfo' = finfo /\ continuous' = continuous /\ grp' = grp /\ alive' = alive
        /\ halves' = halves /\ todo' = todo
    BY Zenon, <1>1 DEF annVars
  <1>3. ClientsOK'
    BY Zenon, ClientSteps DEF Parts
  <1>4. WiredOK' /\ AnnotationTypeOK'
    BY Zenon, <1>2, SameWired DEF Parts, AnnotationTypeOK
  <1>5. Reported'
    BY Zenon, <1>2 DEF Parts, Reported
  <1> QED
    BY Zenon, <1>3, <1>4, <1>5 DEF Parts

LEMMA Start ==
    ASSUME Init
    PROVE  Parts
  <1> DEFINE full == [connected |-> Srv, ends |-> Srv \X Srv]
  <1>1. /\ finfo = mkFrameworkInfo /\ continuous = NoFailure
        /\ grp = full /\ alive = Srv /\ halves = <<>> /\ todo = <<>>
    BY Zenon DEF Init, AnnotationInit
  <1>2. full \in Grp /\ full.connected = Srv /\ full.ends = full.connected \X full.connected
    BY DEF Grp
  <1> HIDE DEF full
  <1>3. WiredOK
    BY Zenon, <1>1, <1>2 DEF WiredOK, Wired, ConnectedIsPrecise, PartitionIsExact
  <1>4. /\ finfo \in Info /\ finfo.crashed = {} /\ continuous = Shown(finfo)
        /\ continuous \in Picture
    BY Zenon, <1>1, FirstInfo, ShownIs
  <1>5. AnnotationTypeOK
    BY Zenon, <1>4 DEF AnnotationTypeOK, Info
  <1>6. finfo.crashed = Srv \ alive
    BY Zenon, <1>1, <1>4
  <1>7. Reported
    BY Zenon, <1>1, <1>4, <1>6 DEF Reported
  <1> QED
    BY Zenon, <1>3, <1>5, <1>7, ClientStart DEF Parts

LEMMA Steps ==
    ASSUME Parts, [Next]_vars
    PROVE  Parts'
  <1>1. CASE UNCHANGED vars
    <2>1. /\ finfo' = finfo /\ continuous' = continuous /\ grp' = grp /\ alive' = alive
          /\ halves' = halves /\ todo' = todo /\ clnt' = clnt
      BY Zenon, <1>1 DEF vars, annVars
    <2>2. WiredOK' /\ AnnotationTypeOK' /\ ClientsOK'
      BY ZenonT(40), <2>1, SameWired, SameClients DEF Parts, AnnotationTypeOK
    <2>3. Reported'
      BY Zenon, <2>1 DEF Parts, Reported
    <2> QED
      BY Zenon, <2>2, <2>3 DEF Parts
  <1>2. ASSUME NEW i \in Srv,
               DisconnectOp(i) \/ ConnectOp(i) \/ RestartOp(i) \/ PartitionLeaderOp(i) \/ Kill({i})
        PROVE  Parts'
    <2>1. {i} \in SUBSET Srv
      BY Zenon
    <2> QED
      BY ZenonT(40), <1>2, <2>1, DisconnectStep, ConnectStep, RestartStep, PartitionLeaderStep,
         KillAction
  <1>3. CASE Kill(Srv) \/ RestartAllOp \/ PartitionerOp \/ ConnectAllOp \/ ReconnectLeaderOp
    <2>1. Srv \in SUBSET Srv
      BY Zenon
    <2> QED
      BY ZenonT(40), <1>3, <2>1, KillAction, RestartAllStep, PartitionerStep, ConnectAllStep,
         ReconnectLeaderStep
  <1>4. CASE Follow
    BY Zenon, <1>4, FollowStep
  <1>5. ASSUME NEW c \in Clnt,
               \/ ClntConnectAll(c) \/ ClntDisconnectAll(c) \/ DeleteClient(c)
               \/ \E s \in Srv : makeEnd(c, s)
        PROVE  Parts'
    BY Zenon, <1>5, ClientStep
  <1> QED
    BY ZenonT(40), <1>1, <1>2, <1>3, <1>4, <1>5 DEF Next

-----------------------------------------------------------------------------
(* The annotation, between two operations. *)

LEMMA SplitShown ==
    ASSUME Parts, todo = <<>>, halves # <<>>
    PROVE  /\ continuous.parts = {Reach(i) : i \in alive}
           /\ continuous.crashed = Srv \ alive
  <1> DEFINE R1 == Range(halves[1])
             R2 == Range(halves[2])
             parts == {R1, R2} \ {{}}
  <1>1. continuous = [parts |-> parts, crashed |-> {}, ongoing |-> TRUE]
    BY Zenon, Calls DEF Parts, Reported
  <1>2. /\ alive = Srv /\ R1 \in SUBSET Srv /\ R2 \in SUBSET Srv
        /\ \A k \in Srv : k \in R1 <=> k \notin R2
        /\ \A k, l \in Srv : <<k, l>> \in grp.ends <=>
             \/ k \in R1 /\ l \in R1
             \/ k \in R2 /\ l \in R2
    BY Zenon, Split DEF Parts
  <1>3. \A k : k \in parts <=> (k = R1 \/ k = R2) /\ k # {}
    BY Zenon
  <1> HIDE DEF R1, R2, parts
  <1>4. continuous.parts = parts /\ continuous.crashed = {}
    BY <1>1
  <1>5. \A i \in Srv : /\ i \in R1 => Reach(i) = R1
                       /\ i \in R2 => Reach(i) = R2
    <2> TAKE i \in Srv
    <2>1. \A k : k \in Reach(i) <=> k = i \/ (k \in Srv /\ <<i, k>> \in grp.ends)
      BY Zenon, <1>2 DEF Reach
    <2>2. ASSUME i \in R1 PROVE Reach(i) = R1
      <3>1. i \notin R2
        BY Zenon, <1>2, <2>2
      <3>2. \A k : k \in Reach(i) <=> k \in R1
        BY ZenonT(40), <1>2, <2>1, <2>2, <3>1
      <3> QED
        BY Zenon, <3>2
    <2>3. ASSUME i \in R2 PROVE Reach(i) = R2
      <3>1. i \notin R1
        BY Zenon, <1>2, <2>3
      <3>2. \A k : k \in Reach(i) <=> k \in R2
        BY ZenonT(40), <1>2, <2>1, <2>3, <3>1
      <3> QED
        BY Zenon, <3>2
    <2> QED
      BY Zenon, <2>2, <2>3
  <1>6. parts = {Reach(i) : i \in alive}
    <2>1. ASSUME NEW p \in parts PROVE \E i \in alive : p = Reach(i)
      <3>1. PICK i : i \in p
        BY Zenon, <1>3
      <3> QED
        BY ZenonT(40), <1>2, <1>3, <1>5, <3>1
    <2>2. ASSUME NEW i \in alive PROVE Reach(i) \in parts
      <3>1. i \in Srv /\ (i \in R1 \/ i \in R2)
        BY Zenon, <1>2
      <3>2. CASE i \in R1
        <4>1. Reach(i) = R1 /\ R1 # {}
          BY Zenon, <1>5, <3>1, <3>2
        <4> QED
          BY Zenon, <1>3, <4>1
      <3>3. CASE i \in R2
        <4>1. Reach(i) = R2 /\ R2 # {}
          BY Zenon, <1>5, <3>1, <3>3
        <4> QED
          BY Zenon, <1>3, <4>1
      <3> QED
        BY Zenon, <3>1, <3>2, <3>3
    <2> QED
      BY Zenon, <2>1, <2>2
  <1>7. Srv \ alive = {}
    BY Zenon, <1>2
  <1> QED
    BY ZenonT(40), <1>4, <1>6, <1>7

LEMMA WholeShown ==
    ASSUME Parts, todo = <<>>, halves = <<>>,
           finfo.connected \cap alive = grp.connected \cap alive
    PROVE  /\ continuous.parts = {Reach(i) : i \in alive}
           /\ continuous.crashed = Srv \ alive
  <1> DEFINE conn == grp.connected
  <1>1. /\ grp \in Grp /\ alive \subseteq Srv /\ conn \subseteq alive
        /\ grp.ends = conn \X conn
    BY Zenon, Whole DEF Parts
  <1>2. continuous = Shown(finfo) /\ finfo.crashed = Srv \ alive
    BY Zenon, Idle DEF Parts
  <1>3. /\ finfo \in Info /\ finfo.connected \in SUBSET Srv
        /\ \A k : k \in finfo.connected /\ k \in alive <=> k \in conn
    <2>1. finfo \in Info
      BY Zenon DEF Parts, AnnotationTypeOK, Info
    <2> QED
      BY Zenon, <1>1, <2>1, InfoIs
  <1> HIDE DEF conn
  <1>4. \A k, l : <<k, l>> \in grp.ends <=> k \in conn /\ l \in conn
    BY Zenon, <1>1
  <1>5. \A i \in alive : /\ i \in conn => Reach(i) = conn
                         /\ i \notin conn => Reach(i) = {i}
    BY Zenon, <1>1, <1>4 DEF Reach
  <1>6. CASE finfo = mkFrameworkInfo
    <2>1. finfo.connected = Srv /\ finfo.crashed = {}
      BY Zenon, <1>6, FirstInfo
    <2>2. alive = Srv /\ conn = Srv
      BY Zenon, <1>1, <1>2, <1>3, <2>1
    <2>3. continuous.parts = {Srv} /\ continuous.crashed = {}
      BY ZenonT(40), <1>2, <1>3, <1>6, ShownIs, NoFailureIs
    <2>4. 0 \in Srv
      BY Servers, GroupAssumption
    <2>5. {Srv} = {Reach(i) : i \in alive}
      <3>1. \A i \in alive : Reach(i) = Srv
        BY Zenon, <1>5, <2>2
      <3>2. \E i \in alive : TRUE
        BY Zenon, <2>2, <2>4
      <3> QED
        BY Zenon, <3>1, <3>2
    <2> QED
      BY Zenon, <1>2, <2>1, <2>3, <2>5
  <1>7. CASE finfo # mkFrameworkInfo
    <2> DEFINE parts == {{i} : i \in Srv \ (finfo.connected \cup finfo.crashed)}
                            \cup ({finfo.connected \ finfo.crashed} \ {{}})
    <2>1. continuous.parts = parts /\ continuous.crashed = finfo.crashed
      BY ZenonT(40), <1>2, <1>3, <1>7, ShownIs
    <2>2. Srv \ (finfo.connected \cup finfo.crashed) = alive \ conn
      BY Zenon, <1>1, <1>2, <1>3
    <2>3. finfo.connected \ finfo.crashed = conn
      BY Zenon, <1>1, <1>2, <1>3
    <2>4. parts = {{i} : i \in alive \ conn} \cup ({conn} \ {{}})
      BY Zenon, <2>2, <2>3
    <2> HIDE DEF parts
    <2>5. ASSUME NEW p \in parts PROVE \E i \in alive : p = Reach(i)
      <3>1. CASE p = conn /\ p # {}
        <4>1. PICK i : i \in conn
          BY Zenon, <3>1
        <4> QED
          BY ZenonT(40), <1>1, <1>5, <3>1, <4>1
      <3>2. CASE \E i \in alive \ conn : p = {i}
        BY Zenon, <1>5, <3>2
      <3> QED
        BY ZenonT(40), <2>4, <3>1, <3>2
    <2>6. ASSUME NEW i \in alive PROVE Reach(i) \in parts
      <3>1. CASE i \in conn
        BY Zenon, <1>5, <2>4, <3>1
      <3>2. CASE i \notin conn
        BY Zenon, <1>5, <2>4, <3>2
      <3> QED
        BY Zenon, <3>1, <3>2
    <2>7. parts = {Reach(i) : i \in alive}
      BY Zenon, <2>5, <2>6
    <2> QED
      BY Zenon, <1>2, <2>1, <2>7
  <1> QED
    BY Zenon, <1>6, <1>7

-----------------------------------------------------------------------------
(* GroupInv, the invariant behind the properties of a group, holds in every  *)
(* state a test brings the group and its clients to (group.go, clnts.go,     *)
(* annotation.go).                                                           *)
THEOREM GroupInvHolds == Spec => []GroupInv
  <1>1. Init => GroupInv
    BY Zenon, Start, InvIsParts
  <1>2. GroupInv /\ [Next]_vars => GroupInv'
    <2>1. GroupInv => Parts
      BY Zenon, InvIsParts
    <2>2. Parts' => GroupInv'
      BY Zenon DEF GroupInv, Parts, TypeOK, WiredOK, ClientsOK, Clients
    <2> QED
      BY Zenon, <2>1, <2>2, Steps
  <1> QED
    BY <1>1, <1>2, PTL DEF Spec

(* Without a partition the connected field says which ends are enabled, for  *)
(* any number of servers (group.go:141-180, annotation.go:228-229).          *)
THEOREM ConnectedIsPreciseHolds == Spec => []ConnectedIsPrecise
  <1>1. GroupInv => ConnectedIsPrecise
    BY ZenonT(40) DEF GroupInv, Wired
  <1> QED
    BY <1>1, GroupInvHolds, PTL

(* A partition leaves just the ends within its halves, whatever was          *)
(* disconnected before (group.go:313-323).                                   *)
THEOREM PartitionIsExactHolds == Spec => []PartitionIsExact
  <1>1. GroupInv => PartitionIsExact
    BY ZenonT(40) DEF GroupInv, Wired
  <1> QED
    BY <1>1, GroupInvHolds, PTL

(* Between two operations the annotation shows the failures there are, if    *)
(* the test reported every change (annotation.go:231-371).                   *)
THEOREM FailureShownHolds == Spec => []FailureShown
  <1>1. GroupInv => FailureShown
    <2>1. GroupInv => Parts
      BY Zenon, InvIsParts
    <2> QED
      BY ZenonT(40), <2>1, SplitShown, WholeShown DEF FailureShown
  <1> QED
    BY <1>1, GroupInvHolds, PTL

(* A client reaches just the servers it is allowed, whenever its ends were   *)
(* made (clnts.go:45-118).                                                   *)
THEOREM ClientReachHolds == Spec => []ClientReach
  <1>1. GroupInv => ClientReach
    BY Zenon DEF GroupInv
  <1> QED
    BY <1>1, GroupInvHolds, PTL
==============================================================================
