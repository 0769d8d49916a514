-------------------------- MODULE UdsServerProofs ---------------------------
(***************************************************************************)
(* Proofs about UdsServer, for any number of processes: the socket file    *)
(* stays with a server, and the ini file is read as it is meant (MINI,     *)
(* Config), for texts and maps of any size.                                *)
(***************************************************************************)
EXTENDS UdsServer, WellFoundedInduction, SequenceTheorems, FiniteSetTheorems, TLAPS

-----------------------------------------------------------------------------
(* The socket file.                                                        *)

\* The process has not yet made the path free for its own socket, in this run
\* or in the one it was stopped in.
Owing == {"killed", "failed", "rejected", "init", "create", "write", "open", "read",
          "configured", "remove"}

\* The invariant behind Covered.  A file that names no living socket has a
\* process that is to remove it; a path that does not exist, although somebody
\* has bound it, has a process that is to bind it.
PathOwed ==
    /\ \A p \in Procs : path = p => pc[p] \in {"listen", "serve"}
    /\ path = Dead => \E u \in Procs : pc[u] \in Owing
    /\ path = NoSocket /\ (\E p \in Procs : pc[p] \in {"listen", "serve"})
         => \E u \in Procs : pc[u] \in Owing \cup {"bind"}

IInv ==
    /\ pc \in [Procs -> Places]
    /\ path \in Procs \cup {NoSocket, Dead}
    /\ PathOwed

LEMMA InitIInv == Init => IInv
  BY SocketAssumption DEF Init, ConfigInit, IInv, PathOwed, Places, Down, Owing

\* A step of p that leaves the path alone and keeps p owing.
LEMMA StillOwing ==
  ASSUME IInv, NEW p \in Procs, NEW place \in Owing,
         pc[p] \notin {"listen", "serve"},
         pc' = [pc EXCEPT ![p] = place], path' = path
  PROVE  IInv'
  BY SocketAssumption DEF IInv, PathOwed, Places, Down, Owing

\* Config::Init of a process owes the path all along.
LEMMA ConfigStep ==
  ASSUME IInv, NEW p \in Procs, InitConfig(p), path' = path
  PROVE  IInv'
<1>1. PICK place \in Owing : pc' = [pc EXCEPT ![p] = place]
  BY DEF InitConfig, CheckFile, OpenTruncated, WriteDump, DumpFails, OpenToRead,
         OpenFails, ReadFile, Owing
<1>2. pc[p] \notin {"listen", "serve"}
  BY DEF InitConfig, CheckFile, OpenTruncated, WriteDump, DumpFails, OpenToRead,
         OpenFails, ReadFile
<1>. QED
  BY <1>1, <1>2, StillOwing

LEMMA StepIInv == IInv /\ [Next]_vars => IInv'
<1>. SUFFICES ASSUME IInv, [Next]_vars PROVE IInv'
  OBVIOUS
<1>1. ASSUME NEW p \in Procs, Start(p) PROVE IInv'
  <2>1. pc[p] \notin {"listen", "serve"} /\ pc' = [pc EXCEPT ![p] = "init"] /\ path' = path
    BY <1>1 DEF Start, Down, Goto
  <2>. QED
    BY <2>1, StillOwing DEF Owing
<1>2. ASSUME NEW p \in Procs, CheckSocket(p) PROVE IInv'
  <2>1. CASE path = NoSocket
    BY <1>2, <2>1, SocketAssumption
       DEF CheckSocket, Goto, IInv, PathOwed, Places, Down, Owing
  <2>2. CASE path # NoSocket
    <3>1. pc[p] = "configured" /\ pc' = [pc EXCEPT ![p] = "remove"] /\ path' = path
      BY <1>2, <2>2 DEF CheckSocket, Goto
    <3>. QED
      BY <3>1, StillOwing DEF Owing
  <2>. QED
    BY <2>1, <2>2
<1>3. ASSUME NEW p \in Procs, RemoveSocket(p) PROVE IInv'
  BY <1>3, SocketAssumption DEF RemoveSocket, Goto, IInv, PathOwed, Places, Down, Owing
<1>4. ASSUME NEW p \in Procs, Bind(p) PROVE IInv'
  BY <1>4, SocketAssumption DEF Bind, Goto, IInv, PathOwed, Places, Down, Owing
<1>5. ASSUME NEW p \in Procs, BindFails(p) PROVE IInv'
  BY <1>5, SocketAssumption DEF BindFails, Goto, IInv, PathOwed, Places, Down, Owing
<1>6. ASSUME NEW p \in Procs, Listen(p) PROVE IInv'
  BY <1>6, SocketAssumption DEF Listen, Goto, IInv, PathOwed, Places, Down, Owing
<1>7. ASSUME NEW p \in Procs, Kill(p) PROVE IInv'
  BY <1>7, SocketAssumption DEF Kill, Goto, IInv, PathOwed, Places, Down, Owing
<1>8. ASSUME Edit, UNCHANGED path PROVE IInv'
  BY <1>8 DEF Edit, IInv, PathOwed
<1>9. ASSUME NEW p \in Procs, SocketFails(p) PROVE IInv'
  BY <1>9, SocketAssumption DEF SocketFails, Goto, IInv, PathOwed, Places, Down, Owing
<1>10. CASE UNCHANGED vars
  BY <1>10 DEF vars, IInv, PathOwed
<1>. QED
  BY <1>1, <1>2, <1>3, <1>4, <1>5, <1>6, <1>7, <1>8, <1>9, <1>10, ConfigStep DEF Next, Run, Serve

LEMMA IInvCovers == IInv => Covered
  BY SocketAssumption DEF IInv, PathOwed, Covered, Connects, Owing

\* However the starts of any number of servers interleave, they leave no
\* listening server without a path that leads to one: remove_unixsock and
\* listen_unixsock of test/uds_server.cpp.
THEOREM StaysCovered == Spec => []Covered
<1>. QED
  BY InitIInv, StepIInv, IInvCovers, PTL DEF Spec

-----------------------------------------------------------------------------
(* Induction over data, as in HttpMessagesProofs.                          *)

\* A set of naturals that is not empty has a least one.
LEMMA Least ==
    ASSUME NEW T \in SUBSET Nat, T # {}
    PROVE  \E n \in T : \A m \in T : n =< m
<1>. DEFINE R == OpToRel(<, Nat)
<1>1. IsWellFoundedOn(R, Nat)
  BY NatLessThanWellFounded
<1>2. R = {p \in Nat \X Nat : p[1] < p[2]}
  BY DEF OpToRel
<1>. HIDE DEF R
<1>3. PICK n \in T : \A m \in T : ~(<<m, n>> \in R)
  BY <1>1, WFMin
<1>4. ASSUME NEW m \in T PROVE n =< m
  <2>1. n \in Nat /\ m \in Nat
    OBVIOUS
  <2>2. <<m, n>> \in R <=> m < n
    BY <1>2, <2>1
  <2>. QED
    BY <1>3, <2>1, <2>2
<1>. QED
  BY <1>4

\* A set that holds 0 and what comes after each of its numbers is all of Nat.
LEMMA Induction ==
    ASSUME NEW S, 0 \in S, \A n \in Nat : n \in S => n + 1 \in S
    PROVE  Nat \subseteq S
<1>. SUFFICES ASSUME Nat \ S # {} PROVE FALSE
  OBVIOUS
<1>1. PICK n \in Nat \ S : \A m \in Nat \ S : n =< m
  BY Least
<1>2. n # 0 /\ n - 1 \in Nat
  BY <1>1
<1>3. n - 1 \in S
  BY <1>1, <1>2
<1>. QED
  BY <1>1, <1>2, <1>3

\* f is a function on the numbers up to n.
Over(f, n) == f = [i \in 0 .. n |-> f[i]]

\* Two functions that agree at 0, and at each number where they do before it.
LEMMA SameSteps ==
    ASSUME NEW n \in Nat, NEW f, NEW g,
           Over(f, n), Over(g, n),
           f[0] = g[0],
           \A i \in 1 .. n : f[i - 1] = g[i - 1] => f[i] = g[i]
    PROVE  f = g
<1>. DEFINE S == {i \in Nat : i \in 0 .. n => f[i] = g[i]}
<1>1. 0 \in S
  OBVIOUS
<1>2. ASSUME NEW i \in Nat, i \in S PROVE i + 1 \in S
  <2>. SUFFICES ASSUME i + 1 \in 0 .. n PROVE f[i + 1] = g[i + 1]
    OBVIOUS
  <2>1. (i + 1) - 1 = i /\ i \in 0 .. n /\ i + 1 \in 1 .. n
    OBVIOUS
  <2>2. f[i] = g[i]
    BY <1>2, <2>1
  <2>. QED
    BY <2>1, <2>2
<1>. HIDE DEF S
<1>3. Nat \subseteq S
  BY ONLY <1>1, <1>2, Induction
<1>4. \A i \in 0 .. n : f[i] = g[i]
  BY ONLY <1>3, n \in Nat DEF S
<1>5. [i \in 0 .. n |-> f[i]] = [i \in 0 .. n |-> g[i]]
  BY ONLY <1>4, Zenon
<1>. QED
  BY <1>5, Zenon DEF Over

\* What a function computes that is given by its value at 0 and by a step.
Steps(a, step, n, f) ==
    /\ Over(f, n)
    /\ f[0] = a
    /\ \A i \in 1 .. n : f[i] = step[<<i, f[i - 1]>>]

LEMMA StepsExist ==
    ASSUME NEW V, NEW a \in V, NEW bound \in Nat, NEW step \in [(1 .. bound) \X V -> V]
    PROVE  \A n \in 0 .. bound : \E f \in [0 .. n -> V] : Steps(a, step, n, f)
<1>. DEFINE S == {n \in Nat : n =< bound => \E f \in [0 .. n -> V] : Steps(a, step, n, f)}
<1>1. 0 \in S
  <2>. DEFINE f == [i \in 0 .. 0 |-> a]
  <2>1. f \in [0 .. 0 -> V] /\ f[0] = a
    OBVIOUS
  <2>2. Over(f, 0)
    BY DEF Over
  <2>3. \A i \in 1 .. 0 : f[i] = step[<<i, f[i - 1]>>]
    OBVIOUS
  <2>. HIDE DEF f
  <2>4. Steps(a, step, 0, f)
    BY ONLY <2>1, <2>2, <2>3, Zenon DEF Steps
  <2>5. \E g \in [0 .. 0 -> V] : Steps(a, step, 0, g)
    BY ONLY <2>1, <2>4
  <2>. QED
    BY <2>5
<1>2. ASSUME NEW n \in Nat, n \in S PROVE n + 1 \in S
  <2>. SUFFICES ASSUME n + 1 =< bound
                PROVE  \E g \in [0 .. n + 1 -> V] : Steps(a, step, n + 1, g)
    OBVIOUS
  <2>1. PICK f \in [0 .. n -> V] : Steps(a, step, n, f)
    BY <1>2
  <2>. DEFINE g == [i \in 0 .. n + 1 |-> IF i = n + 1 THEN step[<<i, f[n]>>] ELSE f[i]]
  <2>2. /\ f[n] \in V /\ f[0] = a /\ <<n + 1, f[n]>> \in (1 .. bound) \X V
        /\ \A i \in 1 .. n : f[i] = step[<<i, f[i - 1]>>]
    <3>1. f[0] = a /\ \A i \in 1 .. n : f[i] = step[<<i, f[i - 1]>>]
      BY <2>1, Zenon DEF Steps
    <3>2. f[n] \in V /\ n + 1 \in 1 .. bound
      BY ONLY f \in [0 .. n -> V], n \in Nat, bound \in Nat, n + 1 =< bound
    <3>. QED
      BY ONLY <3>1, <3>2
  <2>3. step[<<n + 1, f[n]>>] \in V
    BY <2>2
  <2>4. /\ g[n + 1] = step[<<n + 1, f[n]>>]
        /\ \A i \in 0 .. n : g[i] = f[i]
    OBVIOUS
  <2>5. g \in [0 .. n + 1 -> V]
    BY <2>1, <2>3
  <2>. HIDE DEF g
  <2>6. \A i \in 1 .. n + 1 : g[i] = step[<<i, g[i - 1]>>]
    <3>. TAKE i \in 1 .. n + 1
    <3>1. CASE i = n + 1
      <4>1. i - 1 = n /\ g[n] = f[n]
        BY <2>4, <3>1
      <4>. QED
        BY <2>4, <3>1, <4>1
    <3>2. CASE i # n + 1
      <4>1. i \in 1 .. n /\ i - 1 \in 0 .. n /\ i \in 0 .. n
        BY <3>2
      <4>. QED
        BY <2>2, <2>4, <4>1
    <3>. QED
      BY <3>1, <3>2
  <2>7. g[0] = a
    BY <2>2, <2>4
  <2>8. Over(g, n + 1)
    BY <2>5 DEF Over
  <2>. QED
    BY <2>5, <2>6, <2>7, <2>8 DEF Steps
<1>. HIDE DEF S
<1>3. Nat \subseteq S
  BY <1>1, <1>2, Induction
<1>. QED
  BY <1>3 DEF S

-----------------------------------------------------------------------------
(* What parse makes of a text.                                             *)

LEMMA MaxIs ==
    ASSUME NEW T \in SUBSET Nat, NEW n \in T, \A m \in T : m =< n
    PROVE  Max(T) = n
<1>1. Max(T) \in T /\ \A m \in T : Max(T) >= m
  BY DEF Max
<1>2. Max(T) \in Nat /\ n \in Nat /\ Max(T) >= n /\ Max(T) =< n
  BY <1>1
<1>. QED
  BY <1>2

LEMMA Greatest ==
    ASSUME NEW n \in Nat, NEW T \in SUBSET (0 .. n), T # {}
    PROVE  \E m \in T : \A x \in T : x =< m
<1>. DEFINE R == {n - x : x \in T}
<1>1. PICK d \in R : \A e \in R : d =< e
  <2>1. \A x \in T : n - x \in Nat
    OBVIOUS
  <2>2. R \in SUBSET Nat
    BY <2>1
  <2>3. PICK x \in T : TRUE
    OBVIOUS
  <2>4. R # {}
    BY <2>3
  <2>. HIDE DEF R
  <2>. QED
    BY <2>2, <2>4, Least
<1>2. PICK m \in T : d = n - m
  OBVIOUS
<1>3. ASSUME NEW x \in T PROVE x =< m
  <2>1. n - x \in R
    OBVIOUS
  <2>2. d =< n - x
    BY <1>1, <2>1
  <2>. QED
    BY <1>2, <2>2
<1>. QED
  BY <1>3

LEMMA LinesAre ==
    /\ Skip \in Lines /\ Throws \in Lines
    /\ \A t \in Tags : Section(t) \in Lines
    /\ \A n \in Names, v \in Values : Pair(n, v) \in Lines
<1>1. \A n \in Names, v \in Values : Pair(n, v) \in {Pair(x, y) : x \in Names, y \in Values}
  OBVIOUS
<1>. QED
  BY <1>1 DEF Lines

LEMMA LineKinds ==
    ASSUME NEW line \in Lines
    PROVE  /\ line.kind = "section" => line.tag \in Tags
           /\ line.kind = "pair" => line.name \in Names /\ line.val \in Values
           /\ ~(line.kind = "section" /\ line.kind = "pair")
<1>1. CASE line \in {Skip, Throws}
  BY <1>1 DEF Skip, Throws
<1>2. ASSUME NEW t \in Tags, line = Section(t) PROVE line.kind = "section" /\ line.tag = t
  BY <1>2 DEF Section
<1>3. ASSUME NEW n \in Names, NEW v \in Values, line = Pair(n, v)
      PROVE  line.kind = "pair" /\ line.name = n /\ line.val = v
  BY <1>3 DEF Pair
<1>. QED
  BY <1>1, <1>2, <1>3 DEF Lines

\* The section of a line is its own, or that of the line before it.
LEMMA SectionSteps ==
    ASSUME NEW text \in Seq(Lines)
    PROVE  /\ SectionAt(text, 0) = ""
           /\ \A i \in 1 .. Len(text) :
                 SectionAt(text, i) = IF text[i].kind = "section" THEN text[i].tag
                                      ELSE SectionAt(text, i - 1)
<1>. DEFINE above(i) == {j \in 1 .. i : text[j].kind = "section"}
<1>1. SectionAt(text, 0) = ""
  BY DEF SectionAt
<1>2. ASSUME NEW i \in 1 .. Len(text), text[i].kind = "section"
      PROVE  SectionAt(text, i) = text[i].tag
  <2>1. i \in above(i) /\ above(i) \in SUBSET Nat /\ \A j \in above(i) : j =< i
    BY <1>2
  <2>2. Max(above(i)) = i
    BY <2>1, MaxIs
  <2>. QED
    BY <2>1, <2>2 DEF SectionAt
<1>3. ASSUME NEW i \in 1 .. Len(text), text[i].kind # "section"
      PROVE  SectionAt(text, i) = SectionAt(text, i - 1)
  <2>1. above(i) = above(i - 1)
    BY <1>3
  <2>. QED
    BY <2>1 DEF SectionAt
<1>. QED
  BY <1>1, <1>2, <1>3

\* The loop's tag is the section.
LEMMA TagAgrees ==
    ASSUME NEW text \in Seq(Lines), NEW i \in 0 .. Len(text)
    PROVE  TagAfter(text, i) = SectionAt(text, i)
<1>. DEFINE after(j, tag) == IF text[j].kind = "section" THEN text[j].tag ELSE tag
            Tagging(f) ==
              f = [j \in 0 .. i |-> IF j = 0 THEN "" ELSE after(j, f[j - 1])]
            f == CHOOSE g : Tagging(g)
            g == [j \in 0 .. i |-> SectionAt(text, j)]
<1>1. Len(text) \in Nat /\ i \in Nat
  OBVIOUS
<1>2. TagAfter(text, i) = f[i]
  BY Zenon DEF TagAfter
<1>3. /\ SectionAt(text, 0) = ""
      /\ \A j \in 1 .. Len(text) : SectionAt(text, j) = after(j, SectionAt(text, j - 1))
  BY SectionSteps
<1>. HIDE DEF after
<1>4. Tagging(g)
  <2>1. ASSUME NEW j \in 0 .. i
        PROVE  SectionAt(text, j) = IF j = 0 THEN "" ELSE after(j, g[j - 1])
    <3>1. CASE j = 0
      BY <1>3, <3>1
    <3>2. CASE j # 0
      <4>1. j \in 1 .. Len(text) /\ j - 1 \in 0 .. i
        BY <1>1, <3>2
      <4>2. g[j - 1] = SectionAt(text, j - 1)
        BY <4>1
      <4>. QED
        BY <1>3, <3>2, <4>1, <4>2
    <3>. QED
      BY <3>1, <3>2
  <2>. HIDE DEF g
  <2>2. [j \in 0 .. i |-> SectionAt(text, j)] =
        [j \in 0 .. i |-> IF j = 0 THEN "" ELSE after(j, g[j - 1])]
    BY <2>1, Zenon
  <2>. QED
    BY <2>2, Zenon DEF g
<1>5. Tagging(f)
  BY <1>4, Zenon
<1>. HIDE DEF f, g
<1>6. Over(f, i) /\ Over(g, i)
  BY <1>5 DEF Over, g
<1>7. ASSUME NEW h, Tagging(h)
      PROVE  h[0] = "" /\ \A j \in 1 .. i : h[j] = after(j, h[j - 1])
  <2>1. \A j \in 0 .. i : h[j] = IF j = 0 THEN "" ELSE after(j, h[j - 1])
    BY <1>7
  <2>2. 0 \in 0 .. i /\ \A j \in 1 .. i : j \in 0 .. i /\ j # 0
    BY <1>1
  <2>. QED
    BY <2>1, <2>2
<1>. HIDE DEF Tagging
<1>8. f = g
  BY <1>1, <1>4, <1>5, <1>6, <1>7, SameSteps
<1>9. g[i] = SectionAt(text, i)
  BY <1>1 DEF g
<1>. QED
  BY <1>2, <1>8, <1>9

LEMMA SectionIsTag ==
    ASSUME NEW text \in Seq(Lines), NEW i \in 0 .. Len(text)
    PROVE  SectionAt(text, i) \in Tags
<1>. DEFINE S == {n \in Nat : n =< Len(text) => SectionAt(text, n) \in Tags}
<1>1. 0 \in S
  BY SectionSteps, KeysAssumption
<1>2. ASSUME NEW n \in Nat, n \in S PROVE n + 1 \in S
  <2>. SUFFICES ASSUME n + 1 =< Len(text) PROVE SectionAt(text, n + 1) \in Tags
    OBVIOUS
  <2>1. n + 1 \in 1 .. Len(text) /\ (n + 1) - 1 = n
    OBVIOUS
  <2>2. text[n + 1] \in Lines
    BY <2>1, ElementOfSeq
  <2>3. SectionAt(text, n + 1) = IF text[n + 1].kind = "section" THEN text[n + 1].tag
                                 ELSE SectionAt(text, n)
    BY <2>1, SectionSteps
  <2>4. SectionAt(text, n) \in Tags
    BY <1>2, <2>1
  <2>. QED
    BY <2>2, <2>3, <2>4, LineKinds
<1>. HIDE DEF S
<1>3. Nat \subseteq S
  BY <1>1, <1>2, Induction
<1>. QED
  BY <1>3 DEF S

\* The map after the first n lines, said without a loop.
Upto(text, k, n) == {i \in LinesOf(text, k) : i =< n}
MapAfter(text, map, n) ==
    [k \in {x \in Keys : x \in DOMAIN map \/ Upto(text, x, n) # {}} |->
        IF Upto(text, k, n) = {} THEN map[k] ELSE text[Max(Upto(text, k, n))].val]

KeyAt(text, n) == <<SectionAt(text, n), text[n].name>>

LEMMA UptoSteps ==
    ASSUME NEW text \in Seq(Lines), NEW k
    PROVE  /\ Upto(text, k, 0) = {}
           /\ \A n \in 1 .. Len(text) :
                 Upto(text, k, n) =
                    IF text[n].kind = "pair" /\ k = KeyAt(text, n)
                    THEN Upto(text, k, n - 1) \cup {n} ELSE Upto(text, k, n - 1)
<1>1. DOMAIN text = 1 .. Len(text) /\ Len(text) \in Nat
  BY LenProperties
<1>2. \A i : i \in LinesOf(text, k) <=>
             i \in 1 .. Len(text) /\ text[i].kind = "pair" /\ k = KeyAt(text, i)
  BY <1>1 DEF LinesOf, KeyAt
<1>3. \A n, i : i \in Upto(text, k, n) <=> i \in LinesOf(text, k) /\ i =< n
  BY DEF Upto
<1>4. Upto(text, k, 0) = {}
  BY <1>1, <1>2, <1>3
<1>5. ASSUME NEW n \in 1 .. Len(text)
      PROVE  Upto(text, k, n) =
               IF text[n].kind = "pair" /\ k = KeyAt(text, n)
               THEN Upto(text, k, n - 1) \cup {n} ELSE Upto(text, k, n - 1)
  <2>1. ASSUME NEW i PROVE i \in Upto(text, k, n) <=>
                             \/ i \in Upto(text, k, n - 1)
                             \/ i = n /\ n \in LinesOf(text, k)
    BY <1>1, <1>2, <1>3
  <2>2. n \in LinesOf(text, k) <=> text[n].kind = "pair" /\ k = KeyAt(text, n)
    BY <1>2
  <2>. QED
    BY <2>1, <2>2
<1>. QED
  BY <1>4, <1>5

LEMMA MapAfterIsMap ==
    ASSUME NEW text \in Seq(Lines), NEW map, IsMap(map), NEW n \in 0 .. Len(text)
    PROVE  IsMap(MapAfter(text, map, n))
<1>1. ASSUME NEW k \in Keys, Upto(text, k, n) # {}
      PROVE  text[Max(Upto(text, k, n))].val \in Values
  <2>1. PICK j \in 1 .. Len(text) : Max(Upto(text, k, n)) = j /\ text[j].kind = "pair"
    <3>1. /\ DOMAIN text = 1 .. Len(text) /\ Len(text) \in Nat
          /\ Upto(text, k, n) \subseteq LinesOf(text, k)
          /\ \A i \in LinesOf(text, k) : i \in DOMAIN text /\ text[i].kind = "pair"
      BY LenProperties DEF Upto, LinesOf
    <3>2. Upto(text, k, n) \in SUBSET (0 .. Len(text))
      BY ONLY <3>1
    <3>3. PICK m \in Upto(text, k, n) : \A x \in Upto(text, k, n) : x =< m
      BY <1>1, <3>1, <3>2, Greatest
    <3>4. Max(Upto(text, k, n)) = m
      BY <3>1, <3>2, <3>3, MaxIs
    <3>. QED
      BY <3>1, <3>3, <3>4
  <2>2. text[j] \in Lines
    BY ElementOfSeq
  <2>. QED
    BY <2>1, <2>2, LineKinds
<1>2. /\ DOMAIN MapAfter(text, map, n) = {x \in Keys : x \in DOMAIN map \/ Upto(text, x, n) # {}}
      /\ MapAfter(text, map, n) = [k \in DOMAIN MapAfter(text, map, n) |->
                                       MapAfter(text, map, n)[k]]
  BY DEF MapAfter
<1>3. ASSUME NEW k \in DOMAIN MapAfter(text, map, n)
      PROVE  MapAfter(text, map, n)[k] \in Values
  <2>1. MapAfter(text, map, n)[k] = IF Upto(text, k, n) = {} THEN map[k]
                                    ELSE text[Max(Upto(text, k, n))].val
    BY <1>3 DEF MapAfter
  <2>2. k \in Keys /\ (k \in DOMAIN map \/ Upto(text, k, n) # {})
    BY <1>2
  <2>3. k \in DOMAIN map => map[k] \in Values
    BY DEF IsMap
  <2>. QED
    BY <1>1, <2>1, <2>2, <2>3
<1>. QED
  BY <1>2, <1>3 DEF IsMap

LEMMA MapAfterSteps ==
    ASSUME NEW text \in Seq(Lines), NEW map, IsMap(map)
    PROVE  /\ MapAfter(text, map, 0) = map
           /\ \A n \in 1 .. Len(text) :
                 MapAfter(text, map, n) = Assigned(text, n, MapAfter(text, map, n - 1))
<1>1. MapAfter(text, map, 0) = map
  <2>1. \A k : Upto(text, k, 0) = {}
    BY UptoSteps
  <2>2. {k \in Keys : k \in DOMAIN map \/ Upto(text, k, 0) # {}} = DOMAIN map
    BY <2>1 DEF IsMap
  <2>3. MapAfter(text, map, 0) = [k \in DOMAIN map |-> map[k]]
    BY <2>1, <2>2 DEF MapAfter
  <2>. QED
    BY <2>3 DEF IsMap
<1>2. ASSUME NEW n \in 1 .. Len(text)
      PROVE  MapAfter(text, map, n) = Assigned(text, n, MapAfter(text, map, n - 1))
  <2>. DEFINE old == MapAfter(text, map, n - 1)
              now == MapAfter(text, map, n)
              key == KeyAt(text, n)
  <2>1. n \in 0 .. Len(text) /\ text[n] \in Lines /\ n \in Nat
    BY ElementOfSeq
  <2>2. TagAfter(text, n) = SectionAt(text, n) /\ SectionAt(text, n) \in Tags
    BY <2>1, TagAgrees, SectionIsTag
  <2>3. CASE text[n].kind # "pair"
    <3>1. \A k : Upto(text, k, n) = Upto(text, k, n - 1)
      BY <2>3, UptoSteps
    <3>2. now = old
      <4>1. /\ DOMAIN old = {x \in Keys : x \in DOMAIN map \/ Upto(text, x, n - 1) # {}}
            /\ DOMAIN now = {x \in Keys : x \in DOMAIN map \/ Upto(text, x, n) # {}}
        BY DEF MapAfter
      <4>2. DOMAIN now = DOMAIN old
        BY <3>1, <4>1
      <4>3. \A k \in DOMAIN now : now[k] = old[k]
        BY <3>1, <4>2 DEF MapAfter
      <4>4. now = [k \in DOMAIN now |-> now[k]] /\ old = [k \in DOMAIN old |-> old[k]]
        BY DEF MapAfter
      <4>. HIDE DEF now, old
      <4>. QED
        BY <4>2, <4>3, <4>4
    <3>. QED
      BY <2>3, <3>2 DEF Assigned
  <2>4. CASE text[n].kind = "pair"
    <3>1. key \in Keys
      <4>1. text[n].name \in Names
        BY <2>1, <2>4, LineKinds
      <4>2. key \in Tags \X Names
        BY <2>2, <4>1 DEF KeyAt
      <4>. QED
        BY ONLY <4>2, KeysAssumption
    <3>2. /\ \A k : k # key => Upto(text, k, n) = Upto(text, k, n - 1)
          /\ Upto(text, key, n) = Upto(text, key, n - 1) \cup {n}
      <4>. HIDE DEF key
      <4>1. \A k : Upto(text, k, n) =
                      IF text[n].kind = "pair" /\ k = key
                      THEN Upto(text, k, n - 1) \cup {n} ELSE Upto(text, k, n - 1)
        BY ONLY text \in Seq(Lines), n \in 1 .. Len(text), UptoSteps DEF key
      <4>. QED
        BY ONLY <2>4, <4>1
    <3>3. Upto(text, key, n) = Upto(text, key, n - 1) \cup {n}
      BY <3>2
    <3>4. Max(Upto(text, key, n)) = n
      <4>1. Upto(text, key, n) \subseteq Nat /\ \A m \in Upto(text, key, n) : m =< n
        BY LenProperties DEF Upto, LinesOf
      <4>. QED
        BY <3>3, <4>1, MaxIs
    <3>5. /\ DOMAIN old = {x \in Keys : x \in DOMAIN map \/ Upto(text, x, n - 1) # {}}
          /\ DOMAIN now = {x \in Keys : x \in DOMAIN map \/ Upto(text, x, n) # {}}
      BY DEF MapAfter
    <3>6. DOMAIN now = DOMAIN old \cup {key}
      BY <3>1, <3>2, <3>3, <3>5
    <3>7. now = [k \in DOMAIN now |-> now[k]]
      BY DEF MapAfter
    <3>8. \A k \in DOMAIN now : now[k] = IF Upto(text, k, n) = {} THEN map[k]
                                         ELSE text[Max(Upto(text, k, n))].val
      BY DEF MapAfter
    <3>9. \A k \in DOMAIN old : old[k] = IF Upto(text, k, n - 1) = {} THEN map[k]
                                         ELSE text[Max(Upto(text, k, n - 1))].val
      BY DEF MapAfter
    <3>. HIDE DEF now, old, key
    <3>10. \A k \in DOMAIN now : now[k] = IF k = key THEN text[n].val ELSE old[k]
      BY <3>2, <3>3, <3>4, <3>6, <3>8, <3>9
    <3>11. now = Put(old, key, text[n].val)
      BY <3>6, <3>7, <3>10 DEF Put
    <3>12. key = <<TagAfter(text, n), text[n].name>>
      BY <2>2 DEF key, KeyAt
    <3>. QED
      BY <2>4, <3>11, <3>12 DEF Assigned, now, old
  <2>. QED
    BY <2>3, <2>4
<1>. QED
  BY <1>1, <1>2

\* What parse computes.
LEMMA ParseIs ==
    ASSUME NEW text \in Seq(Lines), NEW map, IsMap(map)
    PROVE  Parse(text, map) = MapAfter(text, map, Len(text))
<1>. DEFINE n == Len(text)
            Parsing(f) ==
              f = [j \in 0 .. n |-> IF j = 0 THEN map ELSE Assigned(text, j, f[j - 1])]
            f == CHOOSE g : Parsing(g)
            g == [j \in 0 .. n |-> MapAfter(text, map, j)]
<1>1. n \in Nat
  OBVIOUS
<1>. HIDE DEF n
<1>2. Parsing(g)
  <2>1. ASSUME NEW j \in 0 .. n
        PROVE  MapAfter(text, map, j) = IF j = 0 THEN map ELSE Assigned(text, j, g[j - 1])
    <3>1. CASE j = 0
      BY <3>1, MapAfterSteps
    <3>2. CASE j # 0
      <4>1. j \in 1 .. n /\ j - 1 \in 0 .. n
        BY <1>1, <3>2
      <4>2. g[j - 1] = MapAfter(text, map, j - 1)
        BY <4>1
      <4>. QED
        BY <3>2, <4>1, <4>2, MapAfterSteps DEF n
    <3>. QED
      BY <3>1, <3>2
  <2>. HIDE DEF g
  <2>2. [j \in 0 .. n |-> MapAfter(text, map, j)] =
        [j \in 0 .. n |-> IF j = 0 THEN map ELSE Assigned(text, j, g[j - 1])]
    BY <2>1, Zenon
  <2>. QED
    BY <2>2, Zenon DEF g
<1>3. Parsing(f)
  BY <1>2, Zenon
<1>. HIDE DEF f, g
<1>4. Over(f, n) /\ Over(g, n)
  BY <1>3 DEF Over, g
<1>5. ASSUME NEW h, Parsing(h)
      PROVE  h[0] = map /\ \A j \in 1 .. n : h[j] = Assigned(text, j, h[j - 1])
  BY <1>1, <1>5
<1>. HIDE DEF Parsing
<1>6. f = g
  BY <1>1, <1>2, <1>3, <1>4, <1>5, SameSteps
<1>7. g[n] = MapAfter(text, map, n)
  BY <1>1 DEF g
<1>8. Parse(text, map) = f[n]
  BY Zenon DEF Parse, Parsing, f, n
<1>. QED
  BY <1>6, <1>7, <1>8 DEF n

-----------------------------------------------------------------------------
(* What dump makes of a map.                                               *)

\* The rounds of dump's loop, from what it begins with.
DumpStates == [front : Seq(Lines), output : Seq(Lines), tag : Tags]
DumpStart  == [front |-> <<Skip>>, output |-> <<>>, tag |-> ""]
DumpRounds(map, n, f) ==
    /\ f \in [0 .. n -> DumpStates]
    /\ f[0] = DumpStart
    /\ \A i \in 1 .. n : f[i] = Dumped(f[i - 1], KeyOrder[i], map)
    /\ Dump(map) = f[n].front \o f[n].output \o <<Skip>>

LEMMA DumpGoesRound ==
    ASSUME NEW map, IsMap(map)
    PROVE  \E f : DumpRounds(map, Len(KeyOrder), f)
<1>. DEFINE n == Len(KeyOrder)
            States == DumpStates
            start == DumpStart
            Dumping(f) ==
              f = [i \in 0 .. n |-> IF i = 0 THEN start
                                    ELSE Dumped(f[i - 1], KeyOrder[i], map)]
            step == [x \in (1 .. n) \X States |-> Dumped(x[2], KeyOrder[x[1]], map)]
<1>1. n \in Nat /\ \A i \in 1 .. n : KeyOrder[i] \in Keys
  <2>1. KeyOrder \in Seq(Keys)
    BY KeysAssumption
  <2>. QED
    BY ONLY <2>1, LenProperties, ElementOfSeq
<1>2. start \in States
  <2>. USE DEF DumpStates, DumpStart
  <2>1. <<Skip>> \in Seq(Lines)
    BY LinesAre
  <2>2. \A s \in Seq(Lines) : [front |-> s, output |-> <<>>, tag |-> ""] \in States
    <3>1. "" \in Tags
      BY KeysAssumption
    <3>2. << >> \in Seq(Lines)
      OBVIOUS
    <3>. QED
      BY <3>1, <3>2
  <2>. QED
    BY <2>1, <2>2
<1>3. ASSUME NEW so \in States, NEW k \in Keys
      PROVE  Dumped(so, k, map) \in States
  <2>. USE DEF DumpStates
  <2>1. TagOf(k) \in Tags /\ NameOf(k) \in Names
    BY DEF Tags, Names
  <2>2. CASE k \notin DOMAIN map
    BY <2>2 DEF Dumped
  <2>3. CASE k \in DOMAIN map
    <3>. DEFINE pair == Pair(NameOf(k), map[k])
                section == Section(TagOf(k))
    <3>1. map[k] \in Values
      BY <2>3 DEF IsMap
    <3>2. pair \in Lines /\ section \in Lines
      BY <2>1, <3>1, LinesAre
    <3>. HIDE DEF pair, section
    <3>3. /\ Append(so.front, pair) \in Seq(Lines)
          /\ Append(so.output, pair) \in Seq(Lines)
          /\ so.output \o <<section, pair>> \in Seq(Lines)
      BY <3>2
    <3>4. \/ Dumped(so, k, map) = [so EXCEPT !.front = Append(@, pair)]
          \/ Dumped(so, k, map) = [so EXCEPT !.output = Append(@, pair)]
          \/ Dumped(so, k, map) = [so EXCEPT !.tag = TagOf(k),
                                             !.output = @ \o <<section, pair>>]
      BY <2>3 DEF Dumped, pair, section
    <3>. QED
      BY <2>1, <3>3, <3>4
  <2>. QED
    BY <2>2, <2>3
<1>. HIDE DEF start, States
<1>4. step \in [(1 .. n) \X States -> States]
  BY <1>1, <1>3
<1>. HIDE DEF n
<1>5. PICK g \in [0 .. n -> States] : Steps(start, step, n, g)
  <2>. HIDE DEF step
  <2>1. n \in 0 .. n
    BY <1>1
  <2>. QED
    BY <1>1, <1>2, <1>4, <2>1, StepsExist
<1>6. Dumping(g)
  <2>1. \A i \in 1 .. n : g[i] = step[<<i, g[i - 1]>>]
    BY <1>5 DEF Steps
  <2>2. g[0] = start
    BY <1>5 DEF Steps
  <2>3. ASSUME NEW i \in 0 .. n
        PROVE  g[i] = IF i = 0 THEN start ELSE Dumped(g[i - 1], KeyOrder[i], map)
    <3>1. CASE i # 0
      <4>1. i \in 1 .. n /\ i - 1 \in 0 .. n
        BY <1>1, <3>1
      <4>2. g[i - 1] \in States
        BY <4>1
      <4>. QED
        BY <2>1, <3>1, <4>1, <4>2
    <3>. QED
      BY <2>2, <3>1
  <2>4. g = [i \in 0 .. n |-> g[i]]
    OBVIOUS
  <2>5. [i \in 0 .. n |-> g[i]] = [i \in 0 .. n |-> IF i = 0 THEN start
                                    ELSE Dumped(g[i - 1], KeyOrder[i], map)]
    BY <2>3, Zenon
  <2>. QED
    BY <2>4, <2>5, Zenon
<1>. DEFINE f == CHOOSE h : Dumping(h)
<1>7. Dumping(f)
  BY <1>6, Zenon
<1>8. Dump(map) = f[n].front \o f[n].output \o <<Skip>>
  BY Zenon DEF Dump, Dumping, f, n, start, DumpStart
<1>. HIDE DEF f
<1>9. Over(f, n) /\ Over(g, n)
  BY <1>6, <1>7 DEF Over
<1>10. ASSUME NEW h, Dumping(h)
       PROVE  /\ h[0] = start
              /\ \A i \in 1 .. n : h[i] = Dumped(h[i - 1], KeyOrder[i], map)
  <2>1. \A i \in 0 .. n : h[i] = IF i = 0 THEN start ELSE Dumped(h[i - 1], KeyOrder[i], map)
    BY <1>10
  <2>2. 0 \in 0 .. n /\ \A i \in 1 .. n : i \in 0 .. n /\ i # 0
    BY <1>1
  <2>. QED
    BY <2>1, <2>2
<1>. HIDE DEF Dumping
<1>11. f = g
  BY <1>1, <1>6, <1>7, <1>9, <1>10, SameSteps
<1>12. f \in [0 .. n -> States] /\ f[0] = start
      /\ \A i \in 1 .. n : f[i] = Dumped(f[i - 1], KeyOrder[i], map)
  BY <1>7, <1>10, <1>11
<1>13. DumpRounds(map, n, f)
  BY <1>8, <1>12, Zenon DEF DumpRounds, States, start
<1>. QED
  BY <1>13, Zenon DEF n

LEMMA DumpIsText ==
    ASSUME NEW map, IsMap(map)
    PROVE  Dump(map) \in Seq(Lines)
<1>1. PICK f : DumpRounds(map, Len(KeyOrder), f)
  BY DumpGoesRound
<1>2. Len(KeyOrder) \in 0 .. Len(KeyOrder)
  <2>1. KeyOrder \in Seq(Keys)
    BY KeysAssumption
  <2>. QED
    BY ONLY <2>1, LenProperties
<1>3. f[Len(KeyOrder)] \in DumpStates
  BY <1>1, <1>2 DEF DumpRounds
<1>4. f[Len(KeyOrder)].front \in Seq(Lines) /\ f[Len(KeyOrder)].output \in Seq(Lines)
  BY <1>3 DEF DumpStates
<1>5. <<Skip>> \in Seq(Lines)
  BY LinesAre
<1>6. f[Len(KeyOrder)].front \o f[Len(KeyOrder)].output \o <<Skip>> \in Seq(Lines)
  BY <1>4, <1>5, ConcatProperties
<1>. QED
  BY <1>1, <1>6 DEF DumpRounds

-----------------------------------------------------------------------------
(* What dump writes, parse reads.                                          *)

\* Line i gives key k what the map has for it, in the section of k.
LineOf(map, text, i, k) ==
    text[i] = Pair(NameOf(k), map[k]) /\ SectionAt(text, i) = TagOf(k)

\* A text says of the keys in ks, and of no others, what the map has.
Says(map, text, ks) ==
    /\ text \in Seq(Lines)
    /\ \A i \in DOMAIN text : text[i].kind = "pair" => \E k \in ks : LineOf(map, text, i, k)
    /\ \A k \in ks : \E i \in DOMAIN text : LineOf(map, text, i, k)

\* The section that a text ends in.
Ending(text) == SectionAt(text, Len(text))

LEMMA SectionStays ==
    ASSUME NEW text \in Seq(Lines), NEW line \in Lines
    PROVE  /\ Append(text, line) \in Seq(Lines)
           /\ Len(Append(text, line)) = Len(text) + 1
           /\ Append(text, line)[Len(text) + 1] = line
           /\ \A i \in 1 .. Len(text) : Append(text, line)[i] = text[i]
           /\ \A i \in 0 .. Len(text) : SectionAt(Append(text, line), i) = SectionAt(text, i)
           /\ Ending(Append(text, line)) = IF line.kind = "section" THEN line.tag ELSE Ending(text)
<1>. DEFINE more == Append(text, line)
<1>1. /\ Len(text) \in Nat /\ more \in Seq(Lines) /\ Len(more) = Len(text) + 1
      /\ more[Len(text) + 1] = line
      /\ \A i \in 1 .. Len(text) : more[i] = text[i]
  BY AppendProperties, LenProperties
<1>. HIDE DEF more
<1>2. ASSUME NEW i \in 0 .. Len(text)
      PROVE  SectionAt(more, i) = SectionAt(text, i)
  <2>1. \A j \in 1 .. i : more[j] = text[j]
    BY <1>1
  <2>2. {j \in 1 .. i : more[j].kind = "section"} = {j \in 1 .. i : text[j].kind = "section"}
    BY <2>1
  <2>3. PICK above : above = {j \in 1 .. i : text[j].kind = "section"}
    OBVIOUS
  <2>4. CASE above = {}
    BY <2>2, <2>3, <2>4 DEF SectionAt
  <2>5. CASE above # {}
    <3>1. above \in SUBSET (0 .. Len(text)) /\ above \in SUBSET Nat
      BY <1>1, <2>3
    <3>2. PICK m \in above : \A x \in above : x =< m
      BY <1>1, <2>5, <3>1, Greatest
    <3>3. Max(above) = m
      BY <3>1, <3>2, MaxIs
    <3>4. more[Max(above)] = text[Max(above)]
      BY <2>1, <2>3, <3>2, <3>3
    <3>. QED
      BY <2>2, <2>3, <2>5, <3>4 DEF SectionAt
  <2>. QED
    BY <2>4, <2>5
<1>3. Ending(more) = IF line.kind = "section" THEN line.tag ELSE Ending(text)
  <2>1. Len(text) + 1 \in 1 .. Len(more) /\ (Len(text) + 1) - 1 = Len(text)
    BY <1>1
  <2>2. SectionAt(more, Len(text) + 1) =
          IF more[Len(text) + 1].kind = "section" THEN more[Len(text) + 1].tag
          ELSE SectionAt(more, Len(text))
    BY <1>1, <2>1, SectionSteps
  <2>3. SectionAt(more, Len(text)) = SectionAt(text, Len(text))
    BY <1>1, <1>2
  <2>. QED
    BY <1>1, <2>2, <2>3 DEF Ending
<1>. QED
  BY <1>1, <1>2, <1>3 DEF more

\* One line more that is no pair.
LEMMA SaysAside ==
    ASSUME NEW map, NEW text, NEW ks, Says(map, text, ks), NEW line \in Lines, line.kind # "pair"
    PROVE  Says(map, Append(text, line), ks)
<1>. DEFINE more == Append(text, line)
<1>1. text \in Seq(Lines) /\ Len(text) \in Nat /\ DOMAIN text = 1 .. Len(text)
  BY LenProperties DEF Says
<1>2. /\ more \in Seq(Lines) /\ Len(more) = Len(text) + 1 /\ more[Len(text) + 1] = line
      /\ \A i \in 1 .. Len(text) : more[i] = text[i] /\ SectionAt(more, i) = SectionAt(text, i)
  BY <1>1, SectionStays
<1>. HIDE DEF more
<1>3. DOMAIN more = 1 .. Len(text) + 1
  BY <1>2, LenProperties
<1>4. \A i \in 1 .. Len(text) : \A k : LineOf(map, more, i, k) <=> LineOf(map, text, i, k)
  BY <1>2 DEF LineOf
<1>5. ASSUME NEW i \in DOMAIN more, more[i].kind = "pair"
      PROVE  \E k \in ks : LineOf(map, more, i, k)
  <2>1. i \in 1 .. Len(text)
    BY <1>1, <1>2, <1>3, <1>5
  <2>2. text[i].kind = "pair"
    BY <1>2, <1>5, <2>1
  <2>3. PICK k \in ks : LineOf(map, text, i, k)
    BY <1>1, <2>1, <2>2 DEF Says
  <2>. QED
    BY <1>4, <2>1, <2>3
<1>6. ASSUME NEW k \in ks
      PROVE  \E i \in DOMAIN more : LineOf(map, more, i, k)
  <2>1. PICK i \in DOMAIN text : LineOf(map, text, i, k)
    BY DEF Says
  <2>. QED
    BY <1>1, <1>3, <1>4, <2>1
<1>. QED
  BY <1>2, <1>5, <1>6 DEF Says, more

\* One line more, of a key of the section that the text ends in.
LEMMA SaysMore ==
    ASSUME NEW map, IsMap(map), NEW text, NEW ks, Says(map, text, ks),
           NEW key \in DOMAIN map, Ending(text) = TagOf(key)
    PROVE  LET more == Append(text, Pair(NameOf(key), map[key]))
           IN  Says(map, more, ks \cup {key}) /\ Ending(more) = TagOf(key)
<1>. DEFINE line == Pair(NameOf(key), map[key])
            more == Append(text, line)
<1>1. text \in Seq(Lines) /\ Len(text) \in Nat /\ DOMAIN text = 1 .. Len(text)
  BY LenProperties DEF Says
<1>2. line \in Lines /\ line.kind = "pair"
  <2>1. key \in Keys /\ map[key] \in Values
    BY DEF IsMap
  <2>2. NameOf(key) \in Names
    BY <2>1 DEF Names
  <2>3. line \in Lines
    BY ONLY <2>1, <2>2, LinesAre
  <2>. QED
    BY <2>3 DEF Pair
<1>3. /\ more \in Seq(Lines) /\ Len(more) = Len(text) + 1 /\ more[Len(text) + 1] = line
      /\ \A i \in 1 .. Len(text) : more[i] = text[i] /\ SectionAt(more, i) = SectionAt(text, i)
      /\ Ending(more) = TagOf(key)
  <2>. HIDE DEF line
  <2>1. line.kind # "section"
    BY <1>2
  <2>. QED
    BY <1>1, <1>2, <2>1, SectionStays
<1>4. LineOf(map, more, Len(text) + 1, key)
  BY <1>3 DEF LineOf, Ending
<1>. HIDE DEF more, line
<1>5. DOMAIN more = 1 .. Len(text) + 1
  BY <1>3, LenProperties
<1>6. \A i \in 1 .. Len(text) : \A k : LineOf(map, more, i, k) <=> LineOf(map, text, i, k)
  BY <1>3 DEF LineOf
<1>7. ASSUME NEW i \in DOMAIN more, more[i].kind = "pair"
      PROVE  \E k \in ks \cup {key} : LineOf(map, more, i, k)
  <2>1. CASE i = Len(text) + 1
    BY <1>4, <2>1
  <2>2. CASE i # Len(text) + 1
    <3>1. i \in 1 .. Len(text)
      BY <1>1, <1>5, <2>2
    <3>2. text[i].kind = "pair"
      BY <1>3, <1>7, <3>1
    <3>3. PICK k \in ks : LineOf(map, text, i, k)
      BY <1>1, <3>1, <3>2 DEF Says
    <3>. QED
      BY <1>6, <3>1, <3>3
  <2>. QED
    BY <2>1, <2>2
<1>8. ASSUME NEW k \in ks \cup {key}
      PROVE  \E i \in DOMAIN more : LineOf(map, more, i, k)
  <2>1. CASE k = key
    <3>1. Len(text) + 1 \in DOMAIN more
      BY <1>1, <1>5
    <3>. QED
      BY <1>4, <2>1, <3>1
  <2>2. CASE k \in ks
    <3>1. PICK i \in DOMAIN text : LineOf(map, text, i, k)
      BY <2>2 DEF Says
    <3>. QED
      BY <1>1, <1>5, <1>6, <3>1
  <2>. QED
    BY <2>1, <2>2
<1>. QED
  BY <1>3, <1>7, <1>8 DEF Says, more, line

LEMMA ConcatIs ==
    ASSUME NEW V, NEW s \in Seq(V), NEW t \in Seq(V), NEW u, u = s \o t,
           NEW a, a = Len(s), NEW b, b = Len(t)
    PROVE  /\ a \in Nat /\ b \in Nat
           /\ DOMAIN s = 1 .. a /\ DOMAIN t = 1 .. b
           /\ u \in Seq(V) /\ DOMAIN u = 1 .. a + b
           /\ \A j \in 1 .. a : u[j] = s[j]
           /\ \A j \in 1 .. b : u[a + j] = t[j]
<1>1. a \in Nat /\ b \in Nat /\ DOMAIN s = 1 .. a /\ DOMAIN t = 1 .. b
  BY LenProperties
<1>2. /\ u \in Seq(V) /\ Len(u) = a + b
      /\ \A j \in 1 .. a + b : u[j] = IF j =< a THEN s[j] ELSE t[j - a]
  BY ConcatProperties
<1>3. DOMAIN u = 1 .. a + b
  BY <1>2, LenProperties
<1>4. ASSUME NEW j \in 1 .. a PROVE u[j] = s[j]
  <2>1. j \in 1 .. a + b /\ j =< a
    BY ONLY <1>1, <1>4
  <2>. QED
    BY ONLY <1>2, <2>1
<1>5. ASSUME NEW j \in 1 .. b PROVE u[a + j] = t[j]
  <2>1. a + j \in 1 .. a + b /\ ~(a + j =< a) /\ (a + j) - a = j
    BY ONLY <1>1, <1>5
  <2>. QED
    BY ONLY <1>2, <2>1
<1>. QED
  BY ONLY <1>1, <1>2, <1>3, <1>4, <1>5

\* Behind another text, a line in a section of its own text is in that section.
LEMMA SectionBehind ==
    ASSUME NEW front \in Seq(Lines), NEW text \in Seq(Lines), NEW all, all = front \o text,
           NEW i \in 1 .. Len(text), SectionAt(text, i) # ""
    PROVE  SectionAt(all, Len(front) + i) = SectionAt(text, i)
<1>a. PICK a : a = Len(front)
  OBVIOUS
<1>0. PICK b : b = Len(text)
  OBVIOUS
<1>1. /\ a \in Nat /\ b \in Nat /\ i \in 1 .. b
      /\ \A j \in 1 .. b : all[a + j] = text[j]
  <2>1. /\ a \in Nat /\ b \in Nat
        /\ \A j \in 1 .. b : all[a + j] = text[j]
    BY ONLY <1>a, <1>0, all = front \o text, front \in Seq(Lines),
            text \in Seq(Lines), ConcatIs
  <2>. QED
    BY ONLY <1>0, <2>1, i \in 1 .. Len(text)
<1>2. PICK above : above = {j \in 1 .. i : text[j].kind = "section"}
  OBVIOUS
<1>3. SectionAt(text, i) = IF above = {} THEN "" ELSE text[Max(above)].tag
  BY <1>2 DEF SectionAt
<1>4. above # {}
  BY <1>3
<1>5. above \in SUBSET (0 .. b) /\ above \in SUBSET Nat
  BY ONLY <1>1, <1>2
<1>6. PICK m \in above : \A x \in above : x =< m
  BY ONLY <1>1, <1>4, <1>5, Greatest
<1>7. Max(above) = m
  BY ONLY <1>5, <1>6, MaxIs
<1>8. m \in 1 .. i /\ m \in 1 .. b /\ text[m].kind = "section"
  BY ONLY <1>1, <1>2, m \in above
<1>9. all[a + m] = text[m]
  BY ONLY <1>1, <1>8
<1>10. PICK over : over = {j \in 1 .. a + i : all[j].kind = "section"}
  OBVIOUS
<1>11. a + m \in 1 .. a + i /\ a + m \in Nat
  BY ONLY <1>1, <1>8
<1>12. a + m \in over
  <2>1. PICK x : x = a + m
    OBVIOUS
  <2>2. x \in 1 .. a + i /\ all[x].kind = "section"
    BY ONLY <1>8, <1>9, <1>11, <2>1
  <2>. QED
    BY ONLY <1>10, <2>1, <2>2
<1>13. over \in SUBSET Nat
  BY ONLY <1>1, <1>10
<1>14. ASSUME NEW x \in over PROVE x =< a + m
  <2>1. x \in Nat /\ x \in 1 .. a + i /\ all[x].kind = "section"
    BY ONLY <1>10, <1>13, <1>14
  <2>2. CASE x =< a
    BY ONLY <1>1, <1>8, <2>1, <2>2
  <2>3. CASE ~(x =< a)
    <3>1. PICK j : j = x - a
      OBVIOUS
    <3>2. j \in 1 .. i /\ j \in 1 .. b /\ a + j = x
      BY ONLY <1>1, <2>1, <2>3, <3>1
    <3>3. j \in above
      BY ONLY <1>1, <1>2, <2>1, <3>2
    <3>4. j =< m
      BY ONLY <1>6, <3>3
    <3>. QED
      BY ONLY <1>1, <1>8, <3>2, <3>4
  <2>. QED
    BY ONLY <2>2, <2>3
<1>15. Max(over) = a + m
  BY ONLY <1>12, <1>13, <1>14, MaxIs
<1>16. SectionAt(all, a + i) = IF over = {} THEN "" ELSE all[Max(over)].tag
  BY ONLY <1>10 DEF SectionAt
<1>. QED
  BY ONLY <1>a, <1>3, <1>4, <1>7, <1>9, <1>12, <1>15, <1>16

LEMMA SectionBefore ==
    ASSUME NEW front \in Seq(Lines), NEW text \in Seq(Lines), NEW all, all = front \o text,
           NEW i \in 1 .. Len(front)
    PROVE  SectionAt(all, i) = SectionAt(front, i)
<1>0. PICK a : a = Len(front)
  OBVIOUS
<1>1. a \in Nat /\ i \in 1 .. a /\ \A j \in 1 .. a : all[j] = front[j]
  BY <1>0, ConcatIs
<1>2. PICK above : above = {j \in 1 .. i : front[j].kind = "section"}
  OBVIOUS
<1>3. {j \in 1 .. i : all[j].kind = "section"} = above
  BY ONLY <1>1, <1>2
<1>4. /\ SectionAt(all, i) = IF above = {} THEN "" ELSE all[Max(above)].tag
      /\ SectionAt(front, i) = IF above = {} THEN "" ELSE front[Max(above)].tag
  BY ONLY <1>2, <1>3 DEF SectionAt
<1>5. ASSUME above # {} PROVE all[Max(above)] = front[Max(above)]
  <2>1. above \in SUBSET (0 .. a) /\ above \in SUBSET Nat
    BY ONLY <1>1, <1>2
  <2>2. PICK m \in above : \A x \in above : x =< m
    BY ONLY <1>1, <1>5, <2>1, Greatest
  <2>3. Max(above) = m
    BY ONLY <2>1, <2>2, MaxIs
  <2>4. m \in 1 .. a
    BY ONLY <1>1, <1>2, m \in above
  <2>. QED
    BY ONLY <1>1, <2>3, <2>4
<1>. QED
  <2>1. CASE above = {}
    BY ONLY <1>4, <2>1
  <2>2. CASE above # {}
    BY ONLY <1>4, <1>5, <2>2
  <2>. QED
    BY ONLY <2>1, <2>2

\* What two texts say, the second of keys with tags, they say together.
LEMMA SaysBoth ==
    ASSUME NEW map, NEW front, NEW text, NEW ks, NEW ls,
           Says(map, front, ks), Says(map, text, ls), \A k \in ls : TagOf(k) # ""
    PROVE  Says(map, front \o text, ks \cup ls)
<1>1. PICK all : all = front \o text
  OBVIOUS
<1>2. PICK a : a = Len(front)
  OBVIOUS
<1>3. PICK b : b = Len(text)
  OBVIOUS
<1>4. front \in Seq(Lines) /\ text \in Seq(Lines)
  BY DEF Says
<1>5. /\ a \in Nat /\ b \in Nat /\ DOMAIN front = 1 .. a /\ DOMAIN text = 1 .. b
      /\ all \in Seq(Lines) /\ DOMAIN all = 1 .. a + b
      /\ \A j \in 1 .. a : all[j] = front[j]
      /\ \A j \in 1 .. b : all[a + j] = text[j]
  BY ONLY <1>1, <1>2, <1>3, <1>4, ConcatIs
<1>6. ASSUME NEW i \in 1 .. a PROVE SectionAt(all, i) = SectionAt(front, i)
  BY ONLY <1>1, <1>2, <1>4, i \in 1 .. a, SectionBefore
<1>7. ASSUME NEW i \in 1 .. b, SectionAt(text, i) # ""
      PROVE  SectionAt(all, a + i) = SectionAt(text, i)
  <2>1. i \in 1 .. Len(text)
    BY ONLY <1>3, i \in 1 .. b
  <2>. QED
    BY ONLY <1>1, <1>2, <1>4, <1>7, <2>1, SectionBehind, Zenon
<1>8. \A i \in 1 .. a : \A k : LineOf(map, front, i, k) => LineOf(map, all, i, k)
  BY ONLY <1>5, <1>6 DEF LineOf
<1>9. ASSUME NEW i \in 1 .. b, NEW k \in ls, LineOf(map, text, i, k)
      PROVE  LineOf(map, all, a + i, k)
  <2>1. SectionAt(text, i) = TagOf(k) /\ TagOf(k) # "" /\ text[i] = Pair(NameOf(k), map[k])
    BY <1>9 DEF LineOf
  <2>2. SectionAt(all, a + i) = TagOf(k) /\ all[a + i] = Pair(NameOf(k), map[k])
    BY ONLY <1>5, <1>7, <2>1, i \in 1 .. b
  <2>. QED
    BY ONLY <2>2 DEF LineOf
<1>10. ASSUME NEW i \in DOMAIN all, all[i].kind = "pair"
       PROVE  \E k \in ks \cup ls : LineOf(map, all, i, k)
  <2>1. CASE i =< a
    <3>1. i \in 1 .. a
      BY ONLY <1>5, <2>1, i \in DOMAIN all
    <3>2. i \in DOMAIN front /\ front[i].kind = "pair"
      BY ONLY <1>5, <1>10, <3>1
    <3>3. PICK k \in ks : LineOf(map, front, i, k)
      BY <3>2 DEF Says
    <3>. QED
      BY ONLY <1>8, <3>1, <3>3, k \in ks
  <2>2. CASE ~(i =< a)
    <3>1. PICK j : j = i - a
      OBVIOUS
    <3>2. j \in 1 .. b /\ i = a + j
      BY ONLY <1>5, <2>2, <3>1, i \in DOMAIN all
    <3>3. j \in DOMAIN text /\ text[j].kind = "pair"
      BY ONLY <1>5, <1>10, <3>2
    <3>4. PICK k \in ls : LineOf(map, text, j, k)
      BY <3>3 DEF Says
    <3>. QED
      BY ONLY <1>9, <3>2, <3>4, k \in ls
  <2>. QED
    BY ONLY <2>1, <2>2
<1>11. ASSUME NEW k \in ks \cup ls
       PROVE  \E i \in DOMAIN all : LineOf(map, all, i, k)
  <2>1. CASE k \in ks
    <3>1. PICK i \in DOMAIN front : LineOf(map, front, i, k)
      BY <2>1 DEF Says
    <3>2. i \in 1 .. a /\ i \in DOMAIN all
      BY ONLY <1>5, i \in DOMAIN front
    <3>. QED
      BY ONLY <1>8, <3>1, <3>2
  <2>2. CASE k \in ls
    <3>1. PICK i \in DOMAIN text : LineOf(map, text, i, k)
      BY <2>2 DEF Says
    <3>2. i \in 1 .. b /\ a + i \in DOMAIN all
      BY ONLY <1>5, i \in DOMAIN text
    <3>. QED
      BY ONLY <1>9, <2>2, <3>1, <3>2
  <2>. QED
    BY <2>1, <2>2
<1>. QED
  BY ONLY <1>1, <1>5, <1>10, <1>11 DEF Says

\* The keys of the map among the first n, with a tag and without.
Among(map, n) == {KeyOrder[i] : i \in 1 .. n} \cap DOMAIN map
Fronted(map, n) == {k \in Among(map, n) : TagOf(k) = ""}
Tagged(map, n)  == {k \in Among(map, n) : TagOf(k) # ""}

\* What dump has written after n keys.
Written(map, n, so) ==
    /\ Says(map, so.front, Fronted(map, n)) /\ Ending(so.front) = ""
    /\ Says(map, so.output, Tagged(map, n)) /\ Ending(so.output) = so.tag

LEMMA WrittenOnce ==
    ASSUME NEW map, IsMap(map), NEW n \in 1 .. Len(KeyOrder), NEW so \in DumpStates,
           Written(map, n - 1, so)
    PROVE  Written(map, n, Dumped(so, KeyOrder[n], map))
<1>1. PICK k : k = KeyOrder[n]
  OBVIOUS
<1>2. k \in Keys
  <2>1. KeyOrder \in Seq(Keys)
    BY KeysAssumption
  <2>. QED
    BY ONLY <1>1, <2>1, n \in 1 .. Len(KeyOrder), ElementOfSeq
<1>3. Among(map, n) = IF k \in DOMAIN map THEN Among(map, n - 1) \cup {k} ELSE Among(map, n - 1)
  <2>1. {KeyOrder[i] : i \in 1 .. n} = {KeyOrder[i] : i \in 1 .. n - 1} \cup {k}
    <3>1. Len(KeyOrder) \in Nat /\ n \in Nat
      <4>1. KeyOrder \in Seq(Keys)
        BY KeysAssumption
      <4>. QED
        BY ONLY <4>1, LenProperties, n \in 1 .. Len(KeyOrder)
    <3>2. \A i \in 1 .. n : i \in 1 .. n - 1 \/ i = n
      BY <3>1
    <3>3. n \in 1 .. n /\ \A i \in 1 .. n - 1 : i \in 1 .. n
      BY <3>1
    <3>. QED
      BY ONLY <1>1, <3>2, <3>3
  <2>. QED
    BY ONLY <2>1 DEF Among
<1>4. CASE k \notin DOMAIN map
  <2>1. Dumped(so, k, map) = so
    BY <1>4 DEF Dumped
  <2>2. Fronted(map, n) = Fronted(map, n - 1) /\ Tagged(map, n) = Tagged(map, n - 1)
    BY ONLY <1>3, <1>4 DEF Fronted, Tagged
  <2>. QED
    BY <1>1, <2>1, <2>2 DEF Written
<1>5. CASE k \in DOMAIN map /\ TagOf(k) = ""
  <2>1. PICK line : line = Pair(NameOf(k), map[k])
    OBVIOUS
  <2>2. Dumped(so, k, map) = [so EXCEPT !.front = Append(@, line)]
    BY <1>5, <2>1 DEF Dumped
  <2>3. /\ Dumped(so, k, map).front = Append(so.front, line)
        /\ Dumped(so, k, map).output = so.output
        /\ Dumped(so, k, map).tag = so.tag
    BY <2>2 DEF DumpStates
  <2>4. Fronted(map, n) = Fronted(map, n - 1) \cup {k} /\ Tagged(map, n) = Tagged(map, n - 1)
    BY ONLY <1>3, <1>5 DEF Fronted, Tagged
  <2>5. /\ Says(map, Append(so.front, line), Fronted(map, n - 1) \cup {k})
        /\ Ending(Append(so.front, line)) = ""
    BY <1>5, <2>1, SaysMore DEF Written
  <2>. QED
    BY <1>1, <2>3, <2>4, <2>5 DEF Written
<1>6. CASE k \in DOMAIN map /\ TagOf(k) # ""
  <2>1. PICK line : line = Pair(NameOf(k), map[k])
    OBVIOUS
  <2>2. Fronted(map, n) = Fronted(map, n - 1) /\ Tagged(map, n) = Tagged(map, n - 1) \cup {k}
    <3>1. Among(map, n) = Among(map, n - 1) \cup {k}
      BY ONLY <1>3, <1>6
    <3>2. \A x : x \in Fronted(map, n) <=> x \in Fronted(map, n - 1)
      BY ONLY <1>6, <3>1 DEF Fronted
    <3>3. \A x : x \in Tagged(map, n) <=> x \in Tagged(map, n - 1) \cup {k}
      BY ONLY <1>6, <3>1 DEF Tagged
    <3>. QED
      BY ONLY <3>2, <3>3
  <2>3. CASE TagOf(k) = so.tag
    <3>1. Dumped(so, k, map) = [so EXCEPT !.output = Append(@, line)]
      BY <1>6, <2>1, <2>3 DEF Dumped
    <3>2. /\ Dumped(so, k, map).output = Append(so.output, line)
          /\ Dumped(so, k, map).front = so.front
          /\ Dumped(so, k, map).tag = TagOf(k)
      BY <2>3, <3>1 DEF DumpStates
    <3>3. /\ Says(map, Append(so.output, line), Tagged(map, n - 1) \cup {k})
          /\ Ending(Append(so.output, line)) = TagOf(k)
      BY <1>6, <2>1, <2>3, SaysMore DEF Written
    <3>. QED
      BY <1>1, <2>2, <3>2, <3>3 DEF Written
  <2>4. CASE TagOf(k) # so.tag
    <3>1. PICK section : section = Section(TagOf(k))
      OBVIOUS
    <3>2. section \in Lines /\ section.kind = "section" /\ section.tag = TagOf(k)
      <4>1. TagOf(k) \in Tags
        BY <1>2 DEF Tags
      <4>2. section \in Lines
        BY ONLY <3>1, <4>1, LinesAre
      <4>. QED
        BY <3>1, <4>2 DEF Section
    <3>3. PICK headed : headed = Append(so.output, section)
      OBVIOUS
    <3>4. so.output \in Seq(Lines)
      BY DEF DumpStates
    <3>5. Says(map, headed, Tagged(map, n - 1)) /\ Ending(headed) = TagOf(k)
      BY <3>2, <3>3, <3>4, SaysAside, SectionStays DEF Written
    <3>6. /\ Says(map, Append(headed, line), Tagged(map, n - 1) \cup {k})
          /\ Ending(Append(headed, line)) = TagOf(k)
      BY <1>6, <2>1, <3>5, SaysMore
    <3>7. so.output \o <<section, line>> = Append(headed, line)
      <4>1. line \in Lines
        <5>1. map[k] \in Values
          BY <1>6 DEF IsMap
        <5>2. NameOf(k) \in Names
          BY <1>2 DEF Names
        <5>. QED
          BY ONLY <2>1, <5>1, <5>2, LinesAre
      <4>. QED
        BY ONLY <3>2, <3>3, <3>4, <4>1
    <3>8. Dumped(so, k, map) = [so EXCEPT !.tag = TagOf(k), !.output = @ \o <<section, line>>]
      BY <1>6, <2>1, <2>4, <3>1 DEF Dumped
    <3>9. /\ Dumped(so, k, map).output = Append(headed, line)
          /\ Dumped(so, k, map).front = so.front
          /\ Dumped(so, k, map).tag = TagOf(k)
      BY <3>7, <3>8 DEF DumpStates
    <3>. QED
      BY <1>1, <2>2, <3>6, <3>9 DEF Written
  <2>. QED
    BY <2>3, <2>4
<1>. QED
  BY <1>4, <1>5, <1>6

LEMMA StateFields ==
    ASSUME NEW a, NEW b, NEW c, NEW so, so = [front |-> a, output |-> b, tag |-> c]
    PROVE  so.front = a /\ so.output = b /\ so.tag = c
  BY ONLY so = [front |-> a, output |-> b, tag |-> c]

LEMMA DumpSays ==
    ASSUME NEW map, IsMap(map)
    PROVE  Says(map, Dump(map), DOMAIN map)
<1>1. PICK n : n = Len(KeyOrder)
  OBVIOUS
<1>2. PICK f : DumpRounds(map, n, f)
  BY <1>1, DumpGoesRound
<1>3. n \in Nat /\ DOMAIN KeyOrder = 1 .. n
  <2>1. KeyOrder \in Seq(Keys)
    BY KeysAssumption
  <2>. QED
    BY ONLY <1>1, <2>1, LenProperties
<1>4. /\ \A i \in 0 .. n : f[i] \in DumpStates
      /\ f[0] = DumpStart
      /\ \A i \in 1 .. n : f[i] = Dumped(f[i - 1], KeyOrder[i], map)
      /\ Dump(map) = f[n].front \o f[n].output \o <<Skip>>
  BY <1>2 DEF DumpRounds
<1>5. Written(map, 0, f[0])
  <2>1. Among(map, 0) = {}
    BY DEF Among
  <2>2. Fronted(map, 0) = {} /\ Tagged(map, 0) = {}
    BY <2>1 DEF Fronted, Tagged
  <2>3. PICK e : e = <<>>
    OBVIOUS
  <2>4. e \in Seq(Lines) /\ Len(e) = 0 /\ DOMAIN e = {} /\ Append(e, Skip) = <<Skip>>
    <3>1. <<>> \in Seq(Lines) /\ Len(<<>>) = 0 /\ DOMAIN <<>> = {}
      OBVIOUS
    <3>2. Append(<<>>, Skip) = <<Skip>>
      OBVIOUS
    <3>. QED
      BY ONLY <2>3, <3>1, <3>2
  <2>5. PICK one : one = <<Skip>>
    OBVIOUS
  <2>6. f[0].front = one /\ f[0].output = e /\ f[0].tag = ""
    <3>1. f[0] = [front |-> one, output |-> e, tag |-> ""]
      BY ONLY <1>4, <2>3, <2>5 DEF DumpStart
    <3>2. PICK first : first = f[0]
      OBVIOUS
    <3>3. PICK blank : blank = ""
      OBVIOUS
    <3>4. first = [front |-> one, output |-> e, tag |-> blank]
      BY ONLY <3>1, <3>2, <3>3
    <3>5. first.front = one /\ first.output = e /\ first.tag = blank
      BY ONLY <3>4, StateFields
    <3>. QED
      BY ONLY <3>2, <3>3, <3>5
  <2>7. Says(map, e, {}) /\ Ending(e) = ""
    <3>1. SectionAt(e, 0) = ""
      BY ONLY <2>4, SectionSteps
    <3>. QED
      BY ONLY <2>4, <3>1 DEF Says, Ending
  <2>8. Says(map, one, {}) /\ Ending(one) = ""
    <3>1. Skip \in Lines /\ Skip.kind = "skip"
      BY LinesAre DEF Skip
    <3>2. PICK line : line = Skip
      OBVIOUS
    <3>3. line \in Lines /\ line.kind # "pair" /\ line.kind # "section" /\ one = Append(e, line)
      BY ONLY <2>4, <2>5, <3>1, <3>2
    <3>4. Says(map, one, {})
      BY ONLY <2>7, <3>3, SaysAside
    <3>5. Ending(one) = Ending(e)
      BY ONLY <2>4, <3>3, SectionStays
    <3>. QED
      BY ONLY <2>7, <3>4, <3>5
  <2>. QED
    BY ONLY <2>2, <2>6, <2>7, <2>8 DEF Written
<1>. DEFINE S == {i \in Nat : i =< n => Written(map, i, f[i])}
<1>5a. 0 \in S
  BY <1>5
<1>6. ASSUME NEW i \in Nat, i \in S PROVE i + 1 \in S
  <2>. SUFFICES ASSUME i + 1 =< n PROVE Written(map, i + 1, f[i + 1])
    OBVIOUS
  <2>1. i =< n /\ i \in 0 .. n /\ i + 1 \in 1 .. n /\ (i + 1) - 1 = i
    BY <1>3
  <2>2. Written(map, i, f[i]) /\ f[i] \in DumpStates
    BY <1>4, <1>6, <2>1
  <2>3. f[i + 1] = Dumped(f[i], KeyOrder[i + 1], map)
    BY <1>4, <2>1
  <2>4. PICK j : j = i + 1
    OBVIOUS
  <2>5. j \in 1 .. Len(KeyOrder) /\ j - 1 = i
    BY <1>1, <2>1, <2>4
  <2>6. Written(map, j, Dumped(f[i], KeyOrder[j], map))
    BY ONLY IsMap(map), <2>2, <2>5, WrittenOnce
  <2>. QED
    BY <2>3, <2>4, <2>6
<1>. HIDE DEF S
<1>7. Nat \subseteq S
  BY <1>5a, <1>6, Induction
<1>8. Written(map, n, f[n]) /\ f[n] \in DumpStates
  BY <1>3, <1>4, <1>7 DEF S
<1>9. Among(map, n) = DOMAIN map
  <2>1. Keys = {KeyOrder[i] : i \in 1 .. n}
    BY <1>3 DEF Keys, Range
  <2>. QED
    BY <2>1 DEF Among, IsMap
<1>10. Fronted(map, n) \cup Tagged(map, n) = DOMAIN map
  BY <1>9 DEF Fronted, Tagged
<1>11. \A k \in Tagged(map, n) : TagOf(k) # ""
  BY DEF Tagged
<1>12. Says(map, f[n].front \o f[n].output, DOMAIN map)
  <2>1. Says(map, f[n].front, Fronted(map, n)) /\ Says(map, f[n].output, Tagged(map, n))
    BY <1>8 DEF Written
  <2>2. Says(map, f[n].front \o f[n].output, Fronted(map, n) \cup Tagged(map, n))
    BY ONLY <1>11, <2>1, SaysBoth
  <2>. QED
    BY ONLY <1>10, <2>2
<1>13. PICK text : text = f[n].front \o f[n].output
  OBVIOUS
<1>14. Says(map, text, DOMAIN map) /\ text \in Seq(Lines)
  BY <1>12, <1>13 DEF Says
<1>15. Dump(map) = Append(text, Skip)
  <2>1. Dump(map) = text \o <<Skip>> /\ Skip \in Lines
    BY <1>4, <1>13, LinesAre
  <2>. QED
    BY ONLY <1>14, <2>1
<1>16. Skip \in Lines /\ Skip.kind # "pair"
  BY LinesAre DEF Skip
<1>. QED
  BY ONLY <1>14, <1>15, <1>16, SaysAside

\* What dump writes, parse reads: each key has its value again, and there are no
\* other keys.  A key without a dot comes back with one in front, as every name
\* before the first section header does; so no two keys of the map may be the
\* same but for that dot.
THEOREM DumpSurvives ==
    ASSUME NEW map, IsMap(map),
           \A k, l \in DOMAIN map : TagOf(k) = TagOf(l) /\ NameOf(k) = NameOf(l) => k = l
    PROVE  LET read == Parse(Dump(map), NoConfig)
           IN  /\ DOMAIN read = {<<TagOf(k), NameOf(k)>> : k \in DOMAIN map}
               /\ \A k \in DOMAIN map : read[<<TagOf(k), NameOf(k)>>] = map[k]
<1>1. PICK text : text = Dump(map)
  OBVIOUS
<1>2. Says(map, text, DOMAIN map) /\ text \in Seq(Lines)
  BY <1>1, DumpSays DEF Says
<1>3. PICK n : n = Len(text)
  OBVIOUS
<1>4. n \in Nat /\ DOMAIN text = 1 .. n
  BY <1>2, <1>3, LenProperties
<1>5. IsMap(NoConfig) /\ DOMAIN NoConfig = {}
  BY DEF NoConfig, IsMap
<1>6. PICK read : read = MapAfter(text, NoConfig, n)
  OBVIOUS
<1>7. Parse(text, NoConfig) = read
  BY ONLY <1>2, <1>3, <1>5, <1>6, ParseIs
<1>8. \A q : LinesOf(text, q) = Upto(text, q, n) /\ LinesOf(text, q) \in SUBSET (1 .. n)
  BY <1>4 DEF LinesOf, Upto
<1>9. /\ DOMAIN read = {q \in Keys : LinesOf(text, q) # {}}
      /\ \A q \in Keys : LinesOf(text, q) # {} => read[q] = text[Max(LinesOf(text, q))].val
  BY <1>5, <1>6, <1>8 DEF MapAfter
<1>10. ASSUME NEW q, NEW i \in LinesOf(text, q)
       PROVE  \E k \in DOMAIN map : q = <<TagOf(k), NameOf(k)>> /\ text[i].val = map[k]
  <2>1. i \in DOMAIN text /\ text[i].kind = "pair" /\ q = <<SectionAt(text, i), text[i].name>>
    BY DEF LinesOf
  <2>2. PICK k \in DOMAIN map : LineOf(map, text, i, k)
    BY <1>2, <2>1 DEF Says
  <2>3. text[i] = Pair(NameOf(k), map[k]) /\ SectionAt(text, i) = TagOf(k)
    BY <2>2 DEF LineOf
  <2>4. text[i].name = NameOf(k) /\ text[i].val = map[k]
    BY <2>3 DEF Pair
  <2>. QED
    BY <2>1, <2>3, <2>4
<1>11. ASSUME NEW k \in DOMAIN map
       PROVE  LinesOf(text, <<TagOf(k), NameOf(k)>>) # {}
  <2>1. PICK i \in DOMAIN text : LineOf(map, text, i, k)
    BY <1>2 DEF Says
  <2>2. text[i] = Pair(NameOf(k), map[k]) /\ SectionAt(text, i) = TagOf(k)
    BY <2>1 DEF LineOf
  <2>3. text[i].kind = "pair" /\ text[i].name = NameOf(k)
    BY <2>2 DEF Pair
  <2>. QED
    BY <2>2, <2>3 DEF LinesOf
<1>12. ASSUME NEW k \in DOMAIN map PROVE <<TagOf(k), NameOf(k)>> \in Keys
  <2>1. TagOf(k) \in Tags /\ NameOf(k) \in Names
    BY DEF IsMap, Tags, Names
  <2>2. <<TagOf(k), NameOf(k)>> \in Tags \X Names
    BY <2>1
  <2>. QED
    BY ONLY <2>2, KeysAssumption
<1>13. DOMAIN read = {<<TagOf(k), NameOf(k)>> : k \in DOMAIN map}
  <2>1. ASSUME NEW q \in DOMAIN read
        PROVE  q \in {<<TagOf(k), NameOf(k)>> : k \in DOMAIN map}
    <3>1. PICK i : i \in LinesOf(text, q)
      BY <1>9
    <3>. QED
      BY <1>10, <3>1
  <2>2. ASSUME NEW k \in DOMAIN map PROVE <<TagOf(k), NameOf(k)>> \in DOMAIN read
    BY <1>9, <1>11, <1>12
  <2>. QED
    BY <2>1, <2>2
<1>14. ASSUME NEW k \in DOMAIN map
       PROVE  read[<<TagOf(k), NameOf(k)>>] = map[k]
  <2>1. PICK q : q = <<TagOf(k), NameOf(k)>>
    OBVIOUS
  <2>2. PICK lines : lines = LinesOf(text, q)
    OBVIOUS
  <2>3. lines # {} /\ lines \in SUBSET (0 .. n) /\ lines \in SUBSET Nat
    BY <1>4, <1>8, <1>11, <2>1, <2>2
  <2>4. PICK m \in lines : \A x \in lines : x =< m
    BY ONLY <1>4, <2>3, Greatest
  <2>5. Max(lines) = m
    BY ONLY <2>3, <2>4, MaxIs
  <2>6. PICK l \in DOMAIN map : q = <<TagOf(l), NameOf(l)>> /\ text[m].val = map[l]
    BY <1>10, <2>2, <2>4
  <2>7. l = k
    BY <2>1, <2>6
  <2>8. q \in Keys /\ read[q] = text[Max(lines)].val
    BY <1>9, <1>12, <2>1, <2>2, <2>3
  <2>. QED
    BY <2>1, <2>5, <2>6, <2>7, <2>8
<1>. QED
  BY <1>1, <1>7, <1>13, <1>14

-----------------------------------------------------------------------------
(* The configuration of a process.                                         *)

\* TypeOK, and a process in the middle of writing or reading has a file.
Typed ==
    /\ TypeOK
    /\ \A p \in Procs : pc[p] \in {"open", "write", "read"} => file \in Seq(Lines)

LEMMA InitTyped == Init => Typed
<1>. SUFFICES ASSUME Init PROVE Typed
  OBVIOUS
<1>1. IsMap(NoConfig)
  BY DEF IsMap, NoConfig
<1>. QED
  BY <1>1 DEF Init, ConfigInit, Typed, TypeOK, Places, Down

LEMMA BufferIsText ==
    ASSUME Typed, NEW p \in Procs, pc[p] = "read"
    PROVE  Buffer(p) \in Seq(Lines) /\ (size[p] = Len(file) => Buffer(p) = file)
<1>. DEFINE nul == Pair(Nul, "")
<1>1. file \in Seq(Lines) /\ size[p] \in Nat /\ Len(file) \in Nat
  BY DEF Typed, TypeOK
<1>2. nul \in Lines
  BY ConfigAssumption, KeysAssumption, LinesAre
<1>3. Buffer(p) = IF size[p] > Len(file) THEN Append(file, nul)
                  ELSE SubSeq(file, 1, size[p])
  BY DEF Buffer
<1>. HIDE DEF nul
<1>4. Append(file, nul) \in Seq(Lines)
  BY <1>1, <1>2
<1>5. size[p] =< Len(file) => SubSeq(file, 1, size[p]) \in Seq(Lines)
  BY <1>1, SubSeqProperties
<1>6. SubSeq(file, 1, Len(file)) = file
  BY <1>1, SubSeqFull
<1>7. size[p] > Len(file) \/ size[p] =< Len(file)
  BY <1>1
<1>8. size[p] = Len(file) => ~(size[p] > Len(file))
  BY <1>1
<1>. HIDE DEF Buffer
<1>. QED
  BY <1>3, <1>4, <1>5, <1>6, <1>7, <1>8

\* A step that gives process p another map and another place.
LEMMA MapChanges ==
    ASSUME Typed, NEW p \in Procs, NEW m, IsMap(m), NEW place \in Places,
           place \notin {"open", "write", "read"},
           config' = [config EXCEPT ![p] = m], pc' = [pc EXCEPT ![p] = place],
           file' = file, path' \in Procs \cup {NoSocket, Dead}, size' \in [Procs -> Nat]
    PROVE  Typed'
BY DEF Typed, TypeOK

LEMMA PlaceChanges ==
    ASSUME Typed, NEW p \in Procs, NEW place \in Places,
           place \in {"open", "write", "read"} => file \in Seq(Lines),
           config' = config, pc' = [pc EXCEPT ![p] = place],
           file' = file, path' \in Procs \cup {NoSocket, Dead}, size' \in [Procs -> Nat]
    PROVE  Typed'
BY DEF Typed, TypeOK

LEMMA StepTyped == Typed /\ [Next]_vars => Typed'
<1>. SUFFICES ASSUME Typed, [Next]_vars PROVE Typed'
  OBVIOUS
<1>. USE DEF Goto, configVars
<1>1. /\ IsMap(NoConfig)
      /\ path \in Procs \cup {NoSocket, Dead}
      /\ size \in [Procs -> Nat]
      /\ file \in Seq(Lines) \cup {NoFile}
      /\ \A p \in Procs : IsMap(config[p]) /\ pc[p] \in Places
      /\ {"init", "create", "write", "open", "read", "configured", "remove", "bind",
          "listen", "serve"} \cup Down \subseteq Places
  BY DEF Typed, TypeOK, IsMap, NoConfig, Places
<1>2. ASSUME NEW p \in Procs, Start(p) PROVE Typed'
  BY <1>1, <1>2, MapChanges, ConfigAssumption DEF Start
<1>3. ASSUME NEW p \in Procs, CheckFile(p), UNCHANGED path PROVE Typed'
  BY <1>1, <1>3, PlaceChanges DEF CheckFile
<1>4. ASSUME NEW p \in Procs, OpenTruncated(p), UNCHANGED path PROVE Typed'
  <2>1. << >> \in Seq(Lines)
    OBVIOUS
  <2>. QED
    BY <1>4, <2>1 DEF OpenTruncated, Typed, TypeOK, Places
<1>5. ASSUME NEW p \in Procs, WriteDump(p), UNCHANGED path PROVE Typed'
  <2>. DEFINE text == Dump(config[p])
  <2>1. file \in Seq(Lines)
    BY <1>5 DEF WriteDump, Typed
  <2>2. text \in Seq(Lines)
    BY <1>1, DumpIsText
  <2>. HIDE DEF text
  <2>3. SubSeq(file, Len(text) + 1, Len(file)) \in Seq(Lines)
    BY <2>1, <2>2, SubSeqProperties, LenProperties
  <2>4. file' \in Seq(Lines)
    BY <1>5, <2>2, <2>3, ConcatProperties DEF WriteDump, text
  <2>. QED
    BY <1>5, <2>4 DEF WriteDump, Typed, TypeOK, Places
<1>6. ASSUME NEW p \in Procs, DumpFails(p), UNCHANGED path PROVE Typed'
  BY <1>1, <1>6, PlaceChanges DEF DumpFails
<1>7. ASSUME NEW p \in Procs, OpenToRead(p), UNCHANGED path PROVE Typed'
  <2>1. file \in Seq(Lines)
    BY <1>7 DEF OpenToRead, Typed
  <2>2. size' \in [Procs -> Nat]
    BY <1>1, <1>7, <2>1 DEF OpenToRead
  <2>. QED
    BY <1>1, <1>7, <2>1, <2>2, PlaceChanges DEF OpenToRead
<1>8. ASSUME NEW p \in Procs, OpenFails(p), UNCHANGED path PROVE Typed'
  BY <1>1, <1>8, MapChanges DEF OpenFails, Down
<1>9. ASSUME NEW p \in Procs, ReadFile(p), UNCHANGED path PROVE Typed'
  <2>1. Buffer(p) \in Seq(Lines)
    BY <1>9, BufferIsText DEF ReadFile
  <2>2. IsMap(Parse(Buffer(p), config[p]))
    <3>1. Len(Buffer(p)) \in 0 .. Len(Buffer(p))
      BY <2>1, LenProperties
    <3>. QED
      BY <1>1, <2>1, <3>1, ParseIs, MapAfterIsMap
  <2>3. size' \in [Procs -> Nat]
    BY <1>1, <1>9 DEF ReadFile
  <2>4. CASE config' = [config EXCEPT ![p] = Parse(Buffer(p), @)]
             /\ pc' = [pc EXCEPT ![p] = "configured"]
    <3>1. config' = [config EXCEPT ![p] = Parse(Buffer(p), config[p])]
      BY <2>4
    <3>. QED
      BY <1>1, <1>9, <2>2, <2>3, <2>4, <3>1, MapChanges DEF ReadFile
  <2>5. CASE config' = [config EXCEPT ![p] = NoConfig] /\ pc' = [pc EXCEPT ![p] = "rejected"]
    BY <1>1, <1>9, <2>3, <2>5, MapChanges DEF ReadFile, Down
  <2>. QED
    BY <1>9, <2>4, <2>5 DEF ReadFile
<1>10. ASSUME NEW p \in Procs, CheckSocket(p) PROVE Typed'
  BY <1>1, <1>10, PlaceChanges DEF CheckSocket
<1>11. ASSUME NEW p \in Procs, RemoveSocket(p) PROVE Typed'
  BY <1>1, <1>11, PlaceChanges DEF RemoveSocket
<1>12. ASSUME NEW p \in Procs, SocketFails(p) PROVE Typed'
  BY <1>1, <1>12, MapChanges DEF SocketFails, Down
<1>13. ASSUME NEW p \in Procs, Bind(p) PROVE Typed'
  BY <1>1, <1>13, PlaceChanges DEF Bind
<1>14. ASSUME NEW p \in Procs, BindFails(p) PROVE Typed'
  BY <1>1, <1>14, MapChanges DEF BindFails, Down
<1>15. ASSUME NEW p \in Procs, Listen(p) PROVE Typed'
  BY <1>1, <1>15, PlaceChanges DEF Listen
<1>16. ASSUME NEW p \in Procs, Kill(p) PROVE Typed'
  BY <1>1, <1>16, MapChanges DEF Kill, Down
<1>17. ASSUME Edit, UNCHANGED path PROVE Typed'
  BY <1>17, ConfigAssumption DEF Edit, Typed, TypeOK
<1>18. CASE UNCHANGED vars
  BY <1>18 DEF vars, Typed, TypeOK
<1>. QED
  BY <1>2, <1>3, <1>4, <1>5, <1>6, <1>7, <1>8, <1>9, <1>10, <1>11, <1>12, <1>13, <1>14,
     <1>15, <1>16, <1>17, <1>18 DEF Next, Run, Serve, InitConfig

\* Every variable keeps its type, for any processes, texts, keys and values:
\* what is in the file is lines, and what a process has is a map of the keys.
THEOREM TypeCorrect == Spec => []TypeOK
<1>1. Typed => TypeOK
  BY DEF Typed
<1>. QED
  BY InitTyped, StepTyped, <1>1, PTL DEF Spec

\* One read of the whole file.
Reads(p) ==
    ReadFile(p) /\ size[p] = Len(file) =>
        IF ~Trimmable(file)
        THEN pc'[p] = "rejected"
        ELSE /\ pc'[p] = "configured"
             /\ \A k \in Keys :
                  LET lines == LinesOf(file, k)
                  IN  IF lines = {}
                      THEN /\ k \in DOMAIN config'[p] <=> k \in DOMAIN config[p]
                           /\ k \in DOMAIN config[p] => config'[p][k] = config[p][k]
                      ELSE /\ k \in DOMAIN config'[p]
                           /\ config'[p][k] = file[Max(lines)].val

LEMMA ReadIsMeant == ASSUME Typed, NEW p \in Procs PROVE Reads(p)
<1>. SUFFICES ASSUME ReadFile(p), size[p] = Len(file) PROVE Reads(p)
  BY DEF Reads
<1>1. pc[p] = "read" /\ DOMAIN config = Procs /\ DOMAIN pc = Procs /\ IsMap(config[p])
  BY DEF ReadFile, Typed, TypeOK
<1>2. file \in Seq(Lines) /\ Buffer(p) = file
  BY <1>1, BufferIsText DEF Typed
<1>3. CASE ~Trimmable(file)
  <2>1. pc' = [pc EXCEPT ![p] = "rejected"]
    BY <1>2, <1>3 DEF ReadFile
  <2>. QED
    BY <1>1, <1>3, <2>1 DEF Reads
<1>4. CASE Trimmable(file)
  <2>. DEFINE map == config[p]
  <2>1. /\ config' = [config EXCEPT ![p] = Parse(file, config[p])]
        /\ pc' = [pc EXCEPT ![p] = "configured"]
    BY <1>2, <1>4 DEF ReadFile
  <2>2. config'[p] = MapAfter(file, map, Len(file))
    BY <1>1, <1>2, <2>1, ParseIs
  <2>3. \A k : Upto(file, k, Len(file)) = LinesOf(file, k)
    BY <1>2, LenProperties DEF Upto, LinesOf
  <2>4. /\ DOMAIN config'[p] = {x \in Keys : x \in DOMAIN map \/ LinesOf(file, x) # {}}
        /\ \A k \in DOMAIN config'[p] :
              config'[p][k] = IF LinesOf(file, k) = {} THEN map[k]
                              ELSE file[Max(LinesOf(file, k))].val
    BY <2>2, <2>3 DEF MapAfter
  <2>5. pc'[p] = "configured"
    BY <1>1, <2>1
  <2>. QED
    BY <1>4, <2>4, <2>5 DEF Reads
<1>. QED
  BY <1>3, <1>4

\* Whatever the ini file holds and whatever the defaults are, a process that reads
\* the file whole has what it says: Config::Init with parseFile and parse.
THEOREM ReadsAsMeant == Spec => ConfigReads
<1>1. Typed => [\A p \in Procs : Reads(p)]_<<file, config, size, pc>>
  BY ReadIsMeant
<1>2. [][\A p \in Procs : Reads(p)]_<<file, config, size, pc>> => ConfigReads
  BY PTL DEF ConfigReads, Reads
<1>. QED
  BY InitTyped, StepTyped, <1>1, <1>2, PTL DEF Spec
=============================================================================
