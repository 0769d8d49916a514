------------------------- MODULE HttpMessagesProofs -------------------------
(***************************************************************************)
(* Proofs about the messages of httplib: what a reader takes for a whole   *)
(* body is the whole body, and the parser of a form hands on the items     *)
(* that were written (BodyTransfer, MultipartFormData); the requests of    *)
(* the client announce the bodies that they bring (ClientRequests), a      *)
(* Range header that is accepted is answered with what it means (Ranges),  *)
(* a path's parameters are what makes its pattern of it (PathParams), and  *)
(* the parameters of a request arrive (QueryTextProofs).                   *)
(***************************************************************************)
EXTENDS HttpMessages, QueryTextProofs

-----------------------------------------------------------------------------
(* The inductive invariant behind WholeOrRefused.                          *)

Tokens == Range(body.content)
IsPlain  == body.items = NoForm

Typed ==
    /\ body \in Bodies
    /\ offset \in body.from .. body.end
    /\ wire \in Seq(Tokens) /\ got \in Seq(Tokens)
    /\ sizes \in Seq(Nat) /\ chunk \in Nat
    /\ verdict \in {"reading", "true", "false"}

\* Nothing is lost and nothing comes twice: what the receiver has and what is
\* under way are together what has been written.
Together(g, w, content, from, to) == g \o w = SubSeq(content, from + 1, to)

Conserved == IsPlain => Together(got, wire, body.content, body.from, offset)

\* A body with a length: what is left to read of it and what has been read
\* make the length.
LengthKept ==
    body.framing = "length" => chunk + (offset - body.from - Len(wire)) = body.declared

\* The chunk that is being read and the chunks announced after it are what is
\* under way: from first, the numbers of ss make total; sums has the way there.
MakeUp(first, ss, total) ==
    \E sums \in [0 .. Len(ss) -> Int] :
        /\ sums[0] = first /\ sums[Len(ss)] = total
        /\ \A i \in 1 .. Len(ss) : sums[i] = sums[i - 1] + ss[i]

\* It is so until a write breaks off inside a chunk; the end of the data is
\* not announced after that.
Unbroken   == sent # "false" \/ ~dataAvailable
ChunksKept == body.framing = "chunked" /\ Unbroken => MakeUp(chunk, sizes, Len(wire))

\* Only the end of the data is announced with size 0, and nothing after it.
ZeroIsLast ==
    \A i \in 1 .. Len(sizes) :
        sizes[i] = 0 => i = Len(sizes) /\ ~dataAvailable /\ offset = body.end

\* A reader that is content has it all, and no more will come.
Finished ==
    verdict = "true" /\ body.framing # "stream" =>
        /\ offset = body.end /\ wire = <<>>
        /\ body.framing = "chunked" => ~dataAvailable

WholeInv == Typed /\ Conserved /\ LengthKept /\ ChunksKept /\ ZeroIsLast /\ Finished

-----------------------------------------------------------------------------
LEMMA BodyFacts ==
    ASSUME Typed
    PROVE  /\ body.content \in Seq(Tokens)
           /\ body.end \in 0 .. Len(body.content) /\ body.from \in 0 .. body.end
           /\ Len(body.content) \in Nat /\ offset \in Nat /\ offset =< Len(body.content)
           /\ body.framing \in {"length", "chunked", "stream"}
           /\ body.framing = "length" => /\ body.declared \in Nat \ {0}
                                         /\ body.declared >= body.end - body.from
<1>1. body \in Bodies /\ offset \in body.from .. body.end
  BY DEF Typed
<1>2. /\ body.framing \in {"length", "chunked", "stream"}
      /\ body.content \in Seq(Tokens)
      /\ body.end \in 0 .. Len(body.content) /\ body.from \in 0 .. body.end
      /\ body.framing = "length" => /\ body.declared \in Nat \ {0}
                                    /\ body.declared >= body.end - body.from
  BY <1>1, BodiesAssumption, Zenon DEF Tokens
<1>3. Len(body.content) \in Nat
  BY <1>2, LenProperties
<1>. QED
  BY <1>1, <1>2, <1>3

LEMMA Regrouped ==
    ASSUME NEW S, NEW s \in Seq(S), NEW t \in Seq(S), NEW u \in Seq(S)
    PROVE  /\ s \o (t \o u) = (s \o t) \o u
           /\ s \o t \in Seq(S) /\ t \o u \in Seq(S)
           /\ Len(s \o t) = Len(s) + Len(t)
<1>1. (s \o t) \o u = s \o (t \o u)
  BY ConcatAssociative
<1>2. s \o t \in Seq(S) /\ t \o u \in Seq(S) /\ Len(s \o t) = Len(s) + Len(t)
  BY ConcatProperties
<1>. QED
  BY <1>1, <1>2

\* The tokens under way after a write and after a read, and what has been read.
AfterWrite(w, content, at, n) == w \o SubSeq(content, at + 1, at + n)
AfterRead(w, n)               == SubSeq(w, n + 1, Len(w))
ReadFrom(g, w, n)             == g \o SubSeq(w, 1, n)

\* What has been written stretches by what the provider writes.
LEMMA WrittenMore ==
    ASSUME NEW S, NEW content \in Seq(S), NEW from \in Nat, NEW at \in Nat, NEW n \in Nat,
           from =< at, at + n =< Len(content), NEW w \in Seq(S), NEW g \in Seq(S)
    PROVE  /\ AfterWrite(w, content, at, n) \in Seq(S)
           /\ Len(AfterWrite(w, content, at, n)) = Len(w) + n
           /\ Together(g, w, content, from, at) =>
                 Together(g, AfterWrite(w, content, at, n), content, from, at + n)
<1>1. Len(content) \in Nat /\ \A i \in 1 .. Len(content) : content[i] \in S
  BY LenProperties
<1>2. PICK piece : piece = SubSeq(content, at + 1, at + n)
  OBVIOUS
<1>3. piece \in Seq(S)
  <2>1. \A i \in at + 1 .. at + n : content[i] \in S
    BY <1>1
  <2>. QED
    BY <1>2, <2>1, SubSeqProperties
<1>4. Len(piece) = n
  <2>1. \A i \in at + 1 .. at + n : content[i] \in S
    BY <1>1
  <2>2. Len(piece) = IF at + 1 =< at + n THEN at + n - (at + 1) + 1 ELSE 0
    BY <1>2, <2>1, SubSeqProperties
  <2>. QED
    BY <2>2
<1>5. PICK more : more = AfterWrite(w, content, at, n) /\ more = w \o piece
  BY <1>2 DEF AfterWrite
<1>6. more \in Seq(S) /\ Len(more) = Len(w) + n /\ g \o more = (g \o w) \o piece
  <2>1. w \o piece \in Seq(S) /\ g \o (w \o piece) = (g \o w) \o piece
    BY ONLY <1>3, Regrouped, w \in Seq(S), g \in Seq(S)
  <2>2. Len(w \o piece) = Len(w) + Len(piece)
    BY ONLY <1>3, Regrouped, w \in Seq(S)
  <2>. QED
    BY ONLY <1>4, <1>5, <2>1, <2>2
<1>7. SubSeq(content, from + 1, at) \o piece = SubSeq(content, from + 1, at + n)
  <2>1. /\ from + 1 \in 1 .. Len(content) + 1 /\ at \in (from + 1) - 1 .. Len(content)
        /\ at + n \in at .. Len(content)
    BY <1>1
  <2>2. SubSeq(content, from + 1, at) \o SubSeq(content, at + 1, at + n)
            = SubSeq(content, from + 1, at + n)
    BY <2>1, ConcatAdjacentSubSeq
  <2>. QED
    BY <1>2, <2>2
<1>8. ASSUME g \o w = SubSeq(content, from + 1, at)
      PROVE  g \o more = SubSeq(content, from + 1, at + n)
  BY ONLY <1>6, <1>7, <1>8
<1>. QED
  BY ONLY <1>5, <1>6, <1>8 DEF Together

\* The piece that a read takes off and what stays, together, are what was there.
LEMMA TakenOff ==
    ASSUME NEW S, NEW w \in Seq(S), NEW n \in 1 .. Len(w), NEW g \in Seq(S),
           NEW rest, rest = AfterRead(w, n),
           NEW more, more = ReadFrom(g, w, n)
    PROVE  /\ more \in Seq(S) /\ rest \in Seq(S) /\ Len(rest) = Len(w) - n
           /\ \A content, from, to :
                Together(g, w, content, from, to) => Together(more, rest, content, from, to)
<1>1. Len(w) \in Nat /\ \A i \in 1 .. Len(w) : w[i] \in S
  BY LenProperties
<1>2. PICK piece : piece = SubSeq(w, 1, n)
  OBVIOUS
<1>3. piece \in Seq(S)
  BY <1>1, <1>2, SubSeqProperties
<1>4. rest \in Seq(S) /\ Len(rest) = Len(w) - n
  <2>1. \A i \in n + 1 .. Len(w) : w[i] \in S
    BY <1>1
  <2>2. /\ rest \in Seq(S)
        /\ Len(rest) = IF n + 1 =< Len(w) THEN Len(w) - (n + 1) + 1 ELSE 0
    BY <1>1, <2>1, SubSeqProperties DEF AfterRead
  <2>. QED
    BY <1>1, <2>2
<1>5. piece \o rest = w
  <2>1. SubSeq(w, 1, n) \o SubSeq(w, n + 1, Len(w)) = SubSeq(w, 1, Len(w))
    BY <1>1, ConcatAdjacentSubSeq
  <2>2. SubSeq(w, 1, Len(w)) = w
    BY SubSeqFull
  <2>. QED
    BY <1>2, <2>1, <2>2 DEF AfterRead
<1>6. more = g \o piece
  BY <1>2 DEF ReadFrom
<1>7. more \in Seq(S) /\ more \o rest = g \o (piece \o rest)
  <2>1. rest \in Seq(S)
    BY <1>4
  <2>. QED
    BY ONLY <1>3, <1>6, <2>1, Regrouped, g \in Seq(S), SMTT(20)
<1>8. more \o rest = g \o w
  BY ONLY <1>5, <1>7
<1>. QED
  BY <1>4, <1>7, <1>8 DEF Together

\* What MakeUp says of one number more, one number less, and of the first.
LEMMA MadeUpAppend ==
    ASSUME NEW ss \in Seq(Nat), NEW n \in Nat, NEW first \in Int, NEW total \in Int,
           MakeUp(first, ss, total)
    PROVE  MakeUp(first, Append(ss, n), total + n)
<1>1. Len(ss) \in Nat
  BY LenProperties
<1>2. PICK t : t = Append(ss, n)
  OBVIOUS
<1>3. /\ Len(t) = Len(ss) + 1
      /\ t[Len(ss) + 1] = n /\ \A i \in 1 .. Len(ss) : t[i] = ss[i]
  BY <1>2, AppendProperties
<1>4. PICK f \in [0 .. Len(ss) -> Int] :
        /\ f[0] = first /\ f[Len(ss)] = total
        /\ \A i \in 1 .. Len(ss) : f[i] = f[i - 1] + ss[i]
  BY DEF MakeUp
<1>5. PICK m \in Nat : m = Len(ss)
  BY <1>1
<1>. DEFINE g == [i \in 0 .. m + 1 |-> IF i = m + 1 THEN total + n ELSE f[i]]
<1>6. g \in [0 .. m + 1 -> Int] /\ g[0] = first /\ g[m + 1] = total + n
  BY ONLY <1>4, <1>5, m \in Nat, n \in Nat, total \in Int, f \in [0 .. Len(ss) -> Int]
<1>7. ASSUME NEW i \in 1 .. m + 1
      PROVE  g[i] = g[i - 1] + t[i]
  <2>1. CASE i = m + 1
    BY ONLY <1>3, <1>4, <1>5, <2>1, m \in Nat, n \in Nat, total \in Int
  <2>2. CASE i # m + 1
    <3>1. i \in 1 .. m /\ i - 1 \in 0 .. m
      BY ONLY <2>2, m \in Nat, i \in 1 .. m + 1
    <3>2. g[i] = f[i] /\ g[i - 1] = f[i - 1]
      BY ONLY <2>2, <3>1, m \in Nat
    <3>. QED
      BY ONLY <1>3, <1>4, <1>5, <3>1, <3>2
  <2>. QED
    BY <2>1, <2>2
<1>. HIDE DEF g
<1>8. MakeUp(first, t, total + n)
  BY ONLY <1>3, <1>5, <1>6, <1>7 DEF MakeUp
<1>. QED
  BY ONLY <1>2, <1>8

LEMMA MadeUpTail ==
    ASSUME NEW ss \in Seq(Nat), ss # <<>>, NEW first \in Int, NEW total \in Int,
           MakeUp(first, ss, total)
    PROVE  MakeUp(first + Head(ss), Tail(ss), total)
<1>1. Len(ss) \in Nat \ {0}
  BY LenProperties, EmptySeq
<1>2. PICK t, h : t = Tail(ss) /\ h = Head(ss)
  OBVIOUS
<1>3. /\ Len(t) = Len(ss) - 1 /\ \A i \in 1 .. Len(t) : t[i] = ss[i + 1]
  BY <1>2, HeadTailProperties
<1>4. h = ss[1]
  BY <1>2
<1>5. PICK f \in [0 .. Len(ss) -> Int] :
        /\ f[0] = first /\ f[Len(ss)] = total
        /\ \A i \in 1 .. Len(ss) : f[i] = f[i - 1] + ss[i]
  BY DEF MakeUp
<1>6. PICK m \in Nat : Len(ss) = m + 1 /\ Len(t) = m
  BY ONLY <1>1, <1>3
<1>. DEFINE g == [i \in 0 .. m |-> f[i + 1]]
<1>7. g \in [0 .. m -> Int] /\ g[m] = total
  BY ONLY <1>5, <1>6, m \in Nat, f \in [0 .. Len(ss) -> Int]
<1>8. g[0] = first + h
  BY ONLY <1>4, <1>5, <1>6, m \in Nat
<1>9. ASSUME NEW i \in 1 .. m
      PROVE  g[i] = g[i - 1] + t[i]
  <2>1. g[i] = f[i + 1] /\ g[i - 1] = f[i] /\ i + 1 \in 1 .. Len(ss)
    BY ONLY <1>6, m \in Nat, i \in 1 .. m
  <2>2. f[i + 1] = f[(i + 1) - 1] + ss[i + 1] /\ (i + 1) - 1 = i
    BY ONLY <1>5, <2>1, m \in Nat, i \in 1 .. m
  <2>. QED
    BY ONLY <1>3, <1>6, <2>1, <2>2, i \in 1 .. m
<1>. HIDE DEF g
<1>10. MakeUp(first + h, t, total)
  BY ONLY <1>6, <1>7, <1>8, <1>9 DEF MakeUp
<1>. QED
  BY ONLY <1>2, <1>10

LEMMA MadeUpLess ==
    ASSUME NEW ss \in Seq(Nat), NEW n \in Int, NEW first \in Int, NEW total \in Int,
           MakeUp(first, ss, total)
    PROVE  MakeUp(first - n, ss, total - n)
<1>1. Len(ss) \in Nat /\ \A i \in 1 .. Len(ss) : ss[i] \in Nat
  BY LenProperties
<1>2. PICK f \in [0 .. Len(ss) -> Int] :
        /\ f[0] = first /\ f[Len(ss)] = total
        /\ \A i \in 1 .. Len(ss) : f[i] = f[i - 1] + ss[i]
  BY DEF MakeUp
<1>. DEFINE g == [i \in 0 .. Len(ss) |-> f[i] - n]
<1>3. g \in [0 .. Len(ss) -> Int] /\ g[0] = first - n /\ g[Len(ss)] = total - n
  BY <1>1, <1>2
<1>4. ASSUME NEW i \in 1 .. Len(ss)
      PROVE  g[i] = g[i - 1] + ss[i]
  <2>1. i - 1 \in 0 .. Len(ss) /\ i \in 0 .. Len(ss)
    BY <1>1
  <2>2. f[i] \in Int /\ f[i - 1] \in Int /\ ss[i] \in Nat /\ f[i] = f[i - 1] + ss[i]
    BY <1>1, <1>2, <2>1
  <2>. QED
    BY <2>1, <2>2, SMTT(20)
<1>. HIDE DEF g
<1>. QED
  BY <1>3, <1>4 DEF MakeUp

-----------------------------------------------------------------------------
LEMMA Lengths ==
    ASSUME Typed
    PROVE  /\ offset \in Nat /\ body.from \in Nat /\ body.from =< offset /\ offset =< body.end
           /\ Len(wire) \in Nat /\ Len(sizes) \in Nat
           /\ \A i \in 1 .. Len(sizes) : sizes[i] \in Nat
           /\ wire = <<>> <=> Len(wire) = 0
<1>1. wire \in Seq(Tokens) /\ sizes \in Seq(Nat) /\ offset \in body.from .. body.end
  BY DEF Typed
<1>2. Len(wire) \in Nat /\ Len(sizes) \in Nat
  BY <1>1, LenProperties
<1>3. \A i \in 1 .. Len(sizes) : sizes[i] \in Nat
  BY <1>1, ElementOfSeq
<1>4. wire = <<>> <=> Len(wire) = 0
  BY <1>1, <1>2, EmptySeq
<1>5. body.end \in 0 .. Len(body.content) /\ body.from \in 0 .. body.end
      /\ Len(body.content) \in Nat
  BY BodyFacts
<1>. QED
  BY <1>1, <1>2, <1>3, <1>4, <1>5

LEMMA InitWhole == Init => WholeInv
<1>. SUFFICES ASSUME Init PROVE WholeInv
  OBVIOUS
<1>1. /\ body \in Bodies /\ offset = body.from /\ wire = <<>> /\ sizes = <<>>
      /\ got = <<>> /\ verdict = "reading"
      /\ chunk = IF body.framing = "length" THEN body.declared ELSE 0
  BY DEF Init
<1>2. /\ body.from \in Nat /\ body.from \in body.from .. body.end
      /\ body.content \in Seq(Tokens) /\ Len(body.content) \in Nat
      /\ body.framing \in {"length", "chunked", "stream"}
      /\ body.framing = "length" => body.declared \in Nat
  <2>1. /\ body.end \in 0 .. Len(body.content) /\ body.from \in 0 .. body.end
        /\ body.content \in Seq(Tokens)
        /\ body.framing \in {"length", "chunked", "stream"}
        /\ body.framing = "length" => body.declared \in Nat \ {0}
    BY <1>1, BodiesAssumption, Zenon DEF Tokens
  <2>2. Len(body.content) \in Nat
    BY <2>1, LenProperties
  <2>. QED
    BY <2>1, <2>2
<1>3. /\ <<>> \in Seq(Tokens) /\ <<>> \in Seq(Nat)
      /\ Len(wire) = 0 /\ Len(sizes) = 0
  BY <1>1, EmptySeq
<1>4. Typed
  BY <1>1, <1>2, <1>3 DEF Typed
<1>5. Conserved
  <2>1. SubSeq(body.content, body.from + 1, offset) = <<>>
    BY <1>1, <1>2, SubSeqEmpty
  <2>2. got \o wire = <<>>
    <3>1. <<>> \o <<>> = <<>>
      BY ConcatEmptySeq, EmptySeq
    <3>. QED
      BY <1>1, <3>1
  <2>. QED
    BY <2>1, <2>2 DEF Conserved, Together
<1>6. LengthKept
  BY <1>1, <1>2, <1>3 DEF LengthKept
<1>7. ChunksKept
  <2>. SUFFICES ASSUME body.framing = "chunked"
                PROVE  MakeUp(chunk, sizes, Len(wire))
    BY DEF ChunksKept
  <2>. DEFINE sums == [i \in 0 .. 0 |-> 0]
  <2>1. chunk = 0 /\ sums \in [0 .. 0 -> Int] /\ sums[0] = 0
    BY <1>1
  <2>. HIDE DEF sums
  <2>. QED
    BY <1>3, <2>1 DEF MakeUp
<1>8. ZeroIsLast /\ Finished
  BY <1>1, <1>3 DEF ZeroIsLast, Finished
<1>. QED
  BY <1>4, <1>5, <1>6, <1>7, <1>8 DEF WholeInv

-----------------------------------------------------------------------------
(* The steps of the writer.                                                *)

LEMMA ProvideWhole ==
    ASSUME WholeInv, NEW n \in 1 .. Window, Provide(n)
    PROVE  WholeInv'
<1>1. /\ Continues /\ offset + n =< body.end
      /\ wire' = wire \o SubSeq(body.content, offset + 1, offset + n)
      /\ sizes' = IF body.framing = "chunked" THEN Append(sizes, n) ELSE sizes
      /\ offset' = offset + n
      /\ body' = body /\ dataAvailable' = dataAvailable /\ verdict' = verdict
      /\ chunk' = chunk /\ got' = got
  BY Zenon DEF Provide, readerVars
<1>2. /\ Typed /\ Conserved /\ LengthKept /\ ChunksKept /\ ZeroIsLast /\ Finished
  BY DEF WholeInv
<1>3. /\ body.content \in Seq(Tokens) /\ Len(body.content) \in Nat
      /\ body.end \in 0 .. Len(body.content)
      /\ wire \in Seq(Tokens) /\ got \in Seq(Tokens) /\ sizes \in Seq(Nat)
      /\ chunk \in Nat /\ body \in Bodies /\ verdict \in {"reading", "true", "false"}
      /\ offset \in Nat /\ body.from \in Nat /\ body.from =< offset
      /\ Len(wire) \in Nat /\ Len(sizes) \in Nat
  BY <1>2, BodyFacts, Lengths DEF Typed
<1>4. n \in Nat /\ n > 0
  BY WindowAssumption
<1>5. Tokens' = Tokens /\ IsPlain' = IsPlain
  BY <1>1 DEF Tokens, IsPlain
<1>6. /\ wire' \in Seq(Tokens) /\ Len(wire') = Len(wire) + n
      /\ Together(got, wire, body.content, body.from, offset) =>
            Together(got, wire', body.content, body.from, offset + n)
  <2>1. offset + n =< Len(body.content)
    BY <1>1, <1>3, <1>4
  <2>2. wire' = AfterWrite(wire, body.content, offset, n)
    BY <1>1 DEF AfterWrite
  <2>3. PICK S, c, f, a, w, g, more :
          /\ S = Tokens /\ c = body.content /\ f = body.from /\ a = offset
          /\ w = wire /\ g = got /\ more = wire'
    OBVIOUS
  <2>4. /\ c \in Seq(S) /\ f \in Nat /\ a \in Nat /\ f =< a /\ a + n =< Len(c)
        /\ w \in Seq(S) /\ g \in Seq(S) /\ more = AfterWrite(w, c, a, n)
    BY <1>3, <2>1, <2>2, <2>3, Zenon
  <2>5. /\ AfterWrite(w, c, a, n) \in Seq(S)
        /\ Len(AfterWrite(w, c, a, n)) = Len(w) + n
        /\ Together(g, w, c, f, a) => Together(g, AfterWrite(w, c, a, n), c, f, a + n)
    BY ONLY <1>4, <2>4, WrittenMore
  <2>. QED
    BY <2>3, <2>4, <2>5, Zenon
<1>7. /\ sizes' \in Seq(Nat)
      /\ \A i \in 1 .. Len(sizes') : sizes'[i] # 0 \/ (i \in 1 .. Len(sizes) /\ sizes[i] = 0)
  <2>1. CASE body.framing = "chunked"
    <3>1. sizes' = Append(sizes, n)
      BY <1>1, <2>1
    <3>2. /\ sizes' \in Seq(Nat) /\ Len(sizes') = Len(sizes) + 1
          /\ \A i \in 1 .. Len(sizes) : sizes'[i] = sizes[i]
          /\ sizes'[Len(sizes) + 1] = n
      BY <1>3, <1>4, <3>1, AppendProperties
    <3>. QED
      BY <1>3, <1>4, <3>2, SMTT(20)
  <2>2. CASE body.framing # "chunked"
    BY <1>1, <1>3, <2>2
  <2>. QED
    BY <2>1, <2>2
<1>8. Typed'
  <2>1. offset' \in body.from .. body.end
    BY <1>1, <1>3, <1>4
  <2>. QED
    BY <1>1, <1>3, <1>5, <1>6, <1>7, <2>1, Zenon DEF Typed
<1>9. Conserved'
  BY <1>1, <1>2, <1>5, <1>6, Zenon DEF Conserved
<1>10. LengthKept'
  <2>. SUFFICES ASSUME body.framing = "length"
                PROVE  chunk + ((offset + n) - body.from - (Len(wire) + n)) = body.declared
    BY <1>1, <1>6 DEF LengthKept
  <2>1. chunk + (offset - body.from - Len(wire)) = body.declared
    BY <1>2 DEF LengthKept
  <2>. QED
    BY <1>3, <1>4, <2>1
<1>11. ChunksKept'
  <2>. SUFFICES ASSUME body.framing = "chunked"
                PROVE  MakeUp(chunk', sizes', Len(wire'))
    BY <1>1 DEF ChunksKept
  <2>1. MakeUp(chunk, sizes, Len(wire)) /\ chunk \in Int /\ Len(wire) \in Int
    BY <1>1, <1>2, <1>3 DEF ChunksKept, Unbroken, Continues
  <2>2. MakeUp(chunk, Append(sizes, n), Len(wire) + n)
    BY <1>3, <1>4, <2>1, MadeUpAppend, Zenon
  <2>. QED
    BY <1>1, <1>6, <2>2
<1>12. offset < body.end \/ dataAvailable
  BY <1>1 DEF Continues
<1>13. ZeroIsLast'
  <2>. SUFFICES ASSUME NEW i \in 1 .. Len(sizes'), sizes'[i] = 0 PROVE FALSE
    BY DEF ZeroIsLast
  <2>1. i \in 1 .. Len(sizes) /\ sizes[i] = 0
    BY <1>7
  <2>2. offset = body.end
    BY <1>2, <2>1 DEF ZeroIsLast
  <2>. QED
    BY <1>1, <1>3, <1>4, <2>2
<1>14. Finished'
  <2>1. ~(verdict = "true" /\ body.framing # "stream")
    BY <1>1, <1>2, <1>3, <1>4 DEF Finished
  <2>. QED
    BY <1>1, <2>1 DEF Finished
<1>. QED
  BY <1>8, <1>9, <1>10, <1>11, <1>13, <1>14 DEF WholeInv

LEMMA ProvidePartWhole ==
    ASSUME WholeInv, NEW k \in 0 .. Window, NEW n \in 1 .. Len(body.content),
           ProvidePart(n, k)
    PROVE  WholeInv'
<1>1. /\ Continues /\ body.framing = "chunked" /\ k < n /\ offset + n =< body.end
      /\ wire' = wire \o SubSeq(body.content, offset + 1, offset + k)
      /\ sizes' = Append(sizes, n) /\ offset' = offset + k /\ sent' = "false"
      /\ body' = body /\ dataAvailable' = dataAvailable /\ verdict' = verdict
      /\ chunk' = chunk /\ got' = got
  BY Zenon DEF ProvidePart, readerVars
<1>2. /\ Typed /\ Conserved /\ ZeroIsLast /\ Finished /\ dataAvailable
  BY <1>1 DEF WholeInv, Continues
<1>3. /\ body.content \in Seq(Tokens) /\ Len(body.content) \in Nat
      /\ body.end \in 0 .. Len(body.content)
      /\ wire \in Seq(Tokens) /\ got \in Seq(Tokens) /\ sizes \in Seq(Nat)
      /\ offset \in Nat /\ body.from \in Nat /\ body.from =< offset
      /\ Len(sizes) \in Nat
  BY <1>2, BodyFacts, Lengths DEF Typed
<1>4. /\ k \in Nat /\ n \in Nat /\ n > 0 /\ offset + k =< body.end
      /\ offset + k =< Len(body.content) /\ offset + k \in body.from .. body.end
  <2>1. /\ k < n /\ offset + n =< body.end
        /\ Len(body.content) \in Nat /\ body.end \in 0 .. Len(body.content)
        /\ offset \in Nat /\ body.from \in Nat /\ body.from =< offset
    BY <1>1, <1>3, Zenon
  <2>2. k \in Nat /\ n \in Nat /\ n > 0
    BY ONLY <2>1, WindowAssumption, k \in 0 .. Window, n \in 1 .. Len(body.content)
  <2>3. body.end \in Nat /\ body.end =< Len(body.content)
    BY ONLY <2>1
  <2>. QED
    BY ONLY <2>1, <2>2, <2>3
<1>5. Tokens' = Tokens /\ IsPlain' = IsPlain
  BY <1>1 DEF Tokens, IsPlain
<1>6. /\ wire' \in Seq(Tokens)
      /\ Together(got, wire, body.content, body.from, offset) =>
            Together(got, wire', body.content, body.from, offset + k)
  <2>1. offset + k =< Len(body.content)
    BY <1>4, Zenon
  <2>2. wire' = AfterWrite(wire, body.content, offset, k)
    BY <1>1 DEF AfterWrite
  <2>3. PICK S, c, f, a, w, g, more :
          /\ S = Tokens /\ c = body.content /\ f = body.from /\ a = offset
          /\ w = wire /\ g = got /\ more = wire'
    OBVIOUS
  <2>4. /\ c \in Seq(S) /\ f \in Nat /\ a \in Nat /\ f =< a /\ a + k =< Len(c)
        /\ w \in Seq(S) /\ g \in Seq(S) /\ more = AfterWrite(w, c, a, k)
    BY <1>3, <2>1, <2>2, <2>3, Zenon
  <2>5. /\ AfterWrite(w, c, a, k) \in Seq(S)
        /\ Together(g, w, c, f, a) => Together(g, AfterWrite(w, c, a, k), c, f, a + k)
    BY ONLY <1>4, <2>4, WrittenMore
  <2>. QED
    BY <2>3, <2>4, <2>5, Zenon
<1>7. /\ sizes' \in Seq(Nat)
      /\ \A i \in 1 .. Len(sizes') : sizes'[i] # 0
  <2>1. /\ sizes' \in Seq(Nat) /\ Len(sizes') = Len(sizes) + 1
        /\ \A i \in 1 .. Len(sizes) : sizes'[i] = sizes[i]
        /\ sizes'[Len(sizes) + 1] = n
    BY <1>1, <1>3, <1>4, AppendProperties
  <2>2. \A i \in 1 .. Len(sizes) : sizes[i] # 0
    BY <1>2 DEF ZeroIsLast
  <2>. QED
    <3>1. Len(sizes) \in Nat /\ n > 0 /\ n \in Nat
      BY <1>3, <1>4
    <3>2. PICK t : t = sizes'
      OBVIOUS
    <3>3. \A i \in 1 .. Len(sizes) : t[i] # 0
      BY <2>1, <2>2, <3>2
    <3>4. Len(t) = Len(sizes) + 1 /\ t[Len(sizes) + 1] # 0
      BY <2>1, <3>1, <3>2
    <3>5. \A i \in 1 .. Len(t) : t[i] # 0
      BY ONLY <3>1, <3>3, <3>4
    <3>. QED
      BY ONLY <2>1, <3>2, <3>5, Zenon
<1>8. Typed'
  <2>1. offset' \in body.from .. body.end
    BY <1>1, <1>4, Zenon
  <2>. QED
    BY <1>1, <1>2, <1>5, <1>6, <1>7, <2>1, Zenon DEF Typed
<1>9. Conserved'
  BY <1>1, <1>2, <1>5, <1>6, Zenon DEF Conserved
<1>10. LengthKept' /\ ChunksKept' /\ ZeroIsLast' /\ Finished'
  <2>1. LengthKept' /\ ChunksKept'
    BY <1>1, <1>2 DEF LengthKept, ChunksKept, Unbroken
  <2>2. ZeroIsLast'
    BY <1>7 DEF ZeroIsLast
  <2>3. verdict # "true"
    BY <1>1, <1>2 DEF Finished
  <2>. QED
    BY <1>1, <2>1, <2>2, <2>3 DEF Finished
<1>. QED
  BY <1>8, <1>9, <1>10 DEF WholeInv

\* A step that moves no token, of a writer that only ever stops offering data.
LEMMA QuietWhole ==
    ASSUME WholeInv, UNCHANGED <<body, offset, wire, sizes, chunk, got, verdict>>,
           dataAvailable' = dataAvailable \/ dataAvailable' = FALSE,
           Unbroken' => Unbroken
    PROVE  WholeInv'
<1>1. /\ body' = body /\ offset' = offset /\ wire' = wire /\ sizes' = sizes
      /\ chunk' = chunk /\ got' = got /\ verdict' = verdict
  OBVIOUS
<1>2. /\ Typed /\ Conserved /\ LengthKept /\ ChunksKept /\ ZeroIsLast /\ Finished
  BY DEF WholeInv
<1>3. Tokens' = Tokens /\ IsPlain' = IsPlain
  BY <1>1 DEF Tokens, IsPlain
<1>4. Typed' /\ Conserved'
  BY <1>1, <1>2, <1>3, Zenon DEF Typed, Conserved
<1>5. LengthKept' /\ ChunksKept'
  <2>1. LengthKept'
    BY <1>1, <1>2, Zenon DEF LengthKept
  <2>2. ASSUME body.framing = "chunked", Unbroken' PROVE MakeUp(chunk, sizes, Len(wire))
    BY <1>2, <2>2, Zenon DEF ChunksKept
  <2>3. ChunksKept'
    BY <1>1, <2>2, Zenon DEF ChunksKept
  <2>. QED
    BY <2>1, <2>3
<1>6. ZeroIsLast'
  BY <1>1, <1>2, Zenon DEF ZeroIsLast
<1>7. Finished'
  BY <1>1, <1>2, Zenon DEF Finished
<1>. QED
  BY <1>4, <1>5, <1>6, <1>7 DEF WholeInv

LEMMA ProvideDoneWhole ==
    ASSUME WholeInv, ProvideDone
    PROVE  WholeInv'
<1>1. /\ Continues /\ body.framing # "length" /\ offset = body.end
      /\ dataAvailable' = FALSE
      /\ sizes' = IF body.framing = "chunked" THEN Append(sizes, 0) ELSE sizes
      /\ body' = body /\ wire' = wire /\ offset' = offset /\ verdict' = verdict
      /\ chunk' = chunk /\ got' = got
  BY Zenon DEF ProvideDone, readerVars
<1>2. /\ Typed /\ Conserved /\ LengthKept /\ ChunksKept /\ ZeroIsLast /\ Finished
  BY DEF WholeInv
<1>3. CASE body.framing # "chunked"
  <2>1. sizes' = sizes /\ Unbroken
    BY <1>1, <1>3 DEF Unbroken, Continues
  <2>. QED
    BY <1>1, <2>1, QuietWhole
<1>4. CASE body.framing = "chunked"
  <2>1. sizes' = Append(sizes, 0)
    BY <1>1, <1>4
  <2>2. sizes \in Seq(Nat) /\ Len(sizes) \in Nat /\ Len(wire) \in Nat /\ chunk \in Nat
    BY <1>2, Lengths DEF Typed
  <2>3. /\ sizes' \in Seq(Nat) /\ Len(sizes') = Len(sizes) + 1
        /\ \A i \in 1 .. Len(sizes) : sizes'[i] = sizes[i]
    BY <2>1, <2>2, AppendProperties
  <2>4. dataAvailable
    BY <1>1 DEF Continues
  <2>5. Tokens' = Tokens /\ IsPlain' = IsPlain
    BY <1>1 DEF Tokens, IsPlain
  <2>6. Typed' /\ Conserved'
    BY <1>1, <1>2, <2>3, <2>5, Zenon DEF Typed, Conserved
  <2>7. LengthKept'
    BY <1>1, Zenon DEF LengthKept
  <2>8. ChunksKept'
    <3>1. MakeUp(chunk, sizes, Len(wire)) /\ chunk \in Int /\ Len(wire) \in Int
      BY <1>1, <1>2, <1>4, <2>2 DEF ChunksKept, Unbroken, Continues
    <3>2. MakeUp(chunk, Append(sizes, 0), Len(wire) + 0)
      BY <2>2, <3>1, MadeUpAppend
    <3>3. MakeUp(chunk, Append(sizes, 0), Len(wire))
      BY <2>2, <3>2
    <3>. QED
      BY <1>1, <2>1, <3>3, Zenon DEF ChunksKept
  <2>9. ZeroIsLast'
    <3>. SUFFICES ASSUME NEW i \in 1 .. Len(sizes'), sizes'[i] = 0
                  PROVE  i = Len(sizes')
      BY <1>1, Zenon DEF ZeroIsLast
    <3>1. i \notin 1 .. Len(sizes)
      BY <1>2, <2>3, <2>4 DEF ZeroIsLast
    <3>. QED
      BY <2>2, <2>3, <3>1
  <2>10. Finished'
    BY <1>1, <1>2, <1>4, <2>4 DEF Finished
  <2>. QED
    BY <2>6, <2>7, <2>8, <2>9, <2>10 DEF WholeInv
<1>. QED
  BY <1>3, <1>4

-----------------------------------------------------------------------------
(* The steps of the reader.                                                *)

LEMMA ReadPieceWhole ==
    ASSUME WholeInv, NEW n \in 1 .. Window, ReadPiece(n)
    PROVE  WholeInv'
<1>1. /\ verdict = "reading" /\ n =< Len(wire)
      /\ body.framing # "stream" => n =< chunk
      /\ Take(n)
      /\ chunk' = IF body.framing = "stream" THEN chunk ELSE chunk - n
      /\ body' = body /\ sizes' = sizes /\ offset' = offset
      /\ dataAvailable' = dataAvailable /\ sent' = sent
  BY Zenon DEF ReadPiece, writerVars
<1>2. \/ verdict' = verdict
      \/ verdict' = "false"
      \/ verdict' = "true" /\ body.framing = "length" /\ n = chunk
  BY Zenon DEF ReadPiece, Conclude
<1>3. /\ wire' = AfterRead(wire, n)
      /\ IF IsPlain THEN got' = ReadFrom(got, wire, n) ELSE got' = got
  BY <1>1 DEF Take, AfterRead, ReadFrom, IsPlain
<1>4. /\ Typed /\ Conserved /\ LengthKept /\ ChunksKept /\ ZeroIsLast /\ Finished
  BY DEF WholeInv
<1>5. /\ wire \in Seq(Tokens) /\ got \in Seq(Tokens) /\ sizes \in Seq(Nat)
      /\ chunk \in Nat /\ body \in Bodies /\ offset \in body.from .. body.end
  BY <1>4 DEF Typed
<1>6. /\ offset \in Nat /\ body.from \in Nat /\ body.from =< offset /\ offset =< body.end
      /\ body.end \in Nat /\ Len(wire) \in Nat /\ Len(sizes) \in Nat
      /\ body.framing = "length" => /\ body.declared \in Nat
                                    /\ body.declared >= body.end - body.from
  BY <1>4, BodyFacts, Lengths
<1>7. n \in Nat /\ n \in 1 .. Len(wire)
  BY <1>1, <1>6, WindowAssumption
<1>8. Tokens' = Tokens /\ IsPlain' = IsPlain
  BY <1>1 DEF Tokens, IsPlain
<1>9. /\ ReadFrom(got, wire, n) \in Seq(Tokens)
      /\ AfterRead(wire, n) \in Seq(Tokens) /\ Len(AfterRead(wire, n)) = Len(wire) - n
      /\ \A content, from, to :
           Together(got, wire, content, from, to) =>
              Together(ReadFrom(got, wire, n), AfterRead(wire, n), content, from, to)
  <2>1. PICK S, w, g : S = Tokens /\ w = wire /\ g = got
    OBVIOUS
  <2>2. w \in Seq(S) /\ g \in Seq(S) /\ n \in 1 .. Len(w)
    BY <1>5, <1>7, <2>1, Zenon
  <2>3. /\ ReadFrom(g, w, n) \in Seq(S)
        /\ AfterRead(w, n) \in Seq(S) /\ Len(AfterRead(w, n)) = Len(w) - n
        /\ \A content, from, to :
             Together(g, w, content, from, to) =>
                Together(ReadFrom(g, w, n), AfterRead(w, n), content, from, to)
    BY ONLY <2>2, TakenOff
  <2>. QED
    BY <2>1, <2>3, Zenon
<1>10. wire' \in Seq(Tokens) /\ Len(wire') = Len(wire) - n /\ got' \in Seq(Tokens)
  BY <1>3, <1>5, <1>9, Zenon
<1>11. Typed'
  <2>1. chunk' \in Nat
    BY <1>1, <1>5, <1>7
  <2>2. verdict' \in {"reading", "true", "false"}
    BY <1>1, <1>2
  <2>. QED
    BY <1>1, <1>5, <1>8, <1>10, <2>1, <2>2, Zenon DEF Typed
<1>12. Conserved'
  BY <1>1, <1>3, <1>4, <1>8, <1>9, Zenon DEF Conserved
<1>13. LengthKept'
  <2>. SUFFICES ASSUME body.framing = "length"
                PROVE  (chunk - n) + (offset - body.from - (Len(wire) - n)) = body.declared
    BY <1>1, <1>10 DEF LengthKept
  <2>1. chunk + (offset - body.from - Len(wire)) = body.declared
    BY <1>4 DEF LengthKept
  <2>. QED
    BY <1>5, <1>6, <1>7, <2>1
<1>14. ChunksKept'
  <2>. SUFFICES ASSUME body.framing = "chunked", Unbroken
                PROVE  MakeUp(chunk', sizes', Len(wire'))
    BY <1>1 DEF ChunksKept, Unbroken
  <2>1. MakeUp(chunk, sizes, Len(wire)) /\ chunk \in Int /\ Len(wire) \in Int /\ n \in Int
    BY <1>4, <1>5, <1>6, <1>7 DEF ChunksKept
  <2>2. MakeUp(chunk - n, sizes, Len(wire) - n)
    BY <1>5, <2>1, MadeUpLess, Zenon
  <2>3. chunk' = chunk - n
    BY <1>1
  <2>. QED
    BY <1>1, <1>10, <2>2, <2>3, Zenon
<1>15. ZeroIsLast'
  BY <1>1, <1>4, Zenon DEF ZeroIsLast
<1>16. Finished'
  <2>. SUFFICES ASSUME verdict' = "true", body.framing # "stream"
                PROVE  offset = body.end /\ wire' = <<>> /\ body.framing # "chunked"
    BY <1>1 DEF Finished
  <2>1. body.framing = "length" /\ n = chunk
    BY <1>1, <1>2
  <2>2. chunk + (offset - body.from - Len(wire)) = body.declared
    BY <1>4, <2>1 DEF LengthKept
  <2>3. offset = body.end /\ Len(wire) = n
    BY <1>1, <1>5, <1>6, <1>7, <2>1, <2>2
  <2>4. Len(wire') = 0
    BY <1>7, <1>10, <2>3
  <2>5. wire' = <<>>
    BY <1>10, <2>4, EmptySeq
  <2>. QED
    BY <2>1, <2>3, <2>5
<1>. QED
  BY <1>11, <1>12, <1>13, <1>14, <1>15, <1>16 DEF WholeInv

LEMMA ReadSizeWhole ==
    ASSUME WholeInv, ReadSize
    PROVE  WholeInv'
<1>1. /\ verdict = "reading" /\ body.framing = "chunked"
      /\ chunk = 0 /\ sizes # <<>>
      /\ sizes' = Tail(sizes) /\ chunk' = Head(sizes)
      /\ body' = body /\ wire' = wire /\ offset' = offset /\ got' = got
      /\ dataAvailable' = dataAvailable /\ sent' = sent
  BY Zenon DEF ReadSize, writerVars
<1>2. \/ verdict' = verdict
      \/ verdict' \in {"true", "false"} /\ Head(sizes) = 0
  BY DEF ReadSize, Conclude
<1>3. /\ Typed /\ Conserved /\ ChunksKept /\ ZeroIsLast /\ Finished
  BY DEF WholeInv
<1>4. sizes \in Seq(Nat) /\ Len(sizes) \in Nat /\ Len(wire) \in Nat
  BY <1>3, Lengths DEF Typed
<1>5. /\ Head(sizes) \in Nat /\ Tail(sizes) \in Seq(Nat)
      /\ Len(Tail(sizes)) = Len(sizes) - 1
      /\ \A i \in 1 .. Len(Tail(sizes)) : Tail(sizes)[i] = sizes[i + 1]
  BY <1>1, <1>4, HeadTailProperties
<1>6. Head(sizes) = sizes[1] /\ Len(sizes) > 0
  BY <1>1, <1>4, EmptySeq
<1>7. ASSUME Unbroken
      PROVE  MakeUp(Head(sizes), Tail(sizes), Len(wire))
  <2>1. MakeUp(0, sizes, Len(wire)) /\ 0 \in Int /\ Len(wire) \in Int
    BY <1>1, <1>3, <1>4, <1>7 DEF ChunksKept
  <2>2. MakeUp(0 + Head(sizes), Tail(sizes), Len(wire))
    BY <1>1, <1>4, <2>1, MadeUpTail, Zenon
  <2>3. 0 + Head(sizes) = Head(sizes)
    BY <1>5
  <2>. QED
    BY <2>2, <2>3, Zenon
<1>8. Tokens' = Tokens /\ IsPlain' = IsPlain
  BY <1>1 DEF Tokens, IsPlain
<1>9. Typed'
  <2>1. verdict' \in {"reading", "true", "false"}
    BY <1>1, <1>2
  <2>. QED
    BY <1>1, <1>3, <1>5, <1>8, <2>1, Zenon DEF Typed
<1>10. Conserved' /\ LengthKept' /\ ChunksKept'
  <2>1. Conserved'
    BY <1>1, <1>3, <1>8, Zenon DEF Conserved
  <2>2. ChunksKept'
    BY <1>1, <1>7, Zenon DEF ChunksKept, Unbroken
  <2>3. LengthKept'
    BY <1>1 DEF LengthKept
  <2>. QED
    BY <2>1, <2>2, <2>3
<1>11. ZeroIsLast'
  <2>. SUFFICES ASSUME NEW i \in 1 .. Len(Tail(sizes)), Tail(sizes)[i] = 0
                PROVE  i = Len(Tail(sizes)) /\ ~dataAvailable /\ offset = body.end
    BY <1>1, Zenon DEF ZeroIsLast
  <2>1. i + 1 \in 1 .. Len(sizes) /\ sizes[i + 1] = 0
    BY <1>4, <1>5
  <2>2. i + 1 = Len(sizes) /\ ~dataAvailable /\ offset = body.end
    BY <1>3, <2>1 DEF ZeroIsLast
  <2>3. i = Len(Tail(sizes))
    <3>1. i + 1 = Len(sizes) /\ Len(Tail(sizes)) = Len(sizes) - 1
      BY <1>5, <2>2, Zenon
    <3>2. i \in Nat
      BY <1>4, <1>5
    <3>. QED
      BY ONLY <1>4, <3>1, <3>2
  <2>. QED
    BY <2>2, <2>3, Zenon
<1>12. Finished'
  <2>. SUFFICES ASSUME verdict' = "true"
                PROVE  offset = body.end /\ wire = <<>> /\ ~dataAvailable
    BY <1>1, Zenon DEF Finished
  <2>1. Head(sizes) = 0
    BY <1>1, <1>2
  <2>2. Len(sizes) = 1 /\ ~dataAvailable /\ offset = body.end
    <3>1. 1 \in 1 .. Len(sizes) /\ sizes[1] = 0
      BY <1>4, <1>6, <2>1
    <3>2. 1 = Len(sizes) /\ ~dataAvailable /\ offset = body.end
      BY <1>3, <3>1, Zenon DEF ZeroIsLast
    <3>. QED
      BY <3>2, Zenon
  <2>3. Len(wire) = 0
    <3>1. Len(Tail(sizes)) = 0
      BY <1>5, <2>2
    <3>. QED
      BY <1>7, <2>1, <2>2, <3>1 DEF MakeUp, Unbroken
  <2>4. wire = <<>>
    BY <1>3, <2>3, Lengths
  <2>. QED
    BY <2>2, <2>4
<1>. QED
  BY <1>9, <1>10, <1>11, <1>12 DEF WholeInv

\* A read that ends the body without a token: so do ReadFails, and a receiver
\* that refuses.
LEMMA ReadFailsWhole ==
    ASSUME WholeInv, ReadFails \/ ReceiverRefuses
    PROVE  WholeInv'
<1>1. /\ UNCHANGED <<body, wire, sizes, offset, dataAvailable, sent, chunk, got>>
      /\ verdict' \in {"true", "false"}
      /\ verdict' = "true" => body.framing = "stream"
  <2>1. CASE ReadFails
    BY <2>1 DEF ReadFails, Conclude, writerVars
  <2>2. CASE ReceiverRefuses
    BY <2>2 DEF ReceiverRefuses, writerVars
  <2>. QED
    BY <2>1, <2>2
<1>2. /\ body' = body /\ offset' = offset /\ wire' = wire /\ sizes' = sizes
      /\ chunk' = chunk /\ got' = got /\ dataAvailable' = dataAvailable /\ sent' = sent
  BY <1>1
<1>3. /\ Typed /\ Conserved /\ LengthKept /\ ChunksKept /\ ZeroIsLast
  BY DEF WholeInv
<1>4. Tokens' = Tokens /\ IsPlain' = IsPlain
  BY <1>2 DEF Tokens, IsPlain
<1>5. Typed' /\ Conserved'
  <2>1. verdict' \in {"reading", "true", "false"}
    BY <1>1
  <2>. QED
    BY <1>2, <1>3, <1>4, <2>1, Zenon DEF Typed, Conserved
<1>6. LengthKept' /\ ChunksKept' /\ ZeroIsLast'
  BY <1>2, <1>3, Zenon DEF LengthKept, ChunksKept, Unbroken, ZeroIsLast
<1>7. Finished'
  BY <1>1, <1>2, Zenon DEF Finished
<1>. QED
  BY <1>5, <1>6, <1>7 DEF WholeInv

-----------------------------------------------------------------------------
LEMMA NextWhole == WholeInv /\ [Next]_vars => WholeInv'
<1>. SUFFICES ASSUME WholeInv, [Next]_vars PROVE WholeInv'
  OBVIOUS
<1>1. CASE \E n \in 1 .. Window : Provide(n)
  BY <1>1, ProvideWhole, Zenon
<1>2. CASE ProvideDone
  BY <1>2, ProvideDoneWhole
<1>3. CASE ProvideNothing
  BY <1>3, QuietWhole DEF ProvideNothing, Unbroken, Continues, readerVars
<1>4. CASE WriteReturns \/ WriteFails \/ ShutDown \/ CloseWriter
  <2>1. Unbroken' => Unbroken
    BY <1>4 DEF WriteReturns, WriteFails, ShutDown, CloseWriter, Unbroken, Continues
  <2>. QED
    BY <1>4, <2>1, QuietWhole DEF WriteReturns, WriteFails, ShutDown, CloseWriter, readerVars
<1>5. CASE \E n \in 1 .. Window : ReadPiece(n)
  BY <1>5, ReadPieceWhole, Zenon
<1>6. CASE ReadSize
  BY <1>6, ReadSizeWhole
<1>7. CASE ReadFails \/ ReceiverRefuses
  BY <1>7, ReadFailsWhole
<1>8. CASE UNCHANGED vars
  BY <1>8, QuietWhole DEF vars, writerVars, readerVars, Unbroken
<1>9. CASE \E k \in 0 .. Window, n \in 1 .. Len(body.content) : ProvidePart(n, k)
  BY <1>9, ProvidePartWhole, Zenon
<1>. QED
  BY <1>1, <1>2, <1>3, <1>4, <1>5, <1>6, <1>7, <1>8, <1>9, Zenon DEF Next, Write, Read

LEMMA WholeInvWhole == WholeInv => WholeOrRefused
<1>. SUFFICES ASSUME WholeInv, verdict = "true", body.framing # "stream"
              PROVE  /\ offset = body.end
                     /\ IsPlain => got = SubSeq(body.content, body.from + 1, body.end)
  BY DEF WholeOrRefused, IsPlain
<1>1. offset = body.end /\ wire = <<>>
  BY Zenon DEF WholeInv, Finished
<1>2. ASSUME IsPlain
      PROVE  got = SubSeq(body.content, body.from + 1, body.end)
  <2>1. got \o wire = SubSeq(body.content, body.from + 1, offset)
    BY <1>2 DEF WholeInv, Conserved, Together
  <2>2. got \in Seq(Tokens)
    BY DEF WholeInv, Typed
  <2>3. got \o <<>> = got
    BY ONLY <2>2, ConcatEmptySeq
  <2>. QED
    BY <1>1, <2>1, <2>3
<1>. QED
  BY <1>1, <1>2

\* The body that a reader takes for whole is the whole body, for every content,
\* every way the provider cuts it into writes and every way the connection cuts
\* it into reads, wherever the writer stops: read_content with its three kinds
\* of framing, against write_content and write_content_chunked.
THEOREM TakenWhole == Spec => []WholeOrRefused
<1>1. Init => WholeInv
  BY InitWhole
<1>2. WholeInv /\ [Next]_vars => WholeInv'
  BY NextWhole
<1>3. WholeInv => WholeOrRefused
  BY WholeInvWhole
<1>. QED
  BY <1>1, <1>2, <1>3, PTL DEF Spec

-----------------------------------------------------------------------------
(* The requests of the client.                                             *)

LEMMA FirstIs ==
    ASSUME NEW rules, NEW n \in Nat, DOMAIN rules = 1 .. n, NEW i \in 1 .. n,
           rules[i][1], \A j \in 1 .. n : j < i => ~rules[j][1]
    PROVE  C!FirstOf(rules) = rules[i][2]
<1>. DEFINE S == {j \in DOMAIN rules : rules[j][1]}
<1>1. i \in S /\ \A j \in S : i =< j
  OBVIOUS
<1>2. S \subseteq Nat
  OBVIOUS
<1>3. C!FirstOf(rules) = rules[C!Min(S)][2]
  BY DEF C!FirstOf
<1>. HIDE DEF S
<1>4. C!Min(S) = i
  <2>1. ASSUME NEW x \in S, \A y \in S : x =< y PROVE x = i
    <3>1. x =< i /\ i =< x /\ x \in Nat /\ i \in Nat
      BY ONLY <1>1, <1>2, <2>1
    <3>. QED
      BY ONLY <3>1
  <2>. QED
    BY <1>1, <2>1 DEF C!Min
<1>. QED
  BY <1>3, <1>4

\* What the server takes for the body, rule by rule.
LEMMA TakenRules ==
    ASSUME NEW r
    PROVE  C!Taken(r) =
             IF ~C!ExpectContent(r) THEN C!Bytes(0)
             ELSE IF r.method = "DELETE" /\ r.length = NoLength THEN C!Bytes(0)
             ELSE IF r.chunked THEN C!Chunks
             ELSE IF r.length = NoLength THEN C!Rest
             ELSE C!Bytes(r.length)
<1>. DEFINE c1 == ~C!ExpectContent(r)
            c2 == r.method = "DELETE" /\ r.length = NoLength
            c3 == r.chunked
            c4 == r.length = NoLength
            b1 == C!Bytes(0)
            b3 == C!Chunks
            b4 == C!Rest
            b5 == C!Bytes(r.length)
            rules == << <<c1, b1>>, <<c2, b1>>, <<c3, b3>>, <<c4, b4>>, <<TRUE, b5>> >>
<1>1. C!Taken(r) = C!FirstOf(rules)
  BY DEF C!Taken
<1>2. SUFFICES C!FirstOf(rules) = IF c1 THEN b1 ELSE IF c2 THEN b1 ELSE IF c3 THEN b3
                                  ELSE IF c4 THEN b4 ELSE b5
  BY <1>1
<1>. HIDE DEF c1, c2, c3, c4, b1, b3, b4, b5
<1>3. /\ DOMAIN rules = 1 .. 5
      /\ rules[1][1] = c1 /\ rules[2][1] = c2 /\ rules[3][1] = c3 /\ rules[4][1] = c4
      /\ rules[5][1] = TRUE
      /\ rules[1][2] = b1 /\ rules[2][2] = b1 /\ rules[3][2] = b3 /\ rules[4][2] = b4
      /\ rules[5][2] = b5
  OBVIOUS
<1>. HIDE DEF rules
<1>5. CASE c1
  <2>1. rules[1][1]
    BY <1>3, <1>5, Zenon
  <2>2. 1 \in 1 .. 5 /\ 5 \in Nat /\ \A j \in 1 .. 5 : j < 1 => FALSE
    OBVIOUS
  <2>3. \A j \in 1 .. 5 : j < 1 => ~rules[j][1]
    BY <2>1, <2>2, Zenon
  <2>4. C!FirstOf(rules) = rules[1][2]
    BY <1>3, <2>1, <2>2, <2>3, FirstIs, Zenon
  <2>. QED
    BY <1>3, <1>5, <2>4, Zenon
<1>6. CASE ~c1 /\ c2
  <2>1. rules[2][1] /\ ~rules[1][1]
    BY <1>3, <1>6, Zenon
  <2>2. 2 \in 1 .. 5 /\ 5 \in Nat /\ \A j \in 1 .. 5 : j < 2 => j = 1
    OBVIOUS
  <2>3. \A j \in 1 .. 5 : j < 2 => ~rules[j][1]
    BY <2>1, <2>2, Zenon
  <2>4. C!FirstOf(rules) = rules[2][2]
    BY <1>3, <2>1, <2>2, <2>3, FirstIs, Zenon
  <2>. QED
    BY <1>3, <1>6, <2>4, Zenon
<1>7. CASE ~c1 /\ ~c2 /\ c3
  <2>1. rules[3][1] /\ ~rules[1][1] /\ ~rules[2][1]
    BY <1>3, <1>7, Zenon
  <2>2. 3 \in 1 .. 5 /\ 5 \in Nat /\ \A j \in 1 .. 5 : j < 3 => j = 1 \/ j = 2
    OBVIOUS
  <2>3. \A j \in 1 .. 5 : j < 3 => ~rules[j][1]
    BY <2>1, <2>2, Zenon
  <2>4. C!FirstOf(rules) = rules[3][2]
    BY <1>3, <2>1, <2>2, <2>3, FirstIs, Zenon
  <2>. QED
    BY <1>3, <1>7, <2>4, Zenon
<1>8. CASE ~c1 /\ ~c2 /\ ~c3 /\ c4
  <2>1. rules[4][1] /\ ~rules[1][1] /\ ~rules[2][1] /\ ~rules[3][1]
    BY <1>3, <1>8, Zenon
  <2>2. 4 \in 1 .. 5 /\ 5 \in Nat /\ \A j \in 1 .. 5 : j < 4 => j = 1 \/ j = 2 \/ j = 3
    OBVIOUS
  <2>3. \A j \in 1 .. 5 : j < 4 => ~rules[j][1]
    BY <2>1, <2>2, Zenon
  <2>4. C!FirstOf(rules) = rules[4][2]
    BY <1>3, <2>1, <2>2, <2>3, FirstIs, Zenon
  <2>. QED
    BY <1>3, <1>8, <2>4, Zenon
<1>9. CASE ~c1 /\ ~c2 /\ ~c3 /\ ~c4
  <2>1. rules[5][1] /\ ~rules[1][1] /\ ~rules[2][1] /\ ~rules[3][1] /\ ~rules[4][1]
    BY <1>3, <1>9, Zenon
  <2>2. 5 \in 1 .. 5 /\ 5 \in Nat /\ \A j \in 1 .. 5 : j < 5 => j = 1 \/ j = 2 \/ j = 3 \/ j = 4
    OBVIOUS
  <2>3. \A j \in 1 .. 5 : j < 5 => ~rules[j][1]
    BY <2>1, <2>2, Zenon
  <2>4. C!FirstOf(rules) = rules[5][2]
    BY <1>3, <2>1, <2>2, <2>3, FirstIs, Zenon
  <2>. QED
    BY <1>3, <1>9, <2>4, Zenon
<1>. QED
  BY <1>5, <1>6, <1>7, <1>8, <1>9, Zenon

Submitting == {"POST", "PUT", "PATCH"}
Types == {"none", "plain", "form", "multipart"}

\* The requests that the client's methods make, and redirects leave.
WellMade(r) ==
    /\ r \in [method : Submitting \cup {"GET", "HEAD", "OPTIONS", "DELETE"}, text : Nat,
              provider : {"none", "length", "chunks"}, size : Nat, type : Types,
              length : {NoLength}, chunked : BOOLEAN, query : Nat]
    /\ r.text > 0 => r.method \in Submitting \cup {"DELETE"}
    /\ r.provider # "none" => r.method \in Submitting /\ r.text = 0
    /\ r.chunked <=> r.provider = "chunks"
    /\ r.provider # "length" => r.size = 0

LEMMA WellMadeAgrees ==
    ASSUME NEW r, WellMade(r)
    PROVE  C!Agrees(r)
<1>. DEFINE f == C!Framed(r)
<1>1. /\ r.length = NoLength /\ r.text \in Nat /\ r.size \in Nat
      /\ r.text # NoLength /\ r.size # NoLength
  BY NoLengthAssumption DEF WellMade
<1>2. CASE r.text > 0
  <2>1. /\ f.method = r.method /\ f.chunked = r.chunked /\ f.length = r.text
    BY <1>1, <1>2 DEF WellMade, C!Framed
  <2>2. /\ r.method \in Submitting \cup {"DELETE"} /\ ~r.chunked
    BY <1>2 DEF WellMade
  <2>. HIDE DEF f
  <2>3. C!Taken(f) = C!Bytes(r.text)
    BY <1>1, <2>1, <2>2, TakenRules DEF C!ExpectContent, Submitting
  <2>. QED
    BY <1>2, <2>3 DEF C!Agrees, C!Body, f
<1>3. CASE r.text = 0 /\ r.provider = "length"
  <2>1. /\ f.method = r.method /\ f.chunked = r.chunked /\ f.length = r.size
    BY <1>1, <1>3 DEF WellMade, C!Framed
  <2>2. /\ r.method \in Submitting /\ ~r.chunked
    BY <1>3 DEF WellMade
  <2>. HIDE DEF f
  <2>3. C!Taken(f) = C!Bytes(r.size)
    BY <1>1, <2>1, <2>2, TakenRules DEF C!ExpectContent, Submitting
  <2>. QED
    BY <1>3, <2>3 DEF C!Agrees, C!Body, f
<1>4. CASE r.text = 0 /\ r.provider = "chunks"
  <2>1. f = r
    BY <1>4 DEF C!Framed
  <2>2. r.method \in Submitting /\ r.chunked
    BY <1>4 DEF WellMade
  <2>. HIDE DEF f
  <2>3. C!Taken(f) = C!Chunks
    BY <2>1, <2>2, TakenRules DEF C!ExpectContent, Submitting
  <2>. QED
    BY <1>4, <2>3 DEF C!Agrees, C!Body, f
<1>5. CASE r.text = 0 /\ r.provider = "none"
  <2>1. C!Body(r) = C!Bytes(0)
    BY <1>5 DEF WellMade, C!Body
  <2>2. CASE r.method \in Submitting
    <3>1. f.method = r.method /\ f.chunked = r.chunked /\ f.length = 0
      BY <1>5, <2>2 DEF WellMade, C!Framed, Submitting
    <3>2. ~r.chunked /\ 0 # NoLength
      BY NoLengthAssumption, <1>5 DEF WellMade
    <3>. HIDE DEF f
    <3>3. C!Taken(f) = C!Bytes(0)
      BY <2>2, <3>1, <3>2, TakenRules DEF C!ExpectContent, Submitting
    <3>. QED
      BY <2>1, <3>3 DEF C!Agrees, f
  <2>3. CASE r.method \notin Submitting
    <3>1. f = r
      BY <1>5, <2>3 DEF C!Framed, Submitting
    <3>2. r.method = "DELETE" \/ ~C!ExpectContent(r)
      BY <2>3 DEF WellMade, C!ExpectContent, Submitting
    <3>. HIDE DEF f
    <3>3. C!Taken(f) = C!Bytes(0)
      BY <1>1, <3>1, <3>2, TakenRules
    <3>. QED
      BY <2>1, <3>3 DEF C!Agrees, f
  <2>. QED
    BY <2>2, <2>3
<1>. QED
  BY <1>1, <1>2, <1>3, <1>4, <1>5 DEF WellMade

LEMMA RedirectWellMade ==
    ASSUME NEW r, WellMade(r), NEW status, r.provider = "none" \/ status # 303
    PROVE  /\ WellMade(C!RedirectedBy(r, status))
           /\ C!RedirectedBy(r, status).provider = r.provider
<1>1. CASE status = 303 /\ r.method \notin {"GET", "HEAD"}
  <2>. DEFINE q == [r EXCEPT !.method = "GET", !.text = 0, !.type = "none",
                             !.length = NoLength, !.chunked = FALSE]
  <2>1. C!RedirectedBy(r, status) = q
    BY <1>1 DEF C!RedirectedBy
  <2>2. q.provider = "none" /\ r.provider = "none" /\ q.size = 0 /\ q.text = 0 /\ q.chunked = FALSE
    BY <1>1 DEF WellMade
  <2>3. q \in [method : Submitting \cup {"GET", "HEAD", "OPTIONS", "DELETE"}, text : Nat,
              provider : {"none", "length", "chunks"}, size : Nat, type : Types,
              length : {NoLength}, chunked : BOOLEAN, query : Nat]
    BY DEF WellMade, Types
  <2>. HIDE DEF q
  <2>. QED
    BY <2>1, <2>2, <2>3 DEF WellMade
<1>2. CASE ~(status = 303 /\ r.method \notin {"GET", "HEAD"})
  BY <1>2 DEF C!RedirectedBy
<1>. QED
  BY <1>1, <1>2

LEMMA ContentWellMade ==
    ASSUME NEW method \in Submitting, NEW size \in Nat, NEW gives, NEW type \in Types
    PROVE  LET r == C!WithContent(C!Request(method), gives, size, type)
           IN  WellMade(r)
<1>. DEFINE r == C!WithContent(C!Request(method), gives, size, type)
<1>1. r = [method |-> method,
           text |-> IF gives \in {"provider", "stream"} THEN 0 ELSE size,
           provider |-> IF gives = "provider" THEN "length"
                        ELSE IF gives = "stream" THEN "chunks" ELSE "none",
           size |-> IF gives = "provider" THEN size ELSE 0,
           type |-> type, length |-> NoLength, chunked |-> gives = "stream", query |-> 0]
  BY DEF C!WithContent, C!Request
<1>. HIDE DEF r
<1>2. WellMade(r)
  BY <1>1 DEF WellMade, Submitting, Types
<1>. QED
  BY <1>2 DEF r

LEMMA MadeWellMade ==
    ASSUME NEW call \in C!Calls(Nat)
    PROVE  WellMade(C!Made(call))
<1>. DEFINE r == C!Made(call)
<1>1. call.size \in Nat
  BY DEF C!Calls
<1>2. call.method \in {"GET", "HEAD", "OPTIONS", "POST", "PUT", "PATCH", "DELETE"}
  BY DEF C!Calls
<1>3. CASE call.method \in {"GET", "HEAD", "OPTIONS"}
  <2>1. r = [method |-> call.method, text |-> 0, provider |-> "none", size |-> 0,
             type |-> "none", length |-> NoLength, chunked |-> FALSE,
             query |-> IF call.method = "GET" /\ call.gives = "params" THEN call.size ELSE 0]
    BY <1>3 DEF C!Made, C!Get, C!HeadOf, C!Options, C!Request
  <2>. HIDE DEF r
  <2>2. WellMade(r)
    BY <1>1, <1>3, <2>1 DEF WellMade, Submitting, Types
  <2>. QED
    BY <2>2 DEF r
<1>4. CASE call.method = "DELETE"
  <2>1. r = [method |-> "DELETE", text |-> IF call.gives = "nothing" THEN 0 ELSE call.size,
             provider |-> "none", size |-> 0,
             type |-> IF call.gives = "nothing" THEN "none" ELSE "plain",
             length |-> NoLength, chunked |-> FALSE, query |-> 0]
    BY <1>4 DEF C!Made, C!Delete, C!Request
  <2>. HIDE DEF r
  <2>2. WellMade(r)
    BY <1>1, <2>1 DEF WellMade, Submitting, Types
  <2>. QED
    BY <2>2 DEF r
<1>5. CASE call.method = "PATCH"
  <2>1. r = C!Patch(call.gives, call.size)
    BY <1>5 DEF C!Made
  <2>2. "PATCH" \in Submitting /\ 0 \in Nat /\ "none" \in Types /\ "plain" \in Types
    BY DEF Submitting, Types
  <2>. QED
    BY <1>1, <2>1, <2>2, ContentWellMade DEF C!Patch
<1>6. CASE call.method \in {"POST", "PUT"}
  <2>1. r = C!Submitted(C!Request(call.method), call.gives, call.size)
    BY <1>6 DEF C!Made, C!Post, C!Put
  <2>2. /\ call.method \in Submitting /\ 0 \in Nat /\ call.size + 1 \in Nat
    BY <1>1, <1>6 DEF Submitting
  <2>3. \/ r = C!WithContent(C!Request(call.method), "text", 0, "none")
        \/ r = C!WithContent(C!Request(call.method), "text", call.size, "form")
        \/ r = C!WithContent(C!Request(call.method), "text", call.size + 1, "multipart")
        \/ r = C!WithContent(C!Request(call.method), "stream", call.size, "multipart")
        \/ r = C!WithContent(C!Request(call.method), call.gives, call.size, "plain")
    BY <2>1, Zenon DEF C!Submitted
  <2>4. \A gives : \A size \in Nat : \A type \in Types :
            WellMade(C!WithContent(C!Request(call.method), gives, size, type))
    BY <2>2, ContentWellMade
  <2>5. /\ "none" \in Types /\ "form" \in Types
        /\ "multipart" \in Types /\ "plain" \in Types
    BY DEF Types
  <2>. HIDE DEF r
  <2>6. WellMade(r)
    BY <1>1, <2>2, <2>3, <2>4, <2>5, Zenon
  <2>. QED
    BY <2>6 DEF r
<1>. QED
  BY <1>2, <1>3, <1>4, <1>5, <1>6

\* Whichever method of ClientImpl is called, with a content of any size, the
\* server takes exactly the body that write_request writes, and so it is after
\* one and two redirects.
THEOREM EveryCallFramed ==
    ASSUME NEW call \in C!Calls(Nat)
    PROVE  C!CallFramed(call)
<1>. DEFINE r == C!Made(call)
<1>1. WellMade(r)
  BY MadeWellMade
<1>. HIDE DEF r
<1>2. C!Agrees(r)
  BY <1>1, WellMadeAgrees
<1>3. ASSUME NEW s1 \in {301, 302, 303, 307, 308}, NEW s2 \in {301, 302, 303, 307, 308},
             r.provider = "none" \/ s1 # 303, r.provider = "none" \/ s2 # 303
      PROVE  /\ C!Agrees(C!RedirectedBy(r, s1))
             /\ C!Agrees(C!RedirectedBy(C!RedirectedBy(r, s1), s2))
  <2>. DEFINE q == C!RedirectedBy(r, s1)
  <2>1. WellMade(q) /\ q.provider = r.provider
    BY <1>1, <1>3, RedirectWellMade
  <2>. HIDE DEF q
  <2>2. WellMade(C!RedirectedBy(q, s2))
    BY <1>3, <2>1, RedirectWellMade
  <2>. QED
    BY <2>1, <2>2, WellMadeAgrees DEF q
<1>. QED
  BY <1>2, <1>3 DEF C!CallFramed, r

-----------------------------------------------------------------------------
(* What a Range header that is accepted is answered with.                  *)

Positions == Nat \cup {-1}

\* A range that lies in the content stands for the positions that it means.
LEMMA ResolvedAsMeant ==
    ASSUME NEW len \in Nat, NEW range \in Positions \X Positions,
           range[1] # -1 \/ range[2] # -1,
           0 <= Resolve(range, len)[1],
           Resolve(range, len)[1] <= Resolve(range, len)[2],
           Resolve(range, len)[2] <= len - 1
    PROVE  /\ Resolve(range, len) \in Nat \X Nat
           /\ Meant(range, len) = Resolve(range, len)[1] .. Resolve(range, len)[2]
<1>1. range[1] \in Positions /\ range[2] \in Positions
  OBVIOUS
<1>2. CASE range[1] = -1
  <2>1. Resolve(range, len) = <<len - range[2], len - 1>>
    BY <1>2 DEF Resolve, Missing
  <2>2. Meant(range, len) = {p \in 0 .. len - 1 : p >= len - range[2]}
    BY <1>2 DEF Meant, Missing
  <2>. QED
    BY <1>1, <2>1, <2>2 DEF Positions
<1>3. CASE range[1] # -1 /\ range[2] = -1
  <2>1. Resolve(range, len) = <<range[1], len - 1>>
    BY <1>3 DEF Resolve, Missing
  <2>2. Meant(range, len) = {p \in 0 .. len - 1 : p >= range[1]}
    BY <1>3 DEF Meant, Missing
  <2>. QED
    BY <1>1, <1>3, <2>1, <2>2 DEF Positions
<1>4. CASE range[1] # -1 /\ range[2] # -1
  <2>1. Resolve(range, len) = range
    BY <1>4 DEF Resolve, Missing
  <2>2. Meant(range, len) = {p \in 0 .. len - 1 : p >= range[1] /\ p <= range[2]}
    BY <1>4 DEF Meant, Missing
  <2>3. range[1] \in Nat /\ range[2] \in Nat
    BY <1>1, <1>4 DEF Positions
  <2>. QED
    BY <2>1, <2>2, <2>3
<1>. QED
  BY <1>2, <1>3, <1>4

\* The slice of a content has the positions from first to last, each once.
LEMMA SliceServed ==
    ASSUME NEW len \in Nat, NEW first \in Nat, NEW last \in Nat,
           first <= last, last <= len - 1
    PROVE  LET slice == Slice([p \in 1 .. len |-> p - 1], <<first, last>>)
           IN  /\ ToSet(slice) = first .. last
               /\ Len(slice) = Cardinality(first .. last)
<1>. DEFINE content == [p \in 1 .. len |-> p - 1]
            slice == SubSeq(content, first + 1, last + 1)
<1>1. Slice(content, <<first, last>>) = slice
  BY DEF Slice, OffsetAndLength
<1>2. \A i \in first + 1 .. last + 1 : content[i] \in Nat /\ content[i] = i - 1
  OBVIOUS
<1>. HIDE DEF content
<1>3. /\ slice \in Seq(Nat) /\ Len(slice) = last - first + 1
      /\ \A i \in 1 .. last - first + 1 : slice[i] = content[first + i]
  <2>. DEFINE m == first + 1  n == last + 1
  <2>1. m \in Int /\ n \in Int /\ m <= n /\ \A i \in m .. n : content[i] \in Nat
    BY <1>2
  <2>2. /\ SubSeq(content, m, n) \in Seq(Nat)
        /\ Len(SubSeq(content, m, n)) = IF m <= n THEN n - m + 1 ELSE 0
        /\ \A i \in 1 .. n - m + 1 : SubSeq(content, m, n)[i] = content[m + i - 1]
    <3>. HIDE DEF m, n
    <3>. QED  BY <2>1, SubSeqProperties
  <2>. QED
    BY <2>2
<1>. HIDE DEF slice
<1>4. \A i \in 1 .. last - first + 1 : slice[i] = first + i - 1
  BY <1>2, <1>3
<1>5. ToSet(slice) = {slice[i] : i \in 1 .. last - first + 1}
  <2>1. DOMAIN slice = 1 .. last - first + 1
    BY <1>3
  <2>. QED
    BY <2>1, Zenon DEF ToSet
<1>6. {slice[i] : i \in 1 .. last - first + 1} = first .. last
  <2>1. ASSUME NEW p \in first .. last
        PROVE  \E i \in 1 .. last - first + 1 : slice[i] = p
    <3>. DEFINE i == p - first + 1
    <3>1. i \in 1 .. last - first + 1 /\ first + i - 1 = p
      OBVIOUS
    <3>. HIDE DEF i
    <3>. QED
      BY <1>4, <3>1
  <2>. QED
    BY <1>4, <2>1
<1>7. Cardinality(first .. last) = last - first + 1
  BY FS_Interval
<1>. QED
  BY <1>1, <1>3, <1>5, <1>6, <1>7 DEF content

\* Of the ranges that write a position all but one overlap an earlier one.
LEMMA WrittenThrice ==
    ASSUME NEW rs \in Seq(Nat \X Nat), NEW p \in Nat,
           ~(Cardinality(Overlapping(rs)) > 2)
    PROVE  TimesWritten(p, rs) <= 3
<1>. DEFINE S == {i \in DOMAIN rs : rs[i][1] <= p /\ p <= rs[i][2]}
            O == Overlapping(rs)
<1>1. Len(rs) \in Nat /\ DOMAIN rs = 1 .. Len(rs)
  OBVIOUS
<1>2. \A i \in DOMAIN rs : rs[i][1] \in Nat /\ rs[i][2] \in Nat
  OBVIOUS
<1>3. IsFiniteSet(O) /\ Cardinality(O) \in Nat
  <2>1. IsFiniteSet(1 .. Len(rs))
    BY <1>1, FS_Interval
  <2>2. O \in SUBSET (1 .. Len(rs))
    BY <1>1 DEF Overlapping
  <2>3. IsFiniteSet(O)
    BY ONLY <2>1, <2>2, FS_Subset
  <2>. QED
    BY ONLY <2>3, FS_CardinalityType
<1>4. TimesWritten(p, rs) = Cardinality(S)
  <2>1. \A i \in DOMAIN rs :
          (rs[i][1] <= p /\ p < rs[i][1] + (rs[i][2] - rs[i][1] + 1))
            <=> (rs[i][1] <= p /\ p <= rs[i][2])
    BY <1>2
  <2>. QED
    BY <2>1 DEF TimesWritten, OffsetAndLength
<1>5. ASSUME NEW i \in S, NEW j \in S, j < i
      PROVE  i \in O
  <2>1. i \in DOMAIN rs /\ j \in 1 .. i - 1
    BY <1>1, <1>5
  <2>2. rs[i][1] <= rs[j][2]
    BY <1>2, <1>5
  <2>. QED
    BY <2>1, <2>2 DEF Overlapping
<1>6. PICK m : S \subseteq O \cup {m}
  <2>1. CASE S \subseteq O
    BY <2>1
  <2>2. CASE \E m \in S : m \notin O
    <3>1. PICK m \in S : m \notin O
      BY <2>2
    <3>2. \A i \in S : i = m \/ m < i \/ i < m
      BY <1>1
    <3>. QED
      BY <1>5, <3>1, <3>2
  <2>. QED
    BY <2>1, <2>2
<1>. HIDE DEF S, O
<1>7. /\ IsFiniteSet(O \cup {m})
      /\ Cardinality(O \cup {m}) = IF m \in O THEN Cardinality(O) ELSE Cardinality(O) + 1
  BY ONLY <1>3, FS_AddElement
<1>8. IsFiniteSet(S) /\ Cardinality(S) <= Cardinality(O \cup {m})
  BY ONLY <1>6, <1>7, FS_Subset
<1>9. Cardinality(S) \in Nat
  BY ONLY <1>8, FS_CardinalityType
<1>10. ~(Cardinality(O) > 2)
  BY DEF O
<1>. QED
  BY ONLY <1>3, <1>4, <1>7, <1>8, <1>9, <1>10

\* The ranges of a header that is accepted, resolved: they lie in the content,
\* stand for what they mean, and few of them overlap.
LEMMA AcceptedResolved ==
    ASSUME NEW len \in Nat, NEW header \in Seq(Positions \X Positions),
           NEW ranges, ranges = ParseRangeHeader(header), ranges # <<>>,
           ~RangeError(206, ranges, len),
           NEW resolved, resolved = ResolveAll(ranges, len)
    PROVE  /\ ranges \in Seq(Positions \X Positions) /\ ranges # <<>>
           /\ resolved \in Seq(Nat \X Nat) /\ Len(resolved) = Len(ranges)
           /\ ~(Cardinality(Overlapping(resolved)) > 2)
           /\ \A i \in DOMAIN ranges :
                /\ resolved[i] \in Nat \X Nat
                /\ resolved[i][1] <= resolved[i][2] /\ resolved[i][2] <= len - 1
                /\ Meant(ranges[i], len) = resolved[i][1] .. resolved[i][2]
<1>1. /\ ranges \in Seq(Positions \X Positions) /\ ranges # <<>>
      /\ \A i \in DOMAIN ranges : ranges[i][1] # -1 \/ ranges[i][2] # -1
  BY DEF ParseRangeHeader, Missing
<1>2. /\ \A i \in DOMAIN resolved : 0 <= resolved[i][1] /\ resolved[i][1] <= resolved[i][2]
                                      /\ resolved[i][2] <= len - 1
      /\ ~(Cardinality(Overlapping(resolved)) > 2)
  BY DEF RangeError, Success
<1>3. DOMAIN resolved = DOMAIN ranges
      /\ \A i \in DOMAIN ranges : resolved[i] = Resolve(ranges[i], len)
  BY DEF ResolveAll
<1>4. ASSUME NEW i \in DOMAIN ranges
      PROVE  /\ resolved[i] \in Nat \X Nat
             /\ resolved[i][1] <= resolved[i][2] /\ resolved[i][2] <= len - 1
             /\ Meant(ranges[i], len) = resolved[i][1] .. resolved[i][2]
  <2>. DEFINE range == ranges[i]
  <2>1. range \in Positions \X Positions /\ (range[1] # -1 \/ range[2] # -1)
    BY <1>1
  <2>2. resolved[i] = Resolve(range, len)
    BY <1>3
  <2>3. /\ 0 <= Resolve(range, len)[1] /\ Resolve(range, len)[1] <= Resolve(range, len)[2]
        /\ Resolve(range, len)[2] <= len - 1
    BY <1>2, <1>3, <2>2
  <2>. HIDE DEF range
  <2>4. /\ Resolve(range, len) \in Nat \X Nat
        /\ Meant(range, len) = Resolve(range, len)[1] .. Resolve(range, len)[2]
    BY <2>1, <2>3, ResolvedAsMeant
  <2>. QED
    BY <2>2, <2>3, <2>4 DEF range
<1>5. resolved \in Seq(Nat \X Nat) /\ Len(resolved) = Len(ranges)
  <2>1. /\ Len(ranges) \in Nat /\ DOMAIN ranges = 1 .. Len(ranges)
    BY <1>1
  <2>2. resolved = [i \in 1 .. Len(ranges) |-> resolved[i]]
    BY <2>1, <1>3 DEF ResolveAll
  <2>. QED
    BY <1>4, <2>1, <2>2
<1>. QED
  BY <1>1, <1>2, <1>4, <1>5

\* Each range is answered with exactly the positions that it means, and no
\* position is written more than three times.
LEMMA PositionsAsMeant ==
    ASSUME NEW len \in Nat, NEW header \in Seq(Positions \X Positions),
           ParseRangeHeader(header) # <<>>,
           ~RangeError(206, ParseRangeHeader(header), len)
    PROVE  PositionsServed(ParseRangeHeader(header),
                           ResolveAll(ParseRangeHeader(header), len), len)
<1>. DEFINE ranges   == ParseRangeHeader(header)
            resolved == ResolveAll(ranges, len)
            content  == [p \in 1 .. len |-> p - 1]
<1>. SUFFICES /\ \A i \in DOMAIN ranges :
                   /\ ToSet(Slice(content, resolved[i])) = Meant(ranges[i], len)
                   /\ Len(Slice(content, resolved[i])) = Cardinality(Meant(ranges[i], len))
              /\ \A p \in 0 .. len - 1 : TimesWritten(p, resolved) <= 3
  BY DEF PositionsServed, Whole
<1>1. /\ resolved \in Seq(Nat \X Nat) /\ ~(Cardinality(Overlapping(resolved)) > 2)
      /\ \A i \in DOMAIN ranges :
            /\ resolved[i] \in Nat \X Nat
            /\ resolved[i][1] <= resolved[i][2] /\ resolved[i][2] <= len - 1
            /\ Meant(ranges[i], len) = resolved[i][1] .. resolved[i][2]
  <2>. HIDE DEF ranges, resolved
  <2>1. ranges = ParseRangeHeader(header) /\ resolved = ResolveAll(ranges, len)
    BY DEF ranges, resolved
  <2>. QED
    BY <2>1, AcceptedResolved
<1>. HIDE DEF ranges, resolved
<1>2. ASSUME NEW i \in DOMAIN ranges
      PROVE  /\ ToSet(Slice(content, resolved[i])) = Meant(ranges[i], len)
             /\ Len(Slice(content, resolved[i])) = Cardinality(Meant(ranges[i], len))
  <2>. DEFINE first == resolved[i][1]  last == resolved[i][2]
  <2>1. /\ first \in Nat /\ last \in Nat /\ first <= last /\ last <= len - 1
        /\ resolved[i] = <<first, last>> /\ Meant(ranges[i], len) = first .. last
    BY <1>1
  <2>. HIDE DEF first, last
  <2>2. /\ ToSet(Slice(content, <<first, last>>)) = first .. last
        /\ Len(Slice(content, <<first, last>>)) = Cardinality(first .. last)
    BY <2>1, SliceServed
  <2>. QED
    BY <2>1, <2>2
<1>3. \A p \in 0 .. len - 1 : TimesWritten(p, resolved) <= 3
  BY <1>1, WrittenThrice
<1>. QED
  BY <1>2, <1>3

\* MultipartLength counts one for each head, one for the end, and the slices.
LEMMA MultipartLengthSteps ==
    ASSUME NEW ranges \in Seq(Nat \X Nat)
    PROVE  \E total \in [0 .. Len(ranges) -> Int] :
              /\ total[0] = 1
              /\ \A i \in 1 .. Len(ranges) :
                    total[i] = total[i - 1] + 1 + OffsetAndLength(ranges[i])[2]
              /\ MultipartLength(ranges) = total[Len(ranges)]
<1>1. PICK n \in Nat : n = Len(ranges)
  BY LenProperties
<1>2. \A i \in 1 .. n : OffsetAndLength(ranges[i])[2] \in Int
  <2>1. \A i \in 1 .. n : ranges[i] \in Nat \X Nat
    BY <1>1, ElementOfSeq
  <2>. QED
    BY <2>1 DEF OffsetAndLength
<1>. DEFINE step == [at \in (1 .. n) \X Int |-> at[2] + 1 + OffsetAndLength(ranges[at[1]])[2]]
<1>3. step \in [(1 .. n) \X Int -> Int]
  <2>1. \A at \in (1 .. n) \X Int : at[1] \in 1 .. n /\ at[2] \in Int
    OBVIOUS
  <2>2. \A at \in (1 .. n) \X Int : at[2] + 1 + OffsetAndLength(ranges[at[1]])[2] \in Int
    BY <1>2, <2>1
  <2>. QED
    BY <2>2
<1>4. \A i \in 1 .. n, k \in Int :
        step[<<i, k>>] = k + 1 + OffsetAndLength(ranges[i])[2]
  OBVIOUS
<1>. HIDE DEF step
<1>5. PICK total \in [0 .. n -> Int] : Steps(1, step, n, total)
  <2>1. 1 \in Int /\ n \in 0 .. n
    BY <1>1
  <2>. QED
    BY <1>3, <2>1, StepsExist
<1>6. total[0] = 1 /\ \A i \in 1 .. n : total[i] = step[<<i, total[i - 1]>>]
  BY <1>5, Zenon DEF Steps
<1>7. \A i \in 1 .. n : total[i] = total[i - 1] + 1 + OffsetAndLength(ranges[i])[2]
  <2>1. \A i \in 1 .. n : total[i - 1] \in Int
    BY <1>5
  <2>. QED
    BY <1>4, <1>6, <2>1
<1>. DEFINE Counts(f) == f = [i \in 0 .. n |->
                            IF i = 0 THEN 1
                            ELSE f[i - 1] + 1 + OffsetAndLength(ranges[i])[2]]
            f == CHOOSE f : Counts(f)
<1>8. Counts(total)
  <2>1. \A i \in 0 .. n :
          total[i] = IF i = 0 THEN 1 ELSE total[i - 1] + 1 + OffsetAndLength(ranges[i])[2]
    <3>1. \A i \in 0 .. n : i # 0 => i \in 1 .. n
      OBVIOUS
    <3>. QED
      BY ONLY <1>6, <1>7, <3>1
  <2>2. total = [i \in 0 .. n |-> total[i]]
    BY <1>5
  <2>3. [i \in 0 .. n |-> total[i]] = [i \in 0 .. n |->
            IF i = 0 THEN 1 ELSE total[i - 1] + 1 + OffsetAndLength(ranges[i])[2]]
    BY ONLY <2>1, Zenon
  <2>. QED
    BY ONLY <2>2, <2>3, Zenon
<1>9. Counts(f)
  BY ONLY <1>8, Zenon
<1>10. MultipartLength(ranges) = f[n]
  BY <1>1, Zenon DEF MultipartLength
<1>11. f = total
  <2>. HIDE DEF f
  <2>1. /\ f = [i \in 0 .. n |-> f[i]] 
        /\ \A i \in 0 .. n :
          f[i] = IF i = 0 THEN 1 ELSE f[i - 1] + 1 + OffsetAndLength(ranges[i])[2]
    <3>1. \A i \in 0 .. n :
          f[i] = IF i = 0 THEN 1 ELSE f[i - 1] + 1 + OffsetAndLength(ranges[i])[2]
      BY <1>9, Zenon
    <3>2. DOMAIN f = 0 .. n /\ f = [i \in DOMAIN f |-> f[i]]
      BY <1>9, Zenon
    <3>. QED
      BY ONLY <3>1, <3>2
  <2>2. \A i \in 1 .. n : f[i - 1] = total[i - 1] => f[i] = total[i]
    <3>1. \A i \in 1 .. n : i # 0 /\ i \in 0 .. n
      OBVIOUS
    <3>. QED
      BY <1>7, <2>1, <3>1
  <2>3. f[0] = total[0]
    BY <1>1, <1>6, <2>1
  <2>4. Over(total, n)
    BY <1>5 DEF Over
  <2>5. Over(f, n)
    BY <2>1, Zenon DEF Over
  <2>. QED
    BY ONLY <2>2, <2>3, <2>4, <2>5, n \in Nat, SameSteps
<1>. HIDE DEF f
<1>. QED
  BY <1>1, <1>5, <1>6, <1>7, <1>10, <1>11

\* The slice of a range that lies in the content has the length it is given.
LEMMA SliceLength ==
    ASSUME NEW len \in Nat, NEW range \in Nat \X Nat,
           range[1] <= range[2], range[2] <= len - 1
    PROVE  LET slice == Slice([p \in 1 .. len |-> p - 1], range)
           IN  slice \in Seq(Nat) /\ Len(slice) = OffsetAndLength(range)[2]
<1>. DEFINE content == [p \in 1 .. len |-> p - 1]
            m == range[1] + 1
            n == range[2] + 1
<1>1. m \in Int /\ n \in Int /\ m <= n /\ \A i \in m .. n : content[i] \in Nat
  OBVIOUS
<1>2. OffsetAndLength(range)[2] = n - m + 1
  BY DEF OffsetAndLength
<1>3. Slice(content, range) = SubSeq(content, m, n)
  <2>1. range[1] + (range[2] - range[1] + 1) = range[2] + 1
    OBVIOUS
  <2>. QED
    BY <2>1 DEF Slice, OffsetAndLength
<1>. HIDE DEF content, m, n
<1>4. SubSeq(content, m, n) \in Seq(Nat) /\ Len(SubSeq(content, m, n)) = n - m + 1
  BY <1>1, SubSeqProperties
<1>. QED
  BY <1>2, <1>3, <1>4 DEF content

\* An answer of several parts is as long as the server declares.
LEMMA PartsLength ==
    ASSUME NEW len \in Nat, NEW ranges \in Seq(Nat \X Nat),
           \A i \in DOMAIN ranges : ranges[i][1] <= ranges[i][2] /\ ranges[i][2] <= len - 1,
           NEW content, content = [p \in 1 .. len |-> p - 1]
    PROVE  Len(MultipartRanges(content, ranges)) = MultipartLength(ranges)
<1>. DEFINE head(r) == [range |-> r, of |-> Len(content)]
            T == Nat \cup {head(ranges[i]) : i \in DOMAIN ranges} \cup {head(<<>>)}
            seqs == [i \in DOMAIN ranges |-> <<head(ranges[i])>> \o Slice(content, ranges[i])]
<1>1. PICK n \in Nat : n = Len(ranges)
  BY LenProperties
<1>2. DOMAIN ranges = 1 .. n /\ \A i \in 1 .. n : ranges[i] \in Nat \X Nat
  BY <1>1
<1>3. ASSUME NEW i \in 1 .. n
      PROVE  seqs[i] \in Seq(T) /\ Len(seqs[i]) = 1 + OffsetAndLength(ranges[i])[2]
  <2>1. /\ Slice(content, ranges[i]) \in Seq(Nat)
        /\ Len(Slice(content, ranges[i])) = OffsetAndLength(ranges[i])[2]
    BY <1>2, SliceLength
  <2>2. head(ranges[i]) \in T /\ Nat \subseteq T
    BY <1>2
  <2>3. seqs[i] = <<head(ranges[i])>> \o Slice(content, ranges[i])
    BY <1>2
  <2>. HIDE DEF head, T, seqs
  <2>4. Slice(content, ranges[i]) \in Seq(T) /\ <<head(ranges[i])>> \in Seq(T)
    BY ONLY <2>1, <2>2
  <2>5. Len(<<head(ranges[i])>>) = 1
    OBVIOUS
  <2>. QED
    BY ONLY <2>1, <2>3, <2>4, <2>5, ConcatProperties
<1>4. seqs \in Seq(Seq(T)) /\ Len(seqs) = n
  <2>1. DOMAIN seqs = 1 .. n /\ seqs = [i \in 1 .. n |-> seqs[i]]
    BY <1>2
  <2>. HIDE DEF seqs, T
  <2>. QED
    BY <1>1, <1>3, <2>1
<1>5. MultipartRanges(content, ranges) = FlattenSeq(seqs) \o <<head(<<>>)>>
  BY DEF MultipartRanges
<1>6. <<head(<<>>)>> \in Seq(T) /\ Len(<<head(<<>>)>>) = 1
  OBVIOUS
<1>. HIDE DEF head, T, seqs
<1>7. PICK total \in [0 .. n -> Int] :
        /\ total[0] = 1
        /\ \A i \in 1 .. n : total[i] = total[i - 1] + 1 + OffsetAndLength(ranges[i])[2]
        /\ MultipartLength(ranges) = total[n]
  BY <1>1, MultipartLengthSteps
<1>8. Len(FlattenSeq(seqs)) = total[n] - total[0]
  <2>1. \A i \in 0 .. Len(seqs) : total[i] \in Int
    BY <1>4, <1>7
  <2>2. \A i \in 1 .. Len(seqs) : total[i] = total[i - 1] + Len(seqs[i])
    <3>1. ASSUME NEW i \in 1 .. n PROVE total[i] = total[i - 1] + Len(seqs[i])
      <4>1. total[i - 1] \in Int
        BY ONLY i \in 1 .. n, n \in Nat, total \in [0 .. n -> Int]
      <4>2. ranges[i] \in Nat \X Nat
        BY <1>2
      <4>3. OffsetAndLength(ranges[i])[2] \in Int
        BY ONLY <4>2 DEF OffsetAndLength
      <4>4. /\ total[i] = total[i - 1] + 1 + OffsetAndLength(ranges[i])[2]
            /\ Len(seqs[i]) = 1 + OffsetAndLength(ranges[i])[2]
        BY ONLY <1>3, <1>7, i \in 1 .. n
      <4>5. PICK a \in Int, b \in Int :
              a = total[i - 1] /\ b = OffsetAndLength(ranges[i])[2]
        BY ONLY <4>1, <4>3
      <4>6. total[i] = a + 1 + b /\ Len(seqs[i]) = 1 + b
        BY ONLY <4>4, <4>5
      <4>7. total[i] = a + Len(seqs[i])
        BY ONLY <4>6, a \in Int, b \in Int
      <4>. QED
        BY ONLY <4>5, <4>7
    <3>. QED
      BY <1>4, <3>1
  <2>3. Len(FlattenSeq(seqs)) = total[Len(seqs)] - total[0]
    BY ONLY <1>4, <2>1, <2>2, FlattenLength
  <2>. QED
    BY <1>4, <2>3
<1>9. FlattenSeq(seqs) \in Seq(T)
  BY <1>4, <1>6, FlattenAppend
<1>10. Len(FlattenSeq(seqs) \o <<head(<<>>)>>) = Len(FlattenSeq(seqs)) + 1
  BY <1>6, <1>9, ConcatProperties
<1>11. total[n] \in Int
  BY <1>7
<1>. QED
  BY <1>5, <1>7, <1>8, <1>10, <1>11

\* An answer with ranges is as long as it declares.
LEMMA LengthAsDeclared ==
    ASSUME NEW len \in Nat, NEW header \in Seq(Positions \X Positions),
           NEW ranges, ranges = ParseRangeHeader(header), ranges # <<>>,
           ~RangeError(206, ranges, len),
           NEW resolved, resolved = ResolveAll(ranges, len)
    PROVE  DeclaredLength(206, Whole(len), resolved) = Len(Written(Whole(len), resolved))
<1>. DEFINE content == [p \in 1 .. len |-> p - 1]
<1>1. /\ ranges \in Seq(Positions \X Positions)
      /\ resolved \in Seq(Nat \X Nat) /\ Len(resolved) = Len(ranges)
      /\ \A i \in DOMAIN ranges : resolved[i][1] <= resolved[i][2] /\ resolved[i][2] <= len - 1
  BY AcceptedResolved
<1>2. /\ DOMAIN resolved = DOMAIN ranges /\ resolved # <<>> /\ Len(resolved) \in Nat
      /\ DOMAIN resolved = 1 .. Len(resolved) /\ 1 \in DOMAIN resolved
  BY <1>1
<1>3. content # <<>> /\ content = Whole(len)
  <2>1. resolved[1] \in Nat \X Nat /\ 1 \in DOMAIN ranges
    BY <1>1, <1>2
  <2>2. len # 0 /\ DOMAIN content = 1 .. len
    BY <1>1, <2>1
  <2>3. 1 \in DOMAIN content
    BY <2>2
  <2>. QED
    BY <2>3 DEF Whole
<1>. HIDE DEF content
<1>4. Declaring(206, resolved) = resolved
  BY DEF Declaring
<1>5. CASE Len(resolved) = 1
  <2>1. resolved[1] \in Nat \X Nat /\ 1 \in DOMAIN ranges
    BY <1>1, <1>2, <1>5
  <2>2. Len(Slice(content, resolved[1])) = OffsetAndLength(resolved[1])[2]
    BY <1>1, <2>1, SliceLength DEF content
  <2>. QED
    BY <1>2, <1>3, <1>4, <1>5, <2>2 DEF DeclaredLength, Written
<1>6. CASE Len(resolved) # 1
  <2>1. Len(MultipartRanges(content, resolved)) = MultipartLength(resolved)
    BY <1>1, <1>2, PartsLength DEF content
  <2>. QED
    BY <1>2, <1>3, <1>4, <1>6, <2>1 DEF DeclaredLength, Written
<1>. QED
  BY <1>5, <1>6

\* Whatever Range header a request has, whatever status its handler sets, for a
\* content of any length and with any limit on the ranges: an answer that is no
\* range error is as long as it declares and, with a status of success, fails no
\* assertion about its ranges; with 206 each range is answered with
\* exactly the positions that it means, and no position is written more than
\* three times; with any other status the whole content is.  A provider whose
\* handler sets a status other than 206 is not among them.
THEOREM RangesAsMeant ==
    ASSUME NEW len \in Nat, NEW header \in Seq(Positions \X Positions),
           NEW kind \in Contents, NEW status \in Statuses
    PROVE  RangesServed(header, kind, status, len)
<1>1. PICK ranges : ranges = ParseRangeHeader(header)
  OBVIOUS
<1>2. PICK final : final = FinalStatus(status, ranges)
  OBVIOUS
<1>3. PICK checked : checked = Checked(final, ranges, len)
  OBVIOUS
<1>4. PICK content : content = Whole(len)
  OBVIOUS
<1>. DEFINE writes == Written(content, Writing(kind, final, checked))
            served == /\ Declared(kind, final, content, checked) = Len(writes)
                      /\ IF final = 206 /\ ranges # <<>>
                         THEN PositionsServed(ranges, checked, len)
                         ELSE writes = content
<1>0. ASSUME ~RangeError(final, ranges, len), Success(final)
      PROVE  \A i \in DOMAIN checked : Asserted(checked[i], len)
  <2>1. CASE ranges = <<>>
    BY <1>3, <2>1 DEF Checked, ResolveAll
  <2>2. CASE ranges # <<>>
    <3>1. ~RangeError(206, ranges, len) /\ checked = ResolveAll(ranges, len)
      BY <1>0, <1>3 DEF RangeError, Checked, Success
    <3>2. /\ DOMAIN checked = DOMAIN ranges
          /\ \A i \in DOMAIN ranges :
                /\ checked[i] \in Nat \X Nat
                /\ checked[i][1] <= checked[i][2] /\ checked[i][2] <= len - 1
      BY <1>1, <2>2, <3>1, AcceptedResolved
    <3>. QED
      BY <3>2 DEF Asserted, Missing
  <2>. QED
    BY <2>1, <2>2
<1>5. SUFFICES ASSUME ~RangeError(final, ranges, len),
                      kind = "body" \/ ranges = <<>> \/ final = 206
               PROVE  served
  BY <1>0, <1>1, <1>2, <1>3, <1>4 DEF RangesServed
<1>6. CASE final = 206 /\ ranges # <<>>
  <2>1. checked = ResolveAll(ranges, len)
    BY <1>3, <1>6 DEF Checked, Success
  <2>2. PositionsServed(ranges, checked, len)
    BY <1>1, <1>5, <1>6, <2>1, PositionsAsMeant
  <2>3. Declaring(final, checked) = checked /\ Writing(kind, final, checked) = checked
    BY <1>6 DEF Declaring, Writing
  <2>4. DeclaredLength(final, content, checked) = Len(Written(content, checked))
    BY <1>1, <1>4, <1>5, <1>6, <2>1, LengthAsDeclared
  <2>5. Declared(kind, final, content, checked) = Len(writes)
    BY <2>3, <2>4 DEF Declared
  <2>. QED
    BY <1>6, <2>2, <2>5
<1>7. CASE ~(final = 206 /\ ranges # <<>>)
  <2>1. Declaring(final, checked) = <<>>
    <3>1. CASE final # 206
      BY <3>1 DEF Declaring
    <3>2. CASE ranges = <<>>
      BY <1>3, <3>2 DEF Declaring, Checked, ResolveAll
    <3>. QED
      BY <1>7, <3>1, <3>2
  <2>2. Writing(kind, final, checked) = <<>>
    <3>1. CASE kind = "body"
      BY <2>1, <3>1 DEF Writing
    <3>2. CASE ranges = <<>>
      BY <1>3, <2>1, <3>2 DEF Writing, Checked, ResolveAll
    <3>. QED
      BY <1>5, <1>7, <3>1, <3>2
  <2>3. Written(content, <<>>) = content
    BY DEF Written
  <2>4. Declared(kind, final, content, checked) = Len(content)
    BY <2>1, <2>3 DEF Declared, DeclaredLength
  <2>. QED
    BY <1>7, <2>2, <2>3, <2>4
<1>. QED
  BY <1>6, <1>7

-----------------------------------------------------------------------------
(* The questions of HttpMessages.                                          *)

\* A question stays what it is.
LEMMA Asked == MessagesSpec => [](question \in Questions \cup {NoQuestion})
<1>1. MessagesInit => question \in Questions \cup {NoQuestion}
  BY DEF MessagesInit
<1>2. question \in Questions \cup {NoQuestion} /\ [MessagesNext]_<<vars, question>>
        => (question \in Questions \cup {NoQuestion})'
  BY DEF MessagesNext
<1>. QED
  BY <1>1, <1>2, PTL DEF MessagesSpec

\* No kind of question is asked in the name of another.
LEMMA Kinds ==
    ASSUME question \in Questions \cup {NoQuestion}
    PROVE  /\ question.of = "ranges" => question \in RangeQuestions
           /\ question.of = "call" => question \in CallQuestions
           /\ question.of = "params" => question \in ParamsQuestions
           /\ question.of = "path" => question \in PathQuestions
  BY RangeQuestionsAssumption, PathQuestionsAssumption, CallQuestionsAssumption,
     ParamsQuestionsAssumption DEF Questions, NoQuestion

\* Every answer to a Range header: AcceptedRangesServed of the run, for any set
\* of headers, contents and statuses, and any limit on the ranges.
THEOREM RangesAnswered == MessagesSpec => []AcceptedRangesServed
<1>1. question \in Questions \cup {NoQuestion} => AcceptedRangesServed
  <2>. SUFFICES ASSUME question \in Questions \cup {NoQuestion}, question.of = "ranges"
                PROVE  RangesServed(question.header, question.kind, question.status, question.len)
    BY DEF AcceptedRangesServed
  <2>1. question \in RangeQuestions
    BY Kinds
  <2>2. /\ question.len \in Nat /\ question.header \in Seq(Positions \X Positions)
        /\ question.kind \in Contents /\ question.status \in Statuses
    BY <2>1, RangeQuestionsAssumption, Zenon DEF Positions, Missing
  <2>3. PICK len, header, kind, status :
            /\ len = question.len /\ header = question.header
            /\ kind = question.kind /\ status = question.status
    OBVIOUS
  <2>4. /\ len \in Nat /\ header \in Seq(Positions \X Positions)
        /\ kind \in Contents /\ status \in Statuses
    BY ONLY <2>2, <2>3
  <2>5. RangesServed(header, kind, status, len)
    BY ONLY <2>4, RangesAsMeant
  <2>. QED
    BY ONLY <2>3, <2>5
<1>. QED
  BY <1>1, Asked, PTL

\* Every call of the client: CallsFramed of the run, for contents of any size.
THEOREM BodiesFramed == MessagesSpec => []CallsFramed
<1>1. question \in Questions \cup {NoQuestion} => CallsFramed
  <2>. SUFFICES ASSUME question \in Questions \cup {NoQuestion}, question.of = "call"
                PROVE  C!CallFramed(question.call)
    BY DEF CallsFramed
  <2>1. question.call \in C!Calls(Nat)
    BY Kinds, CallQuestionsAssumption
  <2>. QED
    BY <2>1, EveryCallFramed
<1>. QED
  BY <1>1, Asked, PTL

-----------------------------------------------------------------------------
(* Texts: sequences cut, put together and searched.                        *)

\* Of two ways to put the same sequence together, what one has in front.
LEMMA Shift ==
    ASSUME NEW S, NEW buf \in Seq(S), NEW fut \in Seq(S), NEW s \in Seq(S), NEW x \in Seq(S),
           buf \o fut = s \o x
    PROVE  /\ \A i \in 1 .. Len(s) : i =< Len(buf) => buf[i] = s[i]
           /\ Len(s) =< Len(buf) =>
                /\ SubSeq(buf, 1, Len(s)) = s
                /\ SubSeq(buf, Len(s) + 1, Len(buf)) \o fut = x
<1>1. Len(s) \in Nat /\ Len(x) \in Nat /\ Len(buf) \in Nat /\ Len(fut) \in Nat
  BY LenProperties
<1>2. \A i \in 1 .. Len(s) : i =< Len(buf) => buf[i] = s[i]
  <2>1. \A i \in 1 .. Len(buf) + Len(fut) :
           (buf \o fut)[i] = IF i =< Len(buf) THEN buf[i] ELSE fut[i - Len(buf)]
    BY ConcatProperties
  <2>2. \A i \in 1 .. Len(s) + Len(x) :
           (s \o x)[i] = IF i =< Len(s) THEN s[i] ELSE x[i - Len(s)]
    BY ConcatProperties
  <2>. QED
    BY ONLY <1>1, <2>1, <2>2, buf \o fut = s \o x
<1>3. ASSUME Len(s) =< Len(buf)
      PROVE  SubSeq(buf, 1, Len(s)) = s /\ SubSeq(buf, Len(s) + 1, Len(buf)) \o fut = x
  <2>0. PICK n \in 0 .. Len(buf) : n = Len(s)
    BY <1>1, <1>3
  <2>1. PICK a \in Seq(S), b \in Seq(S) :
            a = SubSeq(buf, 1, n) /\ b = SubSeq(buf, n + 1, Len(buf))
    <3>1. SubSeq(buf, 1, n) \in Seq(S) /\ SubSeq(buf, n + 1, Len(buf)) \in Seq(S)
      BY Cut
    <3>. QED
      BY <3>1, Zenon
  <2>5. Len(a) = Len(s)
    BY ONLY <2>0, <2>1, Cut, buf \in Seq(S), n \in 0 .. Len(buf)
  <2>6. a \o b = buf
    BY ONLY <2>1, Cut, buf \in Seq(S), n \in 0 .. Len(buf)
  <2>3. b \o fut \in Seq(S) /\ a \o (b \o fut) = s \o x
    <3>1. (a \o b) \o fut = a \o (b \o fut)
      BY ONLY Regrouped, a \in Seq(S), b \in Seq(S), fut \in Seq(S), SMTT(30)
    <3>2. b \o fut \in Seq(S)
      BY ConcatProperties
    <3>. QED
      BY ONLY <2>6, <3>1, <3>2, buf \o fut = s \o x
  <2>4. a = s /\ b \o fut = x
    BY ONLY <2>3, <2>5, SplitAt, a \in Seq(S), s \in Seq(S), x \in Seq(S)
  <2>. QED
    BY ONLY <2>0, <2>1, <2>4
<1>. QED
  BY <1>2, <1>3

\* What the proofs about forms need of sequences, behind names of their own.
Texts(S)   == Seq(S)
s ## t     == s \o t
First(s, n) == SubSeq(s, 1, n)
Drop(s, n)  == SubSeq(s, n + 1, Len(s))

\* Putting texts together.
LEMMA TextFacts ==
    ASSUME NEW S
    PROVE  /\ \A s, t \in Texts(S) : s ## t \in Texts(S) /\ Len(s ## t) = Len(s) + Len(t)
           /\ \A s, t, u \in Texts(S) : (s ## t) ## u = s ## (t ## u)
           /\ <<>> \in Texts(S) /\ \A s \in Texts(S) : <<>> ## s = s /\ s ## <<>> = s
           /\ \A s \in Texts(S) : Len(s) \in Nat /\ (Len(s) = 0 <=> s = <<>>)
<1>1. ASSUME NEW s \in Seq(S), NEW t \in Seq(S)
      PROVE  s \o t \in Seq(S) /\ Len(s \o t) = Len(s) + Len(t)
  BY ConcatProperties
<1>2. ASSUME NEW s \in Seq(S), NEW t \in Seq(S), NEW u \in Seq(S)
      PROVE  (s \o t) \o u = s \o (t \o u)
  BY ConcatAssociative
<1>3. <<>> \in Seq(S) /\ Len(<<>>) = 0
  BY EmptySeq
<1>4. ASSUME NEW s \in Seq(S)
      PROVE  <<>> \o s = s /\ s \o <<>> = s /\ Len(s) \in Nat /\ (Len(s) = 0 <=> s = <<>>)
  <2>1. <<>> \o s = s /\ s \o <<>> = s
    BY ConcatEmptySeq
  <2>2. Len(s) \in Nat /\ (Len(s) = 0 <=> s = <<>>)
    BY EmptySeq, LenProperties
  <2>. QED
    BY <2>1, <2>2
<1>. QED
  BY <1>1, <1>2, <1>3, <1>4 DEF Texts, ##

\* A text cut in two.
LEMMA CutText ==
    ASSUME NEW S, NEW s \in Texts(S), NEW n \in 0 .. Len(s)
    PROVE  /\ First(s, n) \in Texts(S) /\ Drop(s, n) \in Texts(S)
           /\ Len(First(s, n)) = n /\ Len(Drop(s, n)) = Len(s) - n
           /\ First(s, n) ## Drop(s, n) = s
<1>1. s \in Seq(S)
  BY DEF Texts
<1>. QED
  BY <1>1, Cut DEF Texts, First, Drop, ##

\* Shift, for texts.
LEMMA ShiftText ==
    ASSUME NEW S, NEW buf \in Texts(S), NEW fut \in Texts(S), NEW s \in Texts(S),
           NEW x \in Texts(S), buf ## fut = s ## x
    PROVE  /\ \A i \in 1 .. Len(s) : i =< Len(buf) => buf[i] = s[i]
           /\ Len(s) =< Len(buf) =>
                First(buf, Len(s)) = s /\ Drop(buf, Len(s)) ## fut = x
<1>1. /\ buf \in Seq(S) /\ fut \in Seq(S) /\ s \in Seq(S) /\ x \in Seq(S)
      /\ buf \o fut = s \o x
  BY DEF Texts, ##
<1>2. /\ \A i \in 1 .. Len(s) : i =< Len(buf) => buf[i] = s[i]
      /\ Len(s) =< Len(buf) =>
           /\ SubSeq(buf, 1, Len(s)) = s
           /\ SubSeq(buf, Len(s) + 1, Len(buf)) \o fut = x
  BY ONLY <1>1, Shift
<1>. QED
  BY ONLY <1>2 DEF First, Drop, ##

\* s stands at i in buf, counted from 0.
Stands(s, buf, i) == \A j \in 1 .. Len(s) : buf[i + j] = s[j]

\* What SubSeq finds is what stands there.
LEMMA StandsThere ==
    ASSUME NEW S, NEW buf \in Seq(S), NEW s \in Seq(S), NEW i \in 0 .. Len(buf) - Len(s)
    PROVE  SubSeq(buf, i + 1, i + Len(s)) = s <=> Stands(s, buf, i)
<1>1. Len(s) \in Nat /\ Len(buf) \in Nat /\ \A k \in 1 .. Len(buf) : buf[k] \in S
  BY LenProperties
<1>2. PICK m \in Nat, e \in Nat : m = i + 1 /\ e = i + Len(s)
  <2>1. i + 1 \in Nat /\ i + Len(s) \in Nat
    BY <1>1
  <2>. QED
    BY <2>1, Zenon
<1>3. PICK t : t = SubSeq(buf, m, e)
  OBVIOUS
<1>4. /\ t \in Seq(S)
      /\ Len(t) = IF m =< e THEN e - m + 1 ELSE 0
      /\ \A j \in 1 .. e - m + 1 : t[j] = buf[m + j - 1]
  <2>1. \A k \in m .. e : buf[k] \in S
    BY <1>1, <1>2
  <2>. QED
    BY <1>3, <2>1, SubSeqProperties
<1>5. Len(t) = Len(s) /\ \A j \in 1 .. Len(s) : t[j] = buf[i + j]
  <2>1. e - m + 1 = Len(s) /\ \A j \in 1 .. Len(s) : m + j - 1 = i + j
    BY <1>1, <1>2
  <2>. QED
    BY <1>1, <1>2, <1>4, <2>1
<1>6. Stands(s, buf, i) => t = s
  <2>. SUFFICES ASSUME Stands(s, buf, i) PROVE t = s
    OBVIOUS
  <2>1. \A j \in 1 .. Len(t) : t[j] = s[j]
    BY <1>5 DEF Stands
  <2>. QED
    BY <1>4, <1>5, <2>1, SeqEqual
<1>7. t = s => Stands(s, buf, i)
  BY <1>5 DEF Stands
<1>. QED
  BY <1>2, <1>3, <1>6, <1>7

\* What buf_find finds: nothing, or the first place.
LEMMA FoundAt ==
    ASSUME NEW S, NEW buf \in Seq(S), NEW s \in Seq(S)
    PROVE  /\ (\A i \in 0 .. Len(buf) - Len(s) : ~Stands(s, buf, i)) => Find(buf, s) = Len(buf)
           /\ \A n \in 0 .. Len(buf) - Len(s) :
                Stands(s, buf, n) /\ (\A i \in 0 .. n - 1 : ~Stands(s, buf, i))
                    => Find(buf, s) = n
<1>. DEFINE at == {i \in 0 .. Len(buf) - Len(s) : SubSeq(buf, i + 1, i + Len(s)) = s}
<1>1. Len(s) \in Nat /\ Len(buf) \in Nat
  BY LenProperties
<1>2. at = {i \in 0 .. Len(buf) - Len(s) : Stands(s, buf, i)}
  BY StandsThere
<1>3. Find(buf, s) = IF at = {} THEN Len(buf) ELSE Min(at)
  BY Zenon DEF Find
<1>. HIDE DEF at
<1>4. ASSUME \A i \in 0 .. Len(buf) - Len(s) : ~Stands(s, buf, i)
      PROVE  Find(buf, s) = Len(buf)
  <2>1. at = {}
    BY <1>2, <1>4
  <2>. QED
    BY <1>3, <2>1
<1>5. ASSUME NEW n \in 0 .. Len(buf) - Len(s), Stands(s, buf, n),
             \A i \in 0 .. n - 1 : ~Stands(s, buf, i)
      PROVE  Find(buf, s) = n
  <2>1. n \in at /\ at \subseteq Int
    BY <1>2, <1>5
  <2>2. \A i \in at : n =< i
    <3>. TAKE i \in at
    <3>1. i \in 0 .. Len(buf) - Len(s) /\ Stands(s, buf, i)
      BY <1>2
    <3>2. ~(i \in 0 .. n - 1)
      BY <1>5, <3>1
    <3>. QED
      BY <1>1, <3>1, <3>2
  <2>3. PICK m : m = Min(at) /\ m = CHOOSE x \in at : \A y \in at : x =< y
    BY Zenon DEF Min
  <2>4. m \in at /\ \A y \in at : m =< y
    BY <2>1, <2>2, <2>3, Zenon
  <2>5. m = n
    BY <2>1, <2>2, <2>4
  <2>. QED
    BY <1>3, <2>1, <2>3, <2>5
<1>. QED
  BY <1>4, <1>5

-----------------------------------------------------------------------------
(* The parser of forms and what it is given.                               *)

Delimiters == {CRLF, Dashes, Boundary}

TypeLines(item) == IF item.type = NoType THEN <<>> ELSE <<Line("type", item.type), CRLF>>
HeadLines(item) == <<Line("name", item.name), CRLF>> ## (TypeLines(item) ## <<CRLF>>)
Behind(item, rest) == item.content ## (CrlfDashBoundary ## rest)

Files(N)    == [name : N, type : N]
Items(S, N) == [name : N, type : N, content : Texts(S)]
Parsers(S, N) ==
    [buf : Texts(S), state : 0 .. 4, valid : BOOLEAN, file : Files(N),
     parts : Seq(Items(S, N)), run : {"on", "wait", "refuse"}]

FormOver(S, N, items) ==
    /\ Delimiters \subseteq S /\ NoType \in N
    /\ items \in Seq(Items(S, N))
    /\ \A i \in 1 .. Len(items) :
         /\ Line("name", items[i].name) \in S \ Delimiters
         /\ Line("type", items[i].type) \in S \ Delimiters
         /\ Find(items[i].content, CrlfDashBoundary) = Len(items[i].content)

IsRest(items, rest) ==
    /\ rest[Len(items)] = <<Dashes, CRLF>>
    /\ \A i \in 1 .. Len(items) :
          rest[i - 1] = <<CRLF>> ## (HeadLines(items[i]) ## Behind(items[i], rest[i]))

WholeParts(parts, items, k) ==
    Len(parts) >= k /\ \A i \in 1 .. k : parts[i] = items[i]

\* A line break at the beginning, or behind one token.
LEMMA CrlfFound ==
    ASSUME NEW S, NEW buf \in Seq(S), CRLF \in S, buf # <<>>
    PROVE  /\ buf[1] = CRLF => Find(buf, <<CRLF>>) = 0
           /\ buf[1] # CRLF /\ (Len(buf) = 1 \/ buf[2] = CRLF) => Find(buf, <<CRLF>>) = 1
<1>1. Len(buf) \in Nat \ {0}
  BY EmptySeq
<1>2. /\ <<CRLF>> \in Seq(S) /\ Len(<<CRLF>>) = 1
      /\ \A i \in Int : Stands(<<CRLF>>, buf, i) <=> buf[i + 1] = CRLF
  BY DEF Stands
<1>3. PICK s \in Seq(S) : s = <<CRLF>>
  BY <1>2
<1>4. /\ Len(s) = 1
      /\ Stands(s, buf, 0) <=> buf[1] = CRLF
      /\ Stands(s, buf, 1) <=> buf[2] = CRLF
  <2>1. 0 + 1 = 1 /\ 1 + 1 = 2 /\ 0 \in Int /\ 1 \in Int
    OBVIOUS
  <2>. QED
    BY ONLY <1>2, <1>3, <2>1
<1>5. /\ (\A i \in 0 .. Len(buf) - Len(s) : ~Stands(s, buf, i)) => Find(buf, s) = Len(buf)
      /\ \A n \in 0 .. Len(buf) - Len(s) :
           Stands(s, buf, n) /\ (\A i \in 0 .. n - 1 : ~Stands(s, buf, i))
              => Find(buf, s) = n
  BY FoundAt
<1>6. ASSUME buf[1] = CRLF PROVE Find(buf, s) = 0
  <2>1. 0 \in 0 .. Len(buf) - Len(s) /\ Stands(s, buf, 0) /\ 0 .. 0 - 1 = {}
    BY <1>1, <1>4, <1>6
  <2>. QED
    BY <1>5, <2>1
<1>7. ASSUME buf[1] # CRLF, Len(buf) = 1 PROVE Find(buf, s) = 1
  <2>1. \A i \in 0 .. Len(buf) - Len(s) : i = 0
    BY <1>4, <1>7
  <2>2. ~Stands(s, buf, 0)
    BY <1>4, <1>7
  <2>. QED
    BY <1>5, <1>7, <2>1, <2>2
<1>8. ASSUME buf[1] # CRLF, Len(buf) # 1, buf[2] = CRLF PROVE Find(buf, s) = 1
  <2>1. 1 \in 0 .. Len(buf) - Len(s) /\ Stands(s, buf, 1) /\ \A i \in 0 .. 1 - 1 : i = 0
    BY <1>1, <1>4, <1>8
  <2>2. ~Stands(s, buf, 0)
    BY <1>4, <1>8
  <2>. QED
    BY <1>5, <2>1, <2>2
<1>. QED
  BY <1>3, <1>6, <1>7, <1>8

\* A parser has its fields and is nothing else.
LEMMA ParserFields ==
    ASSUME NEW S, NEW N
    PROVE  /\ \A p \in Parsers(S, N) :
                /\ p = [buf |-> p.buf, state |-> p.state, valid |-> p.valid, file |-> p.file,
                        parts |-> p.parts, run |-> p.run]
                /\ p.buf \in Texts(S) /\ p.state \in 0 .. 4 /\ p.valid \in BOOLEAN
                /\ p.file \in Files(N) /\ p.parts \in Seq(Items(S, N))
                /\ p.run \in {"on", "wait", "refuse"}
           /\ \A b \in Texts(S), st \in 0 .. 4, v \in BOOLEAN, f \in Files(N),
                 ps \in Seq(Items(S, N)), r \in {"on", "wait", "refuse"} :
                [buf |-> b, state |-> st, valid |-> v, file |-> f, parts |-> ps, run |-> r]
                   \in Parsers(S, N)
  BY DEF Parsers

\* What a step makes of a parser, field by field.
Became(q, b, st, v, f, ps, r) ==
    q = [buf |-> b, state |-> st, valid |-> v, file |-> f, parts |-> ps, run |-> r]

AreFields(S, N, b, st, v, f, ps, r) ==
    /\ b \in Texts(S) /\ st \in 0 .. 4 /\ v \in BOOLEAN /\ f \in Files(N)
    /\ ps \in Seq(Items(S, N)) /\ r \in {"on", "wait", "refuse"}

\* What a step has made is a parser, with the fields it was given.
LEMMA BecameParser ==
    ASSUME NEW S, NEW N, NEW q, NEW b, NEW st, NEW v, NEW f, NEW ps, NEW r,
           Became(q, b, st, v, f, ps, r), AreFields(S, N, b, st, v, f, ps, r)
    PROVE  /\ q \in Parsers(S, N)
           /\ q.buf = b /\ q.state = st /\ q.valid = v /\ q.file = f /\ q.parts = ps /\ q.run = r
  BY DEF Parsers, Became, AreFields

\* What Erased makes of a parser.
LEMMA ErasedDoes ==
    ASSUME NEW S, NEW N, NEW p \in Parsers(S, N), NEW n \in 0 .. Len(p.buf)
    PROVE  /\ Became(Erased(p, n), Drop(p.buf, n), p.state, p.valid,
                     p.file, p.parts, p.run)
           /\ Drop(p.buf, n) \in Texts(S)
<1>1. p.buf \in Texts(S)
  BY DEF Parsers
<1>2. PICK b : b = Drop(p.buf, n) /\ b \in Texts(S)
  BY <1>1, CutText
<1>3. Erased(p, n) = [p EXCEPT !.buf = b]
  BY <1>2 DEF Erased, Drop
<1>4. Became(Erased(p, n), b, p.state, p.valid, p.file, p.parts, p.run)
  BY <1>3 DEF Parsers, Became
<1>. QED
  BY <1>2, <1>4

\* A line without its line break is awaited.
LEMMA LineAwaited ==
    ASSUME NEW S, NEW N, NEW p \in Parsers(S, N), p.buf # <<>>, CRLF \in S,
           p.buf[1] # CRLF, Len(p.buf) = 1
    PROVE  HeaderLine(p) = Waiting(p)
<1>1. p.buf \in Seq(S)
  BY DEF Parsers, Texts
<1>2. Find(p.buf, <<CRLF>>) = Len(p.buf)
  BY <1>1, CrlfFound
<1>. QED
  BY <1>2, Zenon DEF HeaderLine

\* The empty line ends the headers.
LEMMA LastLineTaken ==
    ASSUME NEW S, NEW N, NEW p \in Parsers(S, N), p.buf # <<>>, CRLF \in S,
           p.buf[1] = CRLF,
           NEW b, b = Drop(p.buf, 1),
           NEW part, part = [name |-> p.file.name, type |-> p.file.type, content |-> <<>>]
    PROVE  Became(HeaderLine(p), b, 3, p.valid, p.file, Append(p.parts, part), p.run)
<1>1. p.buf \in Seq(S)
  BY DEF Parsers, Texts
<1>2. Len(p.buf) \in Nat \ {0}
  BY <1>1, EmptySeq
<1>3. Find(p.buf, <<CRLF>>) = 0 /\ 0 # Len(p.buf)
  BY <1>1, <1>2, CrlfFound
<1>4. HeaderLine(p) = [Erased(p, 1) EXCEPT !.state = 3, !.parts =
                Append(@, [name |-> p.file.name, type |-> p.file.type, content |-> <<>>])]
  BY <1>3, Zenon DEF HeaderLine
<1>5. PICK e : e = Erased(p, 1)
  OBVIOUS
<1>6. Became(e, b, p.state, p.valid, p.file, p.parts, p.run)
  BY <1>2, <1>5, ErasedDoes
<1>7. HeaderLine(p) = [e EXCEPT !.state = 3, !.parts = Append(e.parts, part)]
  BY <1>4, <1>5
<1>8. PICK ps : ps = Append(p.parts, part)
  OBVIOUS
<1>9. HeaderLine(p) = [e EXCEPT !.state = 3, !.parts = ps]
  BY <1>6, <1>7, <1>8 DEF Became
<1>10. Became(HeaderLine(p), b, 3, p.valid, p.file, ps, p.run)
  BY ONLY <1>6, <1>9 DEF Became
<1>. QED
  BY <1>8, <1>10

\* A whole line gives its field to the file.
LEMMA LineTaken ==
    ASSUME NEW S, NEW N, NEW p \in Parsers(S, N), p.buf # <<>>, CRLF \in S,
           NEW is \in {"name", "type"}, NEW value, p.buf[1] = Line(is, value),
           p.buf[1] \notin Delimiters,
           Len(p.buf) >= 2, p.buf[2] = CRLF,
           NEW b, b = Drop(p.buf, 2),
           NEW f, f = IF is = "name" THEN [name |-> value, type |-> p.file.type]
                                     ELSE [name |-> p.file.name, type |-> value]
    PROVE  Became(HeaderLine(p), b, p.state, p.valid, f, p.parts, p.run)
<1>1. p.buf \in Seq(S) /\ p.file \in Files(N)
  BY DEF Parsers, Texts
<1>2. Len(p.buf) \in Nat \ {0}
  BY <1>1, EmptySeq
<1>3. PICK line : line = p.buf[1] /\ line.is = is /\ line.value = value
  BY DEF Line
<1>4. /\ Find(p.buf, <<CRLF>>) = 1 /\ 1 # Len(p.buf) /\ 1 # 0 /\ ~(1 > 1)
      /\ p.buf[1] \notin {Dashes, Boundary} /\ p.buf[1].is \notin {"broken", "data"}
  BY <1>1, <1>2, <1>3, CrlfFound DEF Delimiters
<1>5. HeaderLine(p) = [Erased(p, 2) EXCEPT !.file =
                CASE p.buf[1].is = "name" -> [@ EXCEPT !.name = p.buf[1].value]
                  [] p.buf[1].is = "type" -> [@ EXCEPT !.type = p.buf[1].value]
                  [] OTHER -> @]
  BY <1>4, Zenon DEF HeaderLine
<1>6. PICK e : e = Erased(p, 2)
  OBVIOUS
<1>7. Became(e, b, p.state, p.valid, p.file, p.parts, p.run)
  BY <1>2, <1>6, ErasedDoes
<1>8. e.file = p.file
  BY <1>7 DEF Became
<1>9. HeaderLine(p) = [e EXCEPT !.file =
                CASE is = "name" -> [e.file EXCEPT !.name = value]
                  [] is = "type" -> [e.file EXCEPT !.type = value]
                  [] OTHER -> e.file]
  BY <1>3, <1>5, <1>6
<1>10. HeaderLine(p) = [e EXCEPT !.file = f]
  <2>1. CASE is = "name"
    <3>1. [e.file EXCEPT !.name = value] = f
      BY <1>1, <1>8, <2>1 DEF Files
    <3>. QED
      BY <1>9, <2>1, <3>1
  <2>2. CASE is = "type"
    <3>1. [e.file EXCEPT !.type = value] = f
      BY <1>1, <1>8, <2>2 DEF Files
    <3>. QED
      BY <1>9, <2>2, <3>1
  <2>. QED
    BY <2>1, <2>2
<1>. QED
  BY ONLY <1>7, <1>10 DEF Became

-----------------------------------------------------------------------------
(* Where the parser stands in a form, and the beginning of an entry.       *)

Setting(S, N, items, rest) ==
    FormOver(S, N, items) /\ rest \in [0 .. Len(items) -> Texts(S)] /\ IsRest(items, rest)

BeforeEntry(p, R, items, rest, k) ==
    /\ k < Len(items) /\ p.state = 1 /\ ~p.valid /\ Len(p.parts) = k
    /\ R = HeadLines(items[k + 1]) ## Behind(items[k + 1], rest[k + 1])

\* The lines of the headers that are still to come, and the file so far.
LinesLeft(file, R, item, behind) ==
    \/ file = NoFile /\ R = HeadLines(item) ## behind
    \/ /\ item.type # NoType /\ file = [name |-> item.name, type |-> NoType]
       /\ R = <<Line("type", item.type), CRLF>> ## (<<CRLF>> ## behind)
    \/ file = [name |-> item.name, type |-> item.type] /\ R = <<CRLF>> ## behind

InHeaders(p, R, items, rest, k) ==
    /\ k < Len(items) /\ p.state = 2 /\ ~p.valid /\ Len(p.parts) = k
    /\ LinesLeft(p.file, R, items[k + 1], Behind(items[k + 1], rest[k + 1]))

InContent(p, R, items, rest, k) ==
    /\ k < Len(items) /\ p.state = 3 /\ ~p.valid /\ Len(p.parts) = k + 1
    /\ p.parts[k + 1].name = items[k + 1].name
    /\ p.parts[k + 1].type = items[k + 1].type
    /\ p.parts[k + 1].content ## R = Behind(items[k + 1], rest[k + 1])
    /\ Len(p.parts[k + 1].content) =< Len(items[k + 1].content)

AtBoundary(p, R, items, rest, k) ==
    p.state = 4 /\ ~p.valid /\ Len(p.parts) = k /\ R = rest[k]

AtEnd(p, R, items, k) ==
    /\ k = Len(items) /\ p.valid /\ Len(p.parts) = k
    /\ \/ p.state = 4 /\ R \in {<<>>, <<CRLF>>}
       \/ p.state = 1 /\ R = <<>>

PlacedAt(p, R, items, rest, k) ==
    /\ WholeParts(p.parts, items, k) /\ p.run # "refuse"
    /\ \/ BeforeEntry(p, R, items, rest, k)
       \/ InHeaders(p, R, items, rest, k)
       \/ InContent(p, R, items, rest, k)
       \/ AtBoundary(p, R, items, rest, k)
       \/ AtEnd(p, R, items, k)

Placed(p, R, items, rest) == \E k \in 0 .. Len(items) : PlacedAt(p, R, items, rest, k)

Going(S, N, p, fut) == p \in Parsers(S, N) /\ fut \in Texts(S) /\ p.buf # <<>> /\ p.run = "on"

\* The entry after k of them, and what comes behind it.
Here(items, rest, k, item, r) ==
    k \in 0 .. Len(items) /\ k < Len(items) /\ item = items[k + 1] /\ r = rest[k + 1]

\* What an entry is made of, and what comes before it.
LEMMA ItemFacts ==
    ASSUME NEW S, NEW N, NEW items, NEW rest, Setting(S, N, items, rest),
           NEW k, NEW item, NEW r, Here(items, rest, k, item, r)
    PROVE  /\ Len(items) \in Nat /\ k \in Nat /\ k + 1 \in 0 .. Len(items)
           /\ item \in Items(S, N) /\ item.content \in Texts(S)
           /\ r \in Texts(S) /\ Behind(item, r) \in Texts(S)
           /\ CrlfDashBoundary \in Texts(S) /\ CrlfDashBoundary ## r \in Texts(S)
           /\ <<CRLF>> \in Texts(S) /\ TypeLines(item) \in Texts(S) /\ HeadLines(item) \in Texts(S)
           /\ <<Line("name", item.name), CRLF>> \in Texts(S)
           /\ <<Line("type", item.type), CRLF>> \in Texts(S)
           /\ Line("name", item.name) \in S \ Delimiters
           /\ Line("type", item.type) \in S \ Delimiters
           /\ Find(item.content, CrlfDashBoundary) = Len(item.content)
           /\ rest[k] = <<CRLF>> ## (HeadLines(item) ## Behind(item, r))
<1>. USE DEF Here
<1>1. /\ Delimiters \subseteq S /\ items \in Seq(Items(S, N))
      /\ \A i \in 1 .. Len(items) :
         /\ Line("name", items[i].name) \in S \ Delimiters
         /\ Line("type", items[i].type) \in S \ Delimiters
         /\ Find(items[i].content, CrlfDashBoundary) = Len(items[i].content)
  BY DEF Setting, FormOver
<1>2. /\ rest \in [0 .. Len(items) -> Texts(S)]
      /\ \A i \in 1 .. Len(items) :
          rest[i - 1] = <<CRLF>> ## (HeadLines(items[i]) ## Behind(items[i], rest[i]))
  BY DEF Setting, IsRest
<1>3. Len(items) \in Nat
  BY <1>1, LenProperties
<1>4. PICK j \in 1 .. Len(items) : j = k + 1 /\ j - 1 = k /\ j \in 0 .. Len(items)
  BY <1>3
<1>5. item \in Items(S, N) /\ item = items[j]
  <2>1. items[j] \in Items(S, N)
    BY <1>1, ElementOfSeq
  <2>. QED
    BY <1>4, <2>1
<1>6. r \in Texts(S) /\ r = rest[j]
  <2>1. rest[j] \in Texts(S)
    BY <1>2, <1>4
  <2>. QED
    BY <1>4, <2>1
<1>7. CRLF \in S /\ Dashes \in S /\ Boundary \in S
  BY <1>1 DEF Delimiters
<1>8. <<CRLF>> \in Texts(S) /\ CrlfDashBoundary \in Texts(S)
  BY <1>7 DEF CrlfDashBoundary, Texts
<1>9. item.content \in Texts(S)
  BY <1>5 DEF Items
<1>10. CrlfDashBoundary ## r \in Texts(S)
  BY <1>6, <1>8, TextFacts
<1>11. Behind(item, r) \in Texts(S)
  BY <1>9, <1>10, TextFacts DEF Behind
<1>12. Line("name", item.name) \in S \ Delimiters /\ Line("type", item.type) \in S \ Delimiters
  BY <1>1, <1>5
<1>13. PICK a \in S, b \in S : a = Line("name", item.name) /\ b = Line("type", item.type)
  BY <1>12
<1>14. <<a, CRLF>> \in Texts(S) /\ <<b, CRLF>> \in Texts(S) /\ <<>> \in Texts(S)
  BY <1>7 DEF Texts
<1>15. TypeLines(item) \in Texts(S)
  BY <1>13, <1>14 DEF TypeLines
<1>16. HeadLines(item) \in Texts(S)
  <2>1. TypeLines(item) ## <<CRLF>> \in Texts(S)
    BY <1>8, <1>15, TextFacts
  <2>. QED
    BY <1>13, <1>14, <2>1, TextFacts DEF HeadLines
<1>17. rest[k] = <<CRLF>> ## (HeadLines(item) ## Behind(item, r))
  BY <1>2, <1>4, <1>5, <1>6
<1>18. Find(item.content, CrlfDashBoundary) = Len(item.content)
  BY <1>1, <1>5
<1>19. k \in Nat /\ k + 1 \in 0 .. Len(items)
  BY <1>3
<1>. QED
  BY <1>3, <1>5, <1>6, <1>8, <1>9, <1>10, <1>11, <1>12, <1>13, <1>14, <1>15, <1>16, <1>17, <1>18, <1>19

\* Before an entry: its file is cleared.
LEMMA NewEntryPlaced ==
    ASSUME NEW S, NEW N, NEW items, NEW rest, Setting(S, N, items, rest),
           NEW p, NEW fut, Going(S, N, p, fut),
           NEW k \in 0 .. Len(items), WholeParts(p.parts, items, k),
           BeforeEntry(p, p.buf ## fut, items, rest, k)
    PROVE  /\ NewEntry(p) \in Parsers(S, N)
           /\ Placed(NewEntry(p), NewEntry(p).buf ## fut, items, rest)
<1>1. PICK none \in Files(N) : none = NoFile
  BY DEF Setting, FormOver, NoFile, Files
<1>2. PICK q : q = NewEntry(p) /\ q = [p EXCEPT !.file = none, !.state = 2]
  BY <1>1 DEF NewEntry
<1>3. p \in Parsers(S, N) /\ p.run = "on"
  BY DEF Going
<1>4. /\ q \in Parsers(S, N) /\ q.buf = p.buf /\ q.state = 2 /\ q.valid = p.valid
      /\ q.file = none /\ q.parts = p.parts /\ q.run = "on"
  <2>1. Became(q, p.buf, 2, p.valid, none, p.parts, p.run)
    BY ONLY <1>2, <1>3, ParserFields DEF Became
  <2>. QED
    <3>1. AreFields(S, N, p.buf, 2, p.valid, none, p.parts, p.run)
      BY ONLY <1>3, ParserFields, none \in Files(N) DEF AreFields
    <3>. QED
      BY ONLY <1>3, <2>1, <3>1, BecameParser
<1>5. PICK R : R = q.buf ## fut
  OBVIOUS
<1>6. BeforeEntry(p, R, items, rest, k)
  BY <1>4, <1>5
<1>7. InHeaders(q, R, items, rest, k)
  BY ONLY <1>1, <1>4, <1>6, Zenon DEF InHeaders, LinesLeft, BeforeEntry
<1>8. PlacedAt(q, R, items, rest, k)
  BY <1>4, <1>7 DEF PlacedAt
<1>. QED
  BY <1>2, <1>4, <1>5, <1>8 DEF Placed

-----------------------------------------------------------------------------
(* A line of the headers.                                                  *)

\* A parser that waits keeps its place.
LEMMA WaitPlaced ==
    ASSUME NEW S, NEW N, NEW p \in Parsers(S, N), NEW items, NEW rest,
           NEW k, NEW R, PlacedAt(p, R, items, rest, k),
           NEW q, q = Waiting(p)
    PROVE  q \in Parsers(S, N) /\ q.buf = p.buf /\ PlacedAt(q, R, items, rest, k)
<1>1. /\ q \in Parsers(S, N) /\ q.buf = p.buf /\ q.state = p.state /\ q.valid = p.valid
      /\ q.file = p.file /\ q.parts = p.parts /\ q.run = "wait"
  BY DEF Waiting, Parsers
<1>. QED
  BY ONLY <1>1, PlacedAt(p, R, items, rest, k), Zenon
  DEF PlacedAt, BeforeEntry, InHeaders, InContent, AtBoundary, AtEnd

\* The buffer and what is to come, which are head and then x.
Comes(buf, fut, head, x) == buf ## fut = head ## x

\* One header line has come as a whole, or is awaited.
LEMMA LineThere ==
    ASSUME NEW S, NEW buf, buf \in Texts(S), NEW fut, fut \in Texts(S), buf # <<>>,
           CRLF \in S, NEW line, line \in S \ Delimiters, NEW x, x \in Texts(S),
           Comes(buf, fut, <<line, CRLF>>, x)
    PROVE  /\ buf[1] = line /\ buf[1] # CRLF /\ buf[1] \notin Delimiters
           /\ Len(buf) \in Nat \ {0}
           /\ Len(buf) # 1 =>
                /\ Len(buf) >= 2 /\ buf[2] = CRLF
                /\ Drop(buf, 2) \in Texts(S)
                /\ Drop(buf, 2) ## fut = x
<1>1. PICK len \in Nat : len = Len(buf) /\ len # 0
  BY ONLY TextFacts, buf \in Texts(S), buf # <<>>
<1>2. PICK s : s = <<line, CRLF>>
  OBVIOUS
<1>3. s \in Texts(S) /\ Len(s) = 2 /\ s[1] = line /\ s[2] = CRLF
  BY ONLY <1>2, line \in S \ Delimiters, CRLF \in S DEF Texts
<1>4. /\ \A i \in 1 .. 2 : i =< len => buf[i] = s[i]
      /\ 2 =< len => Drop(buf, 2) ## fut = x
  <2>1. buf ## fut = s ## x
    BY ONLY <1>2, Comes(buf, fut, <<line, CRLF>>, x) DEF Comes
  <2>2. /\ \A i \in 1 .. Len(s) : i =< Len(buf) => buf[i] = s[i]
        /\ Len(s) =< Len(buf) => Drop(buf, Len(s)) ## fut = x
    BY ONLY <1>3, <2>1, ShiftText, buf \in Texts(S), fut \in Texts(S), x \in Texts(S)
  <2>. QED
    BY ONLY <1>1, <1>3, <2>2
<1>5. /\ 1 =< len => buf[1] = line
      /\ 2 =< len => buf[2] = CRLF
  <2>1. 1 \in 1 .. 2 /\ 2 \in 1 .. 2
    OBVIOUS
  <2>. QED
    BY ONLY <1>3, <1>4, <2>1
<1>6. 2 =< len => Drop(buf, 2) \in Texts(S)
  <2>1. 2 =< len => 2 \in 0 .. len
    BY ONLY len \in Nat
  <2>. QED
    BY ONLY <1>1, <2>1, CutText, buf \in Texts(S)
<1>7. line # CRLF /\ line \notin Delimiters
  BY ONLY line \in S \ Delimiters DEF Delimiters
<1>8. 1 =< len /\ (len # 1 => 2 =< len)
  BY ONLY <1>1, len \in Nat
<1>. QED
  BY ONLY <1>1, <1>4, <1>5, <1>6, <1>7, <1>8, len \in Nat

\* What a parser in the headers of an entry has in common.
AtLines(S, N, items, rest, p, fut, k, item, r) ==
    /\ Setting(S, N, items, rest) /\ Going(S, N, p, fut) /\ Here(items, rest, k, item, r)
    /\ WholeParts(p.parts, items, k)
    /\ p.state = 2 /\ p.valid = FALSE /\ Len(p.parts) = k
    /\ LinesLeft(p.file, p.buf ## fut, item, Behind(item, r))

\* A line that gives a name or a type.
LEMMA LinePlaced ==
    ASSUME NEW S, NEW N, NEW items, NEW rest, NEW p, NEW fut, NEW k, NEW item, NEW r,
           AtLines(S, N, items, rest, p, fut, k, item, r),
           NEW is, is \in {"name", "type"}, NEW value, NEW line,
           line = Line(is, value), line \in S \ Delimiters,
           NEW x, x \in Texts(S), Comes(p.buf, fut, <<line, CRLF>>, x),
           NEW f, f \in Files(N),
           f = IF is = "name" THEN [name |-> value, type |-> p.file.type]
                              ELSE [name |-> p.file.name, type |-> value],
           LinesLeft(f, x, item, Behind(item, r))
    PROVE  /\ HeaderLine(p) \in Parsers(S, N)
           /\ Placed(HeaderLine(p), HeaderLine(p).buf ## fut, items, rest)
<1>0. /\ Setting(S, N, items, rest) /\ Going(S, N, p, fut) /\ Here(items, rest, k, item, r)
      /\ WholeParts(p.parts, items, k) /\ p.state = 2 /\ p.valid = FALSE /\ Len(p.parts) = k
      /\ LinesLeft(p.file, p.buf ## fut, item, Behind(item, r))
  BY DEF AtLines
<1>1. /\ p \in Parsers(S, N) /\ fut \in Texts(S) /\ p.buf # <<>> /\ p.run = "on"
      /\ p.buf \in Texts(S) /\ p.parts \in Seq(Items(S, N))
  BY ONLY <1>0, ParserFields DEF Going
<1>2. /\ k \in 0 .. Len(items) /\ k < Len(items) /\ item = items[k + 1] /\ r = rest[k + 1]
  BY ONLY <1>0 DEF Here
<1>3. CRLF \in S
  BY ONLY <1>0 DEF Setting, FormOver, Delimiters
<1>4. /\ p.buf[1] = line /\ p.buf[1] # CRLF /\ p.buf[1] \notin Delimiters
      /\ Len(p.buf) # 1 =>
           /\ Len(p.buf) >= 2 /\ p.buf[2] = CRLF
           /\ Drop(p.buf, 2) \in Texts(S)
           /\ Drop(p.buf, 2) ## fut = x
  <2>1. PICK buf : buf = p.buf
    OBVIOUS
  <2>2. buf \in Texts(S) /\ buf # <<>> /\ Comes(buf, fut, <<line, CRLF>>, x)
    BY <1>1, <2>1
  <2>3. /\ buf[1] = line /\ buf[1] # CRLF /\ buf[1] \notin Delimiters
        /\ Len(buf) # 1 =>
             /\ Len(buf) >= 2 /\ buf[2] = CRLF
             /\ Drop(buf, 2) \in Texts(S)
             /\ Drop(buf, 2) ## fut = x
    BY ONLY <1>1, <1>3, <2>2, LineThere, x \in Texts(S), line \in S \ Delimiters
  <2>. QED
    BY <2>1, <2>3
<1>5. CASE Len(p.buf) = 1
  <2>1. PICK q : q = HeaderLine(p) /\ q = Waiting(p)
    BY ONLY <1>1, <1>3, <1>4, <1>5, LineAwaited
  <2>2. PICK R : R = p.buf ## fut
    OBVIOUS
  <2>3. InHeaders(p, R, items, rest, k)
    BY <1>0, <1>2, <2>2 DEF InHeaders
  <2>4. PlacedAt(p, R, items, rest, k)
    BY <1>0, <1>1, <2>3 DEF PlacedAt
  <2>5. q \in Parsers(S, N) /\ q.buf = p.buf /\ PlacedAt(q, R, items, rest, k)
    BY ONLY <1>1, <2>1, <2>4, WaitPlaced
  <2>. QED
    BY <1>2, <2>1, <2>2, <2>5 DEF Placed
<1>6. CASE Len(p.buf) # 1
  <2>1. PICK b : b = Drop(p.buf, 2) /\ b \in Texts(S) /\ b ## fut = x
    BY ONLY <1>4, <1>6
  <2>2. PICK q : q = HeaderLine(p)
    OBVIOUS
  <2>3. Became(q, b, p.state, p.valid, f, p.parts, p.run)
    <3>1. p.buf[1] = Line(is, value) /\ p.buf[1] \notin Delimiters
          /\ Len(p.buf) >= 2 /\ p.buf[2] = CRLF
      BY ONLY <1>4, <1>6, line = Line(is, value)
    <3>2. is \in {"name", "type"} /\
          f = IF is = "name" THEN [name |-> value, type |-> p.file.type]
                             ELSE [name |-> p.file.name, type |-> value]
      OBVIOUS
    <3>. QED
      BY ONLY <1>1, <1>3, <2>1, <2>2, <3>1, <3>2, LineTaken
  <2>4. q \in Parsers(S, N) /\ q.buf = b /\ q.state = 2 /\ q.valid = FALSE
        /\ q.file = f /\ q.parts = p.parts /\ q.run = "on"
    <3>1. AreFields(S, N, b, p.state, p.valid, f, p.parts, p.run)
      BY ONLY <1>1, <2>1, ParserFields, f \in Files(N) DEF AreFields
    <3>2. q \in Parsers(S, N) /\ q.buf = b /\ q.state = p.state /\ q.valid = p.valid
          /\ q.file = f /\ q.parts = p.parts /\ q.run = p.run
      BY ONLY <2>3, <3>1, BecameParser
    <3>. QED
      BY <1>0, <1>1, <3>2
  <2>5. InHeaders(q, x, items, rest, k)
    BY <1>0, <1>2, <2>4 DEF InHeaders
  <2>6. PlacedAt(q, x, items, rest, k)
    BY <1>0, <2>4, <2>5 DEF PlacedAt
  <2>. QED
    BY <1>2, <2>1, <2>2, <2>4, <2>6 DEF Placed
<1>. QED
  BY <1>5, <1>6

\* The lines that are left: the first is always the name.
LEMMA FirstLine ==
    ASSUME NEW S, NEW item, NEW behind, behind \in Texts(S), TypeLines(item) \in Texts(S),
           NEW head, head = <<Line("name", item.name), CRLF>>, head \in Texts(S),
           <<CRLF>> \in Texts(S)
    PROVE  \E x \in Texts(S) :
             /\ HeadLines(item) ## behind = head ## x
             /\ LinesLeft([name |-> item.name, type |-> NoType], x, item, behind)
<1>1. PICK lines, end : lines = TypeLines(item) /\ end = <<CRLF>>
  OBVIOUS
<1>2. lines \in Texts(S) /\ end \in Texts(S)
  BY ONLY <1>1, TypeLines(item) \in Texts(S), <<CRLF>> \in Texts(S)
<1>3. PICK x : x = lines ## (end ## behind) /\ x \in Texts(S) /\ end ## behind \in Texts(S)
  BY ONLY <1>2, TextFacts, behind \in Texts(S)
<1>4. HeadLines(item) ## behind = head ## x
  <2>1. PICK le : le = lines ## end /\ le \in Texts(S) /\ lines ## (end ## behind) = le ## behind
    BY ONLY <1>2, TextFacts, behind \in Texts(S)
  <2>2. head ## (le ## behind) = (head ## le) ## behind
    BY ONLY <2>1, TextFacts, behind \in Texts(S), head \in Texts(S)
  <2>3. HeadLines(item) = head ## le
    BY ONLY <1>1, <2>1, head = <<Line("name", item.name), CRLF>> DEF HeadLines
  <2>. QED
    BY ONLY <1>3, <2>1, <2>2, <2>3
<1>5. LinesLeft([name |-> item.name, type |-> NoType], x, item, behind)
  <2>1. CASE item.type = NoType
    <3>1. lines = <<>>
      BY <1>1, <2>1 DEF TypeLines
    <3>2. x = <<CRLF>> ## behind
      BY ONLY <1>1, <1>3, <3>1, TextFacts
    <3>. QED
      BY ONLY <2>1, <3>2 DEF LinesLeft
  <2>2. CASE item.type # NoType
    <3>1. lines = <<Line("type", item.type), CRLF>>
      BY <1>1, <2>2 DEF TypeLines
    <3>. QED
      BY ONLY <1>1, <1>3, <2>2, <3>1 DEF LinesLeft
  <2>. QED
    BY <2>1, <2>2
<1>. QED
  BY <1>3, <1>4, <1>5

-----------------------------------------------------------------------------
(* The empty line that ends the headers.                                   *)

\* The empty line after the headers: the entry is handed over, empty so far.
LEMMA EmptyLinePlaced ==
    ASSUME NEW S, NEW N, NEW items, NEW rest, NEW p, NEW fut, NEW k, NEW item, NEW r,
           AtLines(S, N, items, rest, p, fut, k, item, r),
           p.file = [name |-> item.name, type |-> item.type],
           p.buf ## fut = <<CRLF>> ## Behind(item, r)
    PROVE  /\ HeaderLine(p) \in Parsers(S, N)
           /\ Placed(HeaderLine(p), HeaderLine(p).buf ## fut, items, rest)
<1>0. /\ Setting(S, N, items, rest) /\ Going(S, N, p, fut) /\ Here(items, rest, k, item, r)
      /\ WholeParts(p.parts, items, k) /\ p.state = 2 /\ p.valid = FALSE /\ Len(p.parts) = k
  BY DEF AtLines
<1>1. /\ p \in Parsers(S, N) /\ fut \in Texts(S) /\ p.buf # <<>> /\ p.run = "on"
      /\ p.buf \in Texts(S) /\ p.parts \in Seq(Items(S, N)) /\ p.file \in Files(N)
  BY ONLY <1>0, ParserFields DEF Going
<1>2. /\ k \in 0 .. Len(items) /\ k < Len(items) /\ item = items[k + 1] /\ r = rest[k + 1]
  BY ONLY <1>0 DEF Here
<1>3. /\ CRLF \in S /\ item \in Items(S, N) /\ <<CRLF>> \in Texts(S)
      /\ Behind(item, r) \in Texts(S) /\ item.content \in Texts(S) /\ k \in Nat
  <2>1. CRLF \in S
    BY ONLY <1>0 DEF Setting, FormOver, Delimiters
  <2>. QED
    BY ONLY <1>0, <2>1, ItemFacts
<1>4. PICK buf, x : buf = p.buf /\ x = Behind(item, r)
  OBVIOUS
<1>5. buf[1] = CRLF /\ Drop(buf, 1) \in Texts(S) /\ Drop(buf, 1) ## fut = x
  <2>1. buf \in Texts(S) /\ x \in Texts(S) /\ buf # <<>> /\ buf ## fut = <<CRLF>> ## x
    BY <1>1, <1>3, <1>4
  <2>2. PICK s : s = <<CRLF>> /\ s \in Texts(S) /\ Len(s) = 1 /\ s[1] = CRLF
    BY <1>3
  <2>3. /\ \A i \in 1 .. Len(s) : i =< Len(buf) => buf[i] = s[i]
        /\ Len(s) =< Len(buf) => Drop(buf, Len(s)) ## fut = x
    <3>1. buf ## fut = s ## x
      BY ONLY <2>1, <2>2
    <3>2. buf \in Texts(S) /\ fut \in Texts(S) /\ s \in Texts(S) /\ x \in Texts(S)
      BY ONLY <1>1, <2>1, <2>2
    <3>. QED
      BY ONLY <3>1, <3>2, ShiftText
  <2>4. Len(buf) \in Nat /\ Len(buf) # 0
    BY ONLY <2>1, TextFacts
  <2>5. 1 \in 0 .. Len(buf) /\ 1 =< Len(buf) /\ 1 \in 1 .. 1
    BY ONLY <2>4
  <2>6. Drop(buf, 1) \in Texts(S)
    BY ONLY <2>1, <2>5, CutText
  <2>. QED
    BY ONLY <2>2, <2>3, <2>5, <2>6
<1>6. PICK b : b = Drop(buf, 1) /\ b \in Texts(S) /\ b ## fut = x
  BY ONLY <1>5
<1>7. PICK part : part = [name |-> p.file.name, type |-> p.file.type, content |-> <<>>]
  OBVIOUS
<1>8. PICK ps : ps = Append(p.parts, part)
  OBVIOUS
<1>9. PICK q : q = HeaderLine(p)
  OBVIOUS
<1>10. Became(q, b, 3, p.valid, p.file, ps, p.run)
  <2>1. p.buf[1] = CRLF /\ b = Drop(p.buf, 1)
    BY ONLY <1>4, <1>5, <1>6
  <2>. QED
    BY ONLY <1>1, <1>3, <1>7, <1>8, <1>9, <2>1, LastLineTaken
<1>11. part.name = item.name /\ part.type = item.type /\ part.content = <<>> /\ part \in Items(S, N)
  <2>1. part.name = item.name /\ part.type = item.type /\ part.content = <<>>
    BY ONLY <1>7, p.file = [name |-> item.name, type |-> item.type]
  <2>2. <<>> \in Texts(S)
    BY ONLY TextFacts
  <2>. QED
    BY ONLY <1>1, <1>7, <2>1, <2>2 DEF Files, Items
<1>12. /\ ps \in Seq(Items(S, N)) /\ Len(ps) = k + 1 /\ ps[k + 1] = part
       /\ \A i \in 1 .. k : ps[i] = p.parts[i]
  BY ONLY <1>0, <1>1, <1>8, <1>11, AppendProperties
<1>13. /\ q \in Parsers(S, N) /\ q.buf = b /\ q.state = 3 /\ q.valid = FALSE
       /\ q.parts = ps /\ q.run = "on"
  <2>1. AreFields(S, N, b, 3, p.valid, p.file, ps, p.run)
    BY ONLY <1>1, <1>6, <1>12, ParserFields DEF AreFields
  <2>. QED
    BY ONLY <1>0, <1>1, <1>10, <2>1, BecameParser
<1>14. InContent(q, x, items, rest, k)
  <2>1. <<>> ## x = x
    BY ONLY <1>3, <1>4, TextFacts
  <2>2. Len(<<>>) =< Len(item.content)
    <3>1. PICK c, e : c = item.content /\ e = <<>> /\ c \in Texts(S) /\ e \in Texts(S)
      BY ONLY <1>3, TextFacts
    <3>2. Len(c) \in Nat /\ Len(e) = 0
      BY ONLY <3>1, TextFacts
    <3>. QED
      BY ONLY <3>1, <3>2
  <2>. QED
    BY ONLY <1>2, <1>4, <1>11, <1>12, <1>13, <2>1, <2>2 DEF InContent
<1>15. WholeParts(ps, items, k)
  BY ONLY <1>0, <1>3, <1>12 DEF WholeParts
<1>16. PlacedAt(q, x, items, rest, k)
  BY ONLY <1>13, <1>14, <1>15 DEF PlacedAt
<1>. QED
  BY ONLY <1>2, <1>6, <1>9, <1>13, <1>16 DEF Placed

\* In the headers: a line, or the wait for the rest of it.
LEMMA HeadersPlaced ==
    ASSUME NEW S, NEW N, NEW items, NEW rest, NEW p, NEW fut, NEW k, NEW item, NEW r,
           AtLines(S, N, items, rest, p, fut, k, item, r)
    PROVE  /\ HeaderLine(p) \in Parsers(S, N)
           /\ Placed(HeaderLine(p), HeaderLine(p).buf ## fut, items, rest)
<1>0. /\ Setting(S, N, items, rest) /\ Here(items, rest, k, item, r)
      /\ LinesLeft(p.file, p.buf ## fut, item, Behind(item, r))
  BY DEF AtLines
<1>1. PICK behind : behind = Behind(item, r) /\ behind \in Texts(S)
  BY ONLY <1>0, ItemFacts
<1>2. /\ item \in Items(S, N) /\ <<CRLF>> \in Texts(S) /\ TypeLines(item) \in Texts(S)
      /\ <<Line("name", item.name), CRLF>> \in Texts(S)
      /\ Line("name", item.name) \in S \ Delimiters
      /\ Line("type", item.type) \in S \ Delimiters
      /\ NoType \in N
  <2>1. NoType \in N
    BY ONLY <1>0 DEF Setting, FormOver
  <2>. QED
    BY ONLY <1>0, <2>1, ItemFacts
<1>3. item.name \in N /\ item.type \in N
  BY ONLY <1>2 DEF Items
<1>4. CASE p.file = NoFile /\ p.buf ## fut = HeadLines(item) ## behind
  <2>1. PICK head : head = <<Line("name", item.name), CRLF>> /\ head \in Texts(S)
    BY ONLY <1>2
  <2>2. PICK f \in Files(N) : f = [name |-> item.name, type |-> NoType]
    BY ONLY <1>2, <1>3 DEF Files
  <2>3. PICK x \in Texts(S) : HeadLines(item) ## behind = head ## x /\ LinesLeft(f, x, item, behind)
    BY ONLY <1>1, <1>2, <2>1, <2>2, FirstLine
  <2>4. Comes(p.buf, fut, <<Line("name", item.name), CRLF>>, x)
    BY ONLY <1>4, <2>1, <2>3 DEF Comes
  <2>5. p.file.type = NoType
    BY ONLY <1>4 DEF NoFile
  <2>6. PICK is : is = "name"
    OBVIOUS
  <2>7. PICK line : line = Line(is, item.name) /\ line \in S \ Delimiters
    BY ONLY <1>2, <2>6
  <2>8. f = IF is = "name" THEN [name |-> item.name, type |-> p.file.type]
                           ELSE [name |-> p.file.name, type |-> item.name]
    BY ONLY <2>2, <2>5, <2>6
  <2>9. x \in Texts(S) /\ Comes(p.buf, fut, <<line, CRLF>>, x) /\ is \in {"name", "type"}
        /\ f \in Files(N) /\ LinesLeft(f, x, item, Behind(item, r))
    BY ONLY <1>1, <2>2, <2>3, <2>4, <2>6, <2>7
  <2>. QED
    BY ONLY <2>7, <2>8, <2>9, LinePlaced, AtLines(S, N, items, rest, p, fut, k, item, r)
<1>5. CASE /\ item.type # NoType /\ p.file = [name |-> item.name, type |-> NoType]
           /\ p.buf ## fut = <<Line("type", item.type), CRLF>> ## (<<CRLF>> ## behind)
  <2>1. PICK x : x = <<CRLF>> ## behind /\ x \in Texts(S)
    BY ONLY <1>1, <1>2, TextFacts
  <2>2. PICK f \in Files(N) : f = [name |-> item.name, type |-> item.type]
    BY ONLY <1>3 DEF Files
  <2>3. LinesLeft(f, x, item, behind)
    BY ONLY <2>1, <2>2 DEF LinesLeft
  <2>4. Comes(p.buf, fut, <<Line("type", item.type), CRLF>>, x)
    BY ONLY <1>5, <2>1 DEF Comes
  <2>6. PICK is : is = "type"
    OBVIOUS
  <2>7. PICK line : line = Line(is, item.type) /\ line \in S \ Delimiters
    BY ONLY <1>2, <2>6
  <2>8. f = IF is = "name" THEN [name |-> item.type, type |-> p.file.type]
                           ELSE [name |-> p.file.name, type |-> item.type]
    BY ONLY <1>5, <2>2, <2>6
  <2>9. x \in Texts(S) /\ Comes(p.buf, fut, <<line, CRLF>>, x) /\ is \in {"name", "type"}
        /\ f \in Files(N) /\ LinesLeft(f, x, item, Behind(item, r))
    BY ONLY <1>1, <2>1, <2>2, <2>3, <2>4, <2>6, <2>7
  <2>. QED
    BY ONLY <2>7, <2>8, <2>9, LinePlaced, AtLines(S, N, items, rest, p, fut, k, item, r)
<1>6. CASE /\ p.file = [name |-> item.name, type |-> item.type]
           /\ p.buf ## fut = <<CRLF>> ## behind
  BY ONLY <1>1, <1>6, EmptyLinePlaced, AtLines(S, N, items, rest, p, fut, k, item, r)
<1>. QED
  BY ONLY <1>0, <1>1, <1>4, <1>5, <1>6 DEF LinesLeft

-----------------------------------------------------------------------------
(* Where the delimiter behind a content is found.                          *)

\* The delimiter of the contents, element by element.
LEMMA DelimiterElements ==
    ASSUME NEW S, Delimiters \subseteq S
    PROVE  /\ CrlfDashBoundary \in Seq(S) /\ Len(CrlfDashBoundary) = 3
           /\ CrlfDashBoundary[1] = CRLF /\ CrlfDashBoundary[2] = Dashes
           /\ CrlfDashBoundary[3] = Boundary
  BY DEF CrlfDashBoundary, Delimiters

\* What buf_find does not find stands nowhere.
LEMMA NowhereIn ==
    ASSUME NEW S, NEW c \in Seq(S), NEW d \in Seq(S), d # <<>>, Find(c, d) = Len(c)
    PROVE  \A i \in 0 .. Len(c) - Len(d) : ~Stands(d, c, i)
<1>1. Len(c) \in Nat /\ Len(d) \in Nat \ {0}
  BY EmptySeq, LenProperties
<1>2. PICK at : at = {i \in 0 .. Len(c) - Len(d) : Stands(d, c, i)}
  OBVIOUS
<1>3. at \in SUBSET Nat
  BY <1>1, <1>2
<1>. SUFFICES ASSUME at # {} PROVE FALSE
  BY <1>2
<1>4. PICK n \in at : \A m \in at : n =< m
  BY <1>3, Least
<1>5. n \in 0 .. Len(c) - Len(d) /\ Stands(d, c, n) /\ n \in Nat
  BY <1>2, <1>3
<1>6. ASSUME NEW i \in 0 .. n - 1 PROVE ~Stands(d, c, i)
  <2>1. i \in 0 .. Len(c) - Len(d) /\ i < n
    BY <1>1, <1>5
  <2>2. i \in Nat /\ i \notin at
    BY <1>4, <1>5, <2>1
  <2>. QED
    BY <1>2, <2>1, <2>2
<1>7. Find(c, d) = n
  BY <1>5, <1>6, FoundAt
<1>. QED
  BY <1>1, <1>5, <1>7

\* The tokens X, Y, Z (w) behind t, which is the end of c, as buf brings them.
Overlaps(L, G, B, c, t, w, buf, X, Y, Z) ==
    /\ X # Y /\ X # Z /\ w[1] = X /\ w[2] = Y /\ w[3] = Z
    /\ \A i \in 1 .. L : c[G + i] = t[i]
    /\ \A i \in 1 .. B : buf[i] = IF i =< L THEN t[i] ELSE w[i - L]
    /\ \A i \in 0 .. (G + L) - 3 : ~(c[i + 1] = X /\ c[i + 2] = Y /\ c[i + 3] = Z)

\* They are met at the end of t, and not before.
LEMMA Overlap ==
    ASSUME NEW L \in Nat, NEW G \in Nat, NEW B \in Nat, NEW c, NEW t, NEW w, NEW buf,
           NEW X, NEW Y, NEW Z, Overlaps(L, G, B, c, t, w, buf, X, Y, Z)
    PROVE  /\ \A i \in 0 .. B - 3 :
                i < L => ~(buf[i + 1] = X /\ buf[i + 2] = Y /\ buf[i + 3] = Z)
           /\ L + 3 =< B => buf[L + 1] = X /\ buf[L + 2] = Y /\ buf[L + 3] = Z
<1>. USE DEF Overlaps
<1>1. ASSUME NEW i \in 0 .. B - 3, i < L, buf[i + 1] = X, buf[i + 2] = Y, buf[i + 3] = Z
      PROVE  FALSE
  <2>1. CASE i + 3 =< L
    <3>1. /\ i + 1 \in 1 .. B /\ i + 2 \in 1 .. B /\ i + 3 \in 1 .. B
          /\ i + 1 =< L /\ i + 2 =< L /\ i + 3 =< L
      BY <2>1
    <3>2. t[i + 1] = X /\ t[i + 2] = Y /\ t[i + 3] = Z
      BY <1>1, <3>1
    <3>3. PICK a \in 0 .. (G + L) - 3 : a = G + i
      BY <2>1
    <3>4. /\ i + 1 \in 1 .. L /\ i + 2 \in 1 .. L /\ i + 3 \in 1 .. L
          /\ G + (i + 1) = a + 1 /\ G + (i + 2) = a + 2 /\ G + (i + 3) = a + 3
      BY <2>1, <3>3
    <3>5. c[G + (i + 1)] = X /\ c[G + (i + 2)] = Y /\ c[G + (i + 3)] = Z
      BY <3>2, <3>4
    <3>6. c[a + 1] = X /\ c[a + 2] = Y /\ c[a + 3] = Z
      BY <3>4, <3>5
    <3>. QED
      BY <3>6
  <2>2. CASE i + 2 = L
    <3>1. i + 3 \in 1 .. B /\ ~(i + 3 =< L) /\ (i + 3) - L = 1
      BY <2>2
    <3>. QED
      BY <1>1, <3>1
  <2>3. CASE i + 1 = L
    <3>1. i + 2 \in 1 .. B /\ ~(i + 2 =< L) /\ (i + 2) - L = 1
      BY <2>3
    <3>. QED
      BY <1>1, <3>1
  <2>. QED
    BY <1>1, <2>1, <2>2, <2>3
<1>2. ASSUME L + 3 =< B
      PROVE  buf[L + 1] = X /\ buf[L + 2] = Y /\ buf[L + 3] = Z
  <2>1. /\ L + 1 \in 1 .. B /\ L + 2 \in 1 .. B /\ L + 3 \in 1 .. B
        /\ ~(L + 1 =< L) /\ ~(L + 2 =< L) /\ ~(L + 3 =< L)
        /\ (L + 1) - L = 1 /\ (L + 2) - L = 2 /\ (L + 3) - L = 3
    BY <1>2
  <2>2. buf[L + 1] = w[(L + 1) - L] /\ buf[L + 2] = w[(L + 2) - L] /\ buf[L + 3] = w[(L + 3) - L]
    BY <2>1
  <2>. QED
    BY <2>1, <2>2
<1>. QED
  BY <1>1, <1>2

\* A content g and t without the delimiter, the delimiter, and more; g has been
\* taken, buf has come, and fut is still to come.
Contained(S, g, t, r, buf, fut) ==
    /\ Delimiters \subseteq S
    /\ g \in Seq(S) /\ t \in Seq(S) /\ r \in Seq(S) /\ buf \in Seq(S) /\ fut \in Seq(S)
    /\ Find(g \o t, CrlfDashBoundary) = Len(g \o t)
    /\ buf \o fut = t \o (CrlfDashBoundary \o r)

\* Where the delimiter behind a content is found in what has come of them: at
\* the end of the content, and not before it has come as a whole.
LEMMA DelimiterFound ==
    ASSUME NEW S, NEW g, NEW t, NEW r, NEW buf, NEW fut, Contained(S, g, t, r, buf, fut)
    PROVE  Find(buf, CrlfDashBoundary) =
               IF Len(t) + 3 =< Len(buf) THEN Len(t) ELSE Len(buf)
<1>0. /\ Delimiters \subseteq S
      /\ g \in Seq(S) /\ t \in Seq(S) /\ r \in Seq(S) /\ buf \in Seq(S) /\ fut \in Seq(S)
      /\ Find(g \o t, CrlfDashBoundary) = Len(g \o t)
      /\ buf \o fut = t \o (CrlfDashBoundary \o r)
  BY DEF Contained
<1>. USE <1>0
<1>1. PICK d \in Seq(S) : /\ d = CrlfDashBoundary /\ Len(d) = 3
                          /\ d[1] = CRLF /\ d[2] = Dashes /\ d[3] = Boundary
  BY DelimiterElements
<1>2. PICK c \in Seq(S) : c = g \o t /\ Len(c) = Len(g) + Len(t)
  BY ConcatProperties
<1>3. PICK w \in Seq(S) : w = d \o r /\ Len(w) = Len(d) + Len(r)
  BY ConcatProperties
<1>4. PICK L, G, B, F, W \in Nat :
          L = Len(t) /\ G = Len(g) /\ B = Len(buf) /\ F = Len(fut) /\ W = Len(w) /\ W >= 3
  <2>1. Len(t) \in Nat /\ Len(g) \in Nat /\ Len(buf) \in Nat /\ Len(fut) \in Nat /\ Len(r) \in Nat
    BY LenProperties
  <2>. QED
    BY <1>1, <1>3, <2>1
<1>5. \A i \in 1 .. L : c[G + i] = t[i]
  <2>1. \A i \in 1 .. Len(g) + Len(t) : c[i] = IF i =< Len(g) THEN g[i] ELSE t[i - Len(g)]
    BY <1>2, ConcatProperties
  <2>2. \A i \in 1 .. L : G + i \in 1 .. G + L /\ ~(G + i =< G) /\ (G + i) - G = i
    OBVIOUS
  <2>. QED
    BY ONLY <1>4, <2>1, <2>2
<1>6. w[1] = CRLF /\ w[2] = Dashes /\ w[3] = Boundary
  <2>1. \A i \in 1 .. Len(d) + Len(r) : w[i] = IF i =< Len(d) THEN d[i] ELSE r[i - Len(d)]
    BY <1>3, ConcatProperties
  <2>2. Len(r) \in Nat
    BY LenProperties
  <2>3. PICK R \in Nat : R = Len(r)
    BY <2>2
  <2>4. \A i \in 1 .. 3 + R : w[i] = IF i =< 3 THEN d[i] ELSE r[i - 3]
    BY ONLY <1>1, <2>1, <2>3
  <2>5. 1 \in 1 .. 3 + R /\ 2 \in 1 .. 3 + R /\ 3 \in 1 .. 3 + R
    BY ONLY R \in Nat
  <2>6. w[1] = d[1] /\ w[2] = d[2] /\ w[3] = d[3]
    BY ONLY <2>4, <2>5
  <2>. QED
    BY ONLY <1>1, <2>6
<1>7. L + W = B + F /\ \A i \in 1 .. B : buf[i] = IF i =< L THEN t[i] ELSE w[i - L]
  <2>1. buf \o fut = t \o w
    BY <1>0, <1>1, <1>3
  <2>2. /\ Len(buf \o fut) = Len(buf) + Len(fut)
        /\ \A i \in 1 .. Len(buf) + Len(fut) :
             (buf \o fut)[i] = IF i =< Len(buf) THEN buf[i] ELSE fut[i - Len(buf)]
    BY ConcatProperties
  <2>3. /\ Len(t \o w) = Len(t) + Len(w)
        /\ \A i \in 1 .. Len(t) + Len(w) :
             (t \o w)[i] = IF i =< Len(t) THEN t[i] ELSE w[i - Len(t)]
    BY ConcatProperties
  <2>4. L + W = B + F
    BY ONLY <1>4, <2>1, <2>2, <2>3
  <2>. QED
    BY ONLY <1>4, <2>1, <2>2, <2>3, <2>4, L \in Nat, B \in Nat, F \in Nat, W \in Nat
<1>8. \A i \in 0 .. (G + L) - 3 : ~Stands(d, c, i)
  <2>1. d # <<>> /\ Find(c, d) = Len(c)
    <3>1. d # <<>>
      <4>1. ASSUME d = <<>> PROVE FALSE
        <5>1. Len(d) = 0
          BY <4>1, EmptySeq
        <5>. QED
          BY <1>1, <5>1
      <4>. QED
        BY <4>1
    <3>. QED
      BY <1>0, <1>1, <1>2, <3>1
  <2>2. \A i \in 0 .. Len(c) - Len(d) : ~Stands(d, c, i)
    BY ONLY <2>1, NowhereIn, c \in Seq(S), d \in Seq(S)
  <2>. QED
    BY ONLY <1>1, <1>2, <1>4, <2>2
<1>9. \A i \in Int : \A s : Stands(d, s, i) <=>
            (s[i + 1] = CRLF /\ s[i + 2] = Dashes /\ s[i + 3] = Boundary)
  <2>1. \A j \in 1 .. 3 : j = 1 \/ j = 2 \/ j = 3
    OBVIOUS
  <2>2. 1 \in 1 .. 3 /\ 2 \in 1 .. 3 /\ 3 \in 1 .. 3
    OBVIOUS
  <2>. QED
    BY ONLY <1>1, <2>1, <2>2, Zenon DEF Stands
<1>10. /\ \A i \in 0 .. B - 3 : i < L => ~Stands(d, buf, i)
       /\ L + 3 =< B => Stands(d, buf, L)
  <2>1. \A i \in 0 .. (G + L) - 3 : ~(c[i + 1] = CRLF /\ c[i + 2] = Dashes /\ c[i + 3] = Boundary)
    <3>1. \A i \in 0 .. (G + L) - 3 : i \in Int
      OBVIOUS
    <3>. QED
      BY ONLY <1>8, <1>9, <3>1, Zenon
  <2>2. \A i \in 1 .. B : buf[i] = IF i =< L THEN t[i] ELSE w[i - L]
    BY ONLY <1>7
  <2>3. CRLF # Dashes /\ CRLF # Boundary
    BY ONLY TokensAssumption
  <2>4. /\ \A i \in 0 .. B - 3 :
             i < L => ~(buf[i + 1] = CRLF /\ buf[i + 2] = Dashes /\ buf[i + 3] = Boundary)
        /\ L + 3 =< B => buf[L + 1] = CRLF /\ buf[L + 2] = Dashes /\ buf[L + 3] = Boundary
    <3>1. Overlaps(L, G, B, c, t, w, buf, CRLF, Dashes, Boundary)
      BY ONLY <1>5, <1>6, <2>1, <2>2, <2>3, Zenon DEF Overlaps
    <3>. QED
      BY ONLY <3>1, Overlap, L \in Nat, G \in Nat, B \in Nat
  <2>5. L \in Int /\ \A i \in 0 .. B - 3 : i \in Int
    OBVIOUS
  <2>. QED
    BY ONLY <1>9, <2>4, <2>5, Zenon
<1>11. CASE L + 3 =< B
  <2>2. L \in 0 .. Len(buf) - Len(d)
    BY <1>1, <1>4, <1>11
  <2>3. \A i \in 0 .. L - 1 : i \in 0 .. B - 3 /\ i < L
    BY <1>11
  <2>4. Stands(d, buf, L) /\ \A i \in 0 .. L - 1 : ~Stands(d, buf, i)
    BY ONLY <1>10, <1>11, <2>3, Zenon
  <2>5. Find(buf, d) = L
    BY ONLY <2>2, <2>4, FoundAt, <1>0, d \in Seq(S)
  <2>. QED
    BY ONLY <1>1, <1>4, <1>11, <2>5
<1>12. CASE ~(L + 3 =< B)
  <2>1. \A i \in 0 .. B - 3 : i < L
    BY <1>12
  <2>2. \A i \in 0 .. Len(buf) - Len(d) : ~Stands(d, buf, i)
    BY ONLY <1>1, <1>4, <1>10, <2>1
  <2>3. Find(buf, d) = Len(buf)
    BY ONLY <2>2, FoundAt, <1>0, d \in Seq(S)
  <2>. QED
    BY ONLY <1>1, <1>4, <1>12, <2>3
<1>. QED
  BY <1>11, <1>12

-----------------------------------------------------------------------------
(* The content of an entry.                                                *)

\* The content of the last part grows by the first n tokens of the buffer.
LEMMA EmitDoes ==
    ASSUME NEW S, NEW N, NEW p, p \in Parsers(S, N), NEW n, n \in 0 .. Len(p.buf),
           NEW m, m \in Nat \ {0}, Len(p.parts) = m,
           NEW g, g = p.parts[m].content ## First(p.buf, n)
    PROVE  \E part \in Items(S, N), ps \in Seq(Items(S, N)) :
             /\ part = [name |-> p.parts[m].name, type |-> p.parts[m].type, content |-> g]
             /\ Len(ps) = m /\ ps[m] = part
             /\ \A i \in 1 .. m - 1 : ps[i] = p.parts[i]
             /\ Became(Emit(p, n), p.buf, p.state, p.valid, p.file, ps, p.run)
<1>1. PICK parts \in Seq(Items(S, N)), buf \in Texts(S) : parts = p.parts /\ buf = p.buf
  BY ONLY ParserFields, p \in Parsers(S, N)
<1>2. m \in 1 .. Len(parts)
  BY ONLY <1>1, m \in Nat \ {0}, Len(p.parts) = m
<1>3. PICK old \in Items(S, N) : old = parts[m]
  BY ONLY <1>2, ElementOfSeq, parts \in Seq(Items(S, N))
<1>4. old.content \in Texts(S) /\ First(buf, n) \in Texts(S)
  <2>1. n \in 0 .. Len(buf)
    BY ONLY <1>1, n \in 0 .. Len(p.buf)
  <2>. QED
    BY ONLY <2>1, CutText, buf \in Texts(S), old \in Items(S, N) DEF Items
<1>5. g \in Texts(S) /\ g = old.content ## First(buf, n)
  BY ONLY <1>1, <1>3, <1>4, TextFacts, g = p.parts[m].content ## First(p.buf, n)
<1>6. PICK part \in Items(S, N) : part = [name |-> old.name, type |-> old.type, content |-> g]
  BY ONLY <1>5, old \in Items(S, N) DEF Items
<1>7. part = [old EXCEPT !.content = g]
  BY ONLY <1>6, old \in Items(S, N) DEF Items
<1>8. PICK ps : ps = [parts EXCEPT ![m] = part]
  OBVIOUS
<1>9. ps \in Seq(Items(S, N)) /\ Len(ps) = m /\ ps[m] = part /\ \A i \in 1 .. m - 1 : ps[i] = parts[i]
  <2>1. /\ ps \in Seq(Items(S, N)) /\ Len(ps) = Len(parts)
        /\ \A i \in 1 .. Len(parts) : ps[i] = IF i = m THEN part ELSE parts[i]
    BY ONLY <1>2, <1>6, <1>8, ExceptSeq, parts \in Seq(Items(S, N))
  <2>2. \A i \in 1 .. m - 1 : i \in 1 .. m /\ i # m
    BY ONLY m \in Nat \ {0}
  <2>. QED
    BY ONLY <1>1, <1>2, <2>1, <2>2, Len(p.parts) = m
<1>10. Emit(p, n) = [p EXCEPT !.parts = ps]
  <2>1. Emit(p, n) = [p EXCEPT !.parts[m].content = @ \o SubSeq(p.buf, 1, n)]
    BY Zenon DEF Emit
  <2>2. p.parts[m].content \o SubSeq(p.buf, 1, n) = g
    BY ONLY g = p.parts[m].content ## First(p.buf, n) DEF First, ##
  <2>3. Emit(p, n) = [p EXCEPT !.parts[m].content = g]
    BY ONLY <2>1, <2>2
  <2>4. Emit(p, n) = [p EXCEPT !.parts = [p.parts EXCEPT ![m] = [p.parts[m] EXCEPT !.content = g]]]
    BY ONLY <2>3
  <2>. QED
    BY ONLY <1>1, <1>3, <1>7, <1>8, <2>4
<1>11. Became(Emit(p, n), p.buf, p.state, p.valid, p.file, ps, p.run)
  BY ONLY <1>10, ParserFields, p \in Parsers(S, N) DEF Became
<1>. QED
  BY ONLY <1>1, <1>3, <1>6, <1>9, <1>11

\* What a parser in the content of an entry has in common.
AtContent(S, N, items, rest, p, fut, k, item, r) ==
    /\ Setting(S, N, items, rest) /\ Going(S, N, p, fut) /\ Here(items, rest, k, item, r)
    /\ WholeParts(p.parts, items, k)
    /\ InContent(p, p.buf ## fut, items, rest, k)

\* How the content so far, what is left of it, and what is to come fit.
LEMMA ContentLeft ==
    ASSUME NEW S, NEW g, g \in Texts(S), NEW R, R \in Texts(S), NEW c, c \in Texts(S),
           NEW x, x \in Texts(S), g ## R = c ## x, Len(g) =< Len(c)
    PROVE  \E t \in Texts(S) : c = g ## t /\ R = t ## x
<1>1. Len(g) \in Nat /\ Len(c) \in Nat
  BY ONLY TextFacts, g \in Texts(S), c \in Texts(S)
<1>2. c ## x = g ## R
  BY ONLY g ## R = c ## x
<1>3. First(c, Len(g)) = g /\ Drop(c, Len(g)) ## x = R
  BY ONLY <1>2, ShiftText, c \in Texts(S), x \in Texts(S), g \in Texts(S), R \in Texts(S),
     Len(g) =< Len(c)
<1>4. PICK n \in 0 .. Len(c) : n = Len(g)
  BY ONLY <1>1, Len(g) =< Len(c)
<1>5. Drop(c, n) \in Texts(S) /\ First(c, n) ## Drop(c, n) = c
  BY ONLY CutText, c \in Texts(S), n \in 0 .. Len(c)
<1>. QED
  BY ONLY <1>3, <1>4, <1>5

\* DelimiterFound, for texts.
LEMMA DelimiterFoundText ==
    ASSUME NEW S, Delimiters \subseteq S,
           NEW g, g \in Texts(S), NEW t, t \in Texts(S), NEW r, r \in Texts(S),
           NEW buf, buf \in Texts(S), NEW fut, fut \in Texts(S),
           NEW c, c = g ## t, Find(c, CrlfDashBoundary) = Len(c),
           buf ## fut = t ## (CrlfDashBoundary ## r)
    PROVE  Find(buf, CrlfDashBoundary) =
               IF Len(t) + 3 =< Len(buf) THEN Len(t) ELSE Len(buf)
<1>1. Contained(S, g, t, r, buf, fut)
  BY DEF Texts, ##, Contained
<1>. QED
  BY ONLY <1>1, DelimiterFound

\* What a parser in a content has: the content so far, what is left of it, the
\* delimiter and what comes behind it.
LEMMA ContentFacts ==
    ASSUME NEW S, NEW N, NEW items, NEW rest, NEW p, NEW fut, NEW k, NEW item, NEW r,
           AtContent(S, N, items, rest, p, fut, k, item, r)
    PROVE  \E g \in Texts(S), t \in Texts(S) :
             /\ g = p.parts[k + 1].content /\ item.content = g ## t
             /\ p.buf ## fut = t ## (CrlfDashBoundary ## r)
             /\ Find(p.buf, CrlfDashBoundary) =
                    IF Len(t) + 3 =< Len(p.buf) THEN Len(t) ELSE Len(p.buf)
<1>0. /\ Setting(S, N, items, rest) /\ Going(S, N, p, fut) /\ Here(items, rest, k, item, r)
      /\ InContent(p, p.buf ## fut, items, rest, k)
  BY DEF AtContent
<1>1. /\ fut \in Texts(S) /\ p.buf \in Texts(S) /\ p.parts \in Seq(Items(S, N))
  BY ONLY <1>0, ParserFields DEF Going
<1>2. PICK R, buf, parts : /\ R = p.buf ## fut /\ buf = p.buf /\ parts = p.parts
  OBVIOUS
<1>3. R \in Texts(S) /\ buf \in Texts(S) /\ fut \in Texts(S) /\ R = buf ## fut
  BY ONLY <1>1, <1>2, TextFacts
<1>4. k < Len(items) /\ item = items[k + 1] /\ r = rest[k + 1]
  BY ONLY <1>0 DEF Here
<1>5. /\ k \in Nat /\ r \in Texts(S) /\ item.content \in Texts(S)
      /\ CrlfDashBoundary ## r \in Texts(S)
      /\ Find(item.content, CrlfDashBoundary) = Len(item.content)
  <2>1. Setting(S, N, items, rest) /\ Here(items, rest, k, item, r)
    BY ONLY <1>0
  <2>2. k \in Nat /\ r \in Texts(S) /\ item.content \in Texts(S)
    BY ONLY <2>1, ItemFacts
  <2>3. CrlfDashBoundary ## r \in Texts(S)
    BY ONLY <2>1, ItemFacts
  <2>4. Find(item.content, CrlfDashBoundary) = Len(item.content)
    <3>1. \A i \in 1 .. Len(items) : Find(items[i].content, CrlfDashBoundary) = Len(items[i].content)
      BY ONLY <2>1, Zenon DEF Setting, FormOver
    <3>2. item = items[k + 1] /\ k + 1 \in 1 .. Len(items)
      <4>1. Len(items) \in Nat /\ k < Len(items) /\ item = items[k + 1]
        BY ONLY <2>1, ItemFacts DEF Here
      <4>. QED
        BY ONLY <2>2, <4>1
    <3>. QED
      BY ONLY <3>1, <3>2
  <2>. QED
    BY ONLY <2>2, <2>3, <2>4
<1>6. PICK c \in Texts(S), x \in Texts(S) : c = item.content /\ x = CrlfDashBoundary ## r
  BY ONLY <1>5
<1>7. PICK g : g = parts[k + 1].content
  OBVIOUS
<1>8. Len(parts) = k + 1 /\ g ## R = c ## x /\ Len(g) =< Len(c)
  BY ONLY <1>0, <1>2, <1>4, <1>6, <1>7 DEF InContent, Behind
<1>9. g \in Texts(S)
  <2>1. k + 1 \in 1 .. Len(parts)
    BY ONLY <1>5, <1>8
  <2>2. parts[k + 1] \in Items(S, N)
    BY ONLY <1>1, <1>2, <2>1, ElementOfSeq
  <2>. QED
    BY ONLY <1>7, <2>2 DEF Items
<1>10. PICK t \in Texts(S) : c = g ## t /\ R = t ## x
  BY ONLY <1>3, <1>6, <1>8, <1>9, ContentLeft
<1>11. Find(buf, CrlfDashBoundary) = IF Len(t) + 3 =< Len(buf) THEN Len(t) ELSE Len(buf)
  <2>1. Delimiters \subseteq S
    BY ONLY <1>0 DEF Setting, FormOver
  <2>2. Find(c, CrlfDashBoundary) = Len(c) /\ buf ## fut = t ## (CrlfDashBoundary ## r)
    BY ONLY <1>3, <1>5, <1>6, <1>10
  <2>. QED
    BY ONLY <1>3, <1>5, <1>9, <1>10, <2>1, <2>2, DelimiterFoundText
<1>. QED
  BY ONLY <1>2, <1>3, <1>6, <1>7, <1>9, <1>10, <1>11

\* The content so far, and what is left of it.
ContentRead(S, p, fut, k, item, r, g, t) ==
    /\ g \in Texts(S) /\ t \in Texts(S) /\ g = p.parts[k + 1].content
    /\ item.content = g ## t /\ p.buf ## fut = t ## (CrlfDashBoundary ## r)

\* What Content makes of p when the delimiter has come, and when it has not.
Ended(p, t, q) ==
    /\ Len(t) + 3 =< Len(p.buf)
    /\ q = [Erased(Emit(p, Len(t)), Len(t) + Len(CrlfDashBoundary)) EXCEPT !.state = 4]
Continued(p, t, m, q) ==
    m + 3 = Len(p.buf) /\ m =< Len(t) /\ q = Waiting(Erased(Emit(p, m), m))

\* The content has come to its end: the part is the item.
LEMMA ContentEnds ==
    ASSUME NEW S, NEW N, NEW items, NEW rest, NEW p, NEW fut, NEW k, NEW item, NEW r,
           AtContent(S, N, items, rest, p, fut, k, item, r),
           NEW g, NEW t, ContentRead(S, p, fut, k, item, r, g, t), NEW q, Ended(p, t, q)
    PROVE  q \in Parsers(S, N) /\ Placed(q, q.buf ## fut, items, rest)
<1>00. /\ g \in Texts(S) /\ t \in Texts(S) /\ g = p.parts[k + 1].content
       /\ item.content = g ## t /\ p.buf ## fut = t ## (CrlfDashBoundary ## r)
  BY DEF ContentRead
<1>01. /\ Len(t) + 3 =< Len(p.buf)
       /\ q = [Erased(Emit(p, Len(t)), Len(t) + Len(CrlfDashBoundary)) EXCEPT !.state = 4]
  BY DEF Ended
<1>0. /\ Setting(S, N, items, rest) /\ Going(S, N, p, fut) /\ Here(items, rest, k, item, r)
      /\ WholeParts(p.parts, items, k) /\ InContent(p, p.buf ## fut, items, rest, k)
  BY DEF AtContent
<1>1. /\ p \in Parsers(S, N) /\ fut \in Texts(S) /\ p.run = "on"
      /\ p.buf \in Texts(S) /\ p.parts \in Seq(Items(S, N)) /\ p.file \in Files(N)
      /\ p.valid \in BOOLEAN /\ p.state \in 0 .. 4
  BY ONLY <1>0, ParserFields DEF Going
<1>2. /\ k \in 0 .. Len(items) /\ k < Len(items) /\ item = items[k + 1] /\ r = rest[k + 1]
  BY ONLY <1>0 DEF Here
<1>3. /\ k \in Nat /\ k + 1 \in 0 .. Len(items) /\ r \in Texts(S) /\ item \in Items(S, N)
      /\ CrlfDashBoundary \in Texts(S) /\ CrlfDashBoundary ## r \in Texts(S)
  BY ONLY <1>0, ItemFacts
<1>4. PICK d \in Texts(S) : d = CrlfDashBoundary /\ Len(d) = 3
  <2>1. Delimiters \subseteq S
    BY ONLY <1>0 DEF Setting, FormOver
  <2>. QED
    BY ONLY <1>3, <2>1, DelimiterElements
<1>5. PICK buf \in Texts(S) : buf = p.buf
  BY ONLY <1>1
<1>6. PICK n \in Nat, B \in Nat : n = Len(t) /\ B = Len(buf) /\ n + 3 =< B
  BY ONLY <1>5, TextFacts, <1>00, <1>01
<1>7. /\ p.valid = FALSE /\ Len(p.parts) = k + 1
      /\ p.parts[k + 1].name = item.name /\ p.parts[k + 1].type = item.type
  BY ONLY <1>0, <1>1, <1>2 DEF InContent
<1>8. First(buf, n) = t
  <2>1. PICK x \in Texts(S) : x = d ## r /\ buf ## fut = t ## x
    BY ONLY <1>3, <1>4, <1>5, <1>00
  <2>2. fut \in Texts(S) /\ Len(t) =< Len(buf)
    BY ONLY <1>1, <1>6
  <2>. QED
    BY ONLY <1>6, <2>1, <2>2, ShiftText, buf \in Texts(S), <1>00
<1>9. PICK part \in Items(S, N), ps \in Seq(Items(S, N)) :
          /\ part = [name |-> p.parts[k + 1].name, type |-> p.parts[k + 1].type,
                     content |-> g ## t]
          /\ Len(ps) = k + 1 /\ ps[k + 1] = part /\ \A i \in 1 .. (k + 1) - 1 : ps[i] = p.parts[i]
          /\ Became(Emit(p, n), p.buf, p.state, p.valid, p.file, ps, p.run)
  <2>1. PICK m \in Nat \ {0} : m = k + 1 /\ Len(p.parts) = m
    BY ONLY <1>3, <1>7
  <2>2. n \in 0 .. Len(p.buf) /\ g ## t = p.parts[m].content ## First(p.buf, n)
    BY ONLY <1>5, <1>6, <1>8, <2>1, <1>00
  <2>. QED
    BY ONLY <1>1, <2>1, <2>2, EmitDoes
<1>10. part = item
  BY ONLY <1>3, <1>7, <1>9, <1>00 DEF Items
<1>11. PICK e : e = Emit(p, n)
  OBVIOUS
<1>12. /\ e \in Parsers(S, N) /\ e.buf = buf /\ e.state = p.state /\ e.valid = p.valid
       /\ e.file = p.file /\ e.parts = ps /\ e.run = p.run
  <2>1. AreFields(S, N, p.buf, p.state, p.valid, p.file, ps, p.run)
    BY ONLY <1>1, <1>9 DEF AreFields
  <2>. QED
    BY ONLY <1>1, <1>5, <1>7, <1>9, <1>11, <2>1, BecameParser
<1>13. PICK b \in Texts(S) : b = Drop(buf, n + 3) /\ b ## fut = r
  <2>1. PICK td \in Texts(S) : td = t ## d /\ Len(td) = n + 3
    <3>1. t ## d \in Texts(S) /\ Len(t ## d) = Len(t) + Len(d)
      BY ONLY d \in Texts(S), TextFacts, <1>00
    <3>. QED
      BY ONLY <1>4, <1>6, <3>1
  <2>2. buf ## fut = td ## r
    <3>1. buf ## fut = t ## (d ## r)
      BY ONLY <1>4, <1>5, <1>00
    <3>2. (t ## d) ## r = t ## (d ## r)
      BY ONLY <1>3, <1>4, TextFacts, <1>00
    <3>. QED
      BY ONLY <2>1, <3>1, <3>2
  <2>3. fut \in Texts(S) /\ r \in Texts(S) /\ Len(td) =< Len(buf)
    BY ONLY <1>1, <1>3, <1>6, <2>1
  <2>4. Drop(buf, Len(td)) ## fut = r
    BY ONLY <2>2, <2>3, ShiftText, buf \in Texts(S), td \in Texts(S)
  <2>5. PICK m \in 0 .. Len(buf) : m = n + 3
    BY ONLY <1>6
  <2>6. Drop(buf, m) \in Texts(S)
    BY ONLY CutText, buf \in Texts(S), m \in 0 .. Len(buf)
  <2>. QED
    BY ONLY <2>1, <2>4, <2>5, <2>6
<1>14. PICK f : f = Erased(e, n + 3) /\ Became(f, b, e.state, e.valid, e.file, e.parts, e.run)
  <2>1. n + 3 \in 0 .. Len(e.buf)
    BY ONLY <1>6, <1>12
  <2>2. Became(Erased(e, n + 3), Drop(e.buf, n + 3), e.state, e.valid, e.file, e.parts, e.run)
    BY ONLY <1>12, <2>1, ErasedDoes
  <2>. QED
    BY ONLY <1>12, <1>13, <2>2
<1>15. Became(q, b, 4, p.valid, p.file, ps, p.run)
  <2>1. q = [f EXCEPT !.state = 4]
    BY ONLY <1>4, <1>6, <1>11, <1>14, <1>01
  <2>. QED
    BY ONLY <1>12, <1>14, <2>1 DEF Became
<1>16. /\ q \in Parsers(S, N) /\ q.buf = b /\ q.state = 4 /\ q.valid = FALSE
       /\ q.parts = ps /\ q.run = "on"
  <2>1. AreFields(S, N, b, 4, p.valid, p.file, ps, p.run)
    BY ONLY <1>1, <1>9, <1>13 DEF AreFields
  <2>2. /\ q \in Parsers(S, N) /\ q.buf = b /\ q.state = 4 /\ q.valid = p.valid
        /\ q.parts = ps /\ q.run = p.run
    BY ONLY <1>15, <2>1, BecameParser
  <2>. QED
    BY ONLY <1>1, <1>7, <2>2
<1>17. WholeParts(ps, items, k + 1)
  <2>1. \A i \in 1 .. k : ps[i] = items[i]
    <3>1. \A i \in 1 .. k : p.parts[i] = items[i]
      BY ONLY <1>0 DEF WholeParts
    <3>2. (k + 1) - 1 = k
      BY ONLY <1>3
    <3>. QED
      BY ONLY <1>9, <3>1, <3>2
  <2>2. ps[k + 1] = items[k + 1]
    BY ONLY <1>2, <1>9, <1>10
  <2>3. \A i \in 1 .. k + 1 : i \in 1 .. k \/ i = k + 1
    BY ONLY <1>3
  <2>4. Len(ps) >= k + 1
    BY ONLY <1>3, <1>9
  <2>. QED
    BY ONLY <2>1, <2>2, <2>3, <2>4 DEF WholeParts
<1>18. PlacedAt(q, q.buf ## fut, items, rest, k + 1)
  <2>1. AtBoundary(q, q.buf ## fut, items, rest, k + 1)
    BY ONLY <1>2, <1>9, <1>13, <1>16 DEF AtBoundary
  <2>. QED
    BY ONLY <1>16, <1>17, <2>1 DEF PlacedAt
<1>. QED
  BY ONLY <1>3, <1>16, <1>18 DEF Placed

-----------------------------------------------------------------------------
(* The content, as far as it has come.                                     *)

\* The content has not come to its end: all that cannot be the beginning of the
\* delimiter is handed over.
LEMMA ContentGoesOn ==
    ASSUME NEW S, NEW N, NEW items, NEW rest, NEW p, NEW fut, NEW k, NEW item, NEW r,
           AtContent(S, N, items, rest, p, fut, k, item, r),
           NEW g, NEW t, ContentRead(S, p, fut, k, item, r, g, t),
           NEW m, m \in Nat, NEW q, Continued(p, t, m, q)
    PROVE  q \in Parsers(S, N) /\ Placed(q, q.buf ## fut, items, rest)
<1>00. /\ g \in Texts(S) /\ t \in Texts(S) /\ g = p.parts[k + 1].content
       /\ item.content = g ## t /\ p.buf ## fut = t ## (CrlfDashBoundary ## r)
  BY DEF ContentRead
<1>02. g \in Texts(S) /\ t \in Texts(S)
  BY ONLY <1>00
<1>01. m + 3 = Len(p.buf) /\ m =< Len(t) /\ q = Waiting(Erased(Emit(p, m), m))
  BY DEF Continued
<1>0. /\ Setting(S, N, items, rest) /\ Going(S, N, p, fut) /\ Here(items, rest, k, item, r)
      /\ WholeParts(p.parts, items, k) /\ InContent(p, p.buf ## fut, items, rest, k)
  BY DEF AtContent
<1>1. /\ p \in Parsers(S, N) /\ fut \in Texts(S) /\ p.run = "on"
      /\ p.buf \in Texts(S) /\ p.parts \in Seq(Items(S, N)) /\ p.file \in Files(N)
      /\ p.valid \in BOOLEAN /\ p.state \in 0 .. 4
  BY ONLY <1>0, ParserFields DEF Going
<1>2. /\ k \in 0 .. Len(items) /\ k < Len(items) /\ item = items[k + 1] /\ r = rest[k + 1]
  BY ONLY <1>0 DEF Here
<1>3. k \in Nat /\ item \in Items(S, N)
  BY ONLY <1>0, ItemFacts
<1>4. PICK buf \in Texts(S) : buf = p.buf
  BY ONLY <1>1
<1>5. PICK n \in Nat : n = Len(t)
  BY ONLY TextFacts, <1>02
<1>6. m \in 0 .. Len(buf)
  BY ONLY <1>4, m \in Nat, <1>01
<1>7. /\ p.state = 3 /\ p.valid = FALSE /\ Len(p.parts) = k + 1
      /\ p.parts[k + 1].name = item.name /\ p.parts[k + 1].type = item.type
      /\ g ## (p.buf ## fut) = Behind(item, r)
  BY ONLY <1>0, <1>1, <1>2, <1>00 DEF InContent
<1>8. PICK some \in Texts(S), b \in Texts(S) :
         /\ some = First(buf, m) /\ b = Drop(buf, m) /\ Len(some) = m /\ some ## b = buf
  BY ONLY <1>6, CutText, buf \in Texts(S)
<1>9. PICK more \in Texts(S) : more = g ## some /\ Len(more) = Len(g) + m
  <2>1. g ## some \in Texts(S) /\ Len(g ## some) = Len(g) + Len(some)
    BY ONLY TextFacts, <1>02, some \in Texts(S)
  <2>. QED
    BY ONLY <1>8, <2>1
<1>10. PICK part \in Items(S, N), ps \in Seq(Items(S, N)) :
          /\ part = [name |-> p.parts[k + 1].name, type |-> p.parts[k + 1].type,
                     content |-> more]
          /\ Len(ps) = k + 1 /\ ps[k + 1] = part /\ \A i \in 1 .. (k + 1) - 1 : ps[i] = p.parts[i]
          /\ Became(Emit(p, m), p.buf, p.state, p.valid, p.file, ps, p.run)
  <2>1. PICK last \in Nat \ {0} : last = k + 1 /\ Len(p.parts) = last
    BY ONLY <1>3, <1>7
  <2>2. m \in 0 .. Len(p.buf) /\ more = p.parts[last].content ## First(p.buf, m)
    BY ONLY <1>4, <1>6, <1>8, <1>9, <2>1, <1>00
  <2>3. \E part \in Items(S, N), ps \in Seq(Items(S, N)) :
          /\ part = [name |-> p.parts[last].name, type |-> p.parts[last].type, content |-> more]
          /\ Len(ps) = last /\ ps[last] = part
          /\ \A i \in 1 .. last - 1 : ps[i] = p.parts[i]
          /\ Became(Emit(p, m), p.buf, p.state, p.valid, p.file, ps, p.run)
    <3>1. /\ p \in Parsers(S, N) /\ last \in Nat \ {0} /\ Len(p.parts) = last
          /\ m \in 0 .. Len(p.buf) /\ more = p.parts[last].content ## First(p.buf, m)
      BY ONLY <1>1, <2>1, <2>2, last \in Nat \ {0}
    <3>. QED
      BY ONLY <3>1, EmitDoes
  <2>. QED
    BY ONLY <2>1, <2>3
<1>11. PICK e : e = Emit(p, m)
  OBVIOUS
<1>12. /\ e \in Parsers(S, N) /\ e.buf = buf /\ e.state = p.state /\ e.valid = p.valid
       /\ e.file = p.file /\ e.parts = ps /\ e.run = p.run
  <2>1. AreFields(S, N, p.buf, p.state, p.valid, p.file, ps, p.run)
    BY ONLY <1>1, <1>10 DEF AreFields
  <2>. QED
    BY ONLY <1>4, <1>10, <1>11, <2>1, BecameParser
<1>13. PICK f : f = Erased(e, m) /\ Became(f, b, e.state, e.valid, e.file, e.parts, e.run)
  <2>1. m \in 0 .. Len(e.buf)
    BY ONLY <1>6, <1>12
  <2>2. Became(Erased(e, m), Drop(e.buf, m), e.state, e.valid, e.file, e.parts, e.run)
    BY ONLY <1>12, <2>1, ErasedDoes
  <2>. QED
    BY ONLY <1>8, <1>12, <2>2
<1>14. /\ f \in Parsers(S, N) /\ f.buf = b /\ f.state = p.state /\ f.valid = p.valid
       /\ f.parts = ps /\ f.run = p.run
  <2>1. AreFields(S, N, b, e.state, e.valid, e.file, e.parts, e.run)
    BY ONLY <1>1, <1>10, <1>12 DEF AreFields
  <2>2. /\ f \in Parsers(S, N) /\ f.buf = b /\ f.state = e.state /\ f.valid = e.valid
        /\ f.parts = e.parts /\ f.run = e.run
    BY ONLY <1>13, <2>1, BecameParser
  <2>. QED
    BY ONLY <1>12, <2>2
<1>15. more ## (b ## fut) = Behind(item, r)
  <2>1. PICK bf \in Texts(S), gs \in Texts(S) : bf = b ## fut /\ gs = g ## some
    BY ONLY <1>1, <1>8, TextFacts, <1>02
  <2>2. gs ## bf = g ## (some ## bf)
    BY ONLY <2>1, TextFacts, <1>02, some \in Texts(S)
  <2>3. some ## bf = (some ## b) ## fut
    BY ONLY <1>1, <2>1, TextFacts, b \in Texts(S), some \in Texts(S)
  <2>. QED
    BY ONLY <1>4, <1>7, <1>8, <1>9, <2>1, <2>2, <2>3
<1>16. Len(more) =< Len(item.content)
  <2>1. Len(g ## t) = Len(g) + Len(t) /\ Len(g) \in Nat
    BY ONLY TextFacts, <1>02
  <2>2. PICK G \in Nat : G = Len(g)
    BY ONLY <2>1
  <2>. QED
    BY ONLY <1>5, <1>9, <2>1, <2>2, <1>01, m \in Nat, <1>00
<1>17. PICK R : R = b ## fut
  OBVIOUS
<1>18. InContent(f, R, items, rest, k)
  <2>1. part.name = item.name /\ part.type = item.type /\ part.content = more
    BY ONLY <1>7, <1>10
  <2>. QED
    BY ONLY <1>2, <1>7, <1>10, <1>14, <1>15, <1>16, <1>17, <2>1 DEF InContent
<1>19. WholeParts(ps, items, k)
  <2>1. (k + 1) - 1 = k /\ k + 1 >= k
    BY ONLY <1>3
  <2>. QED
    BY ONLY <1>0, <1>10, <2>1 DEF WholeParts
<1>20. PlacedAt(f, R, items, rest, k)
  BY ONLY <1>1, <1>14, <1>18, <1>19 DEF PlacedAt
<1>21. q = Waiting(f)
  BY ONLY <1>01, <1>11, <1>13
<1>22. q \in Parsers(S, N) /\ q.buf = f.buf /\ PlacedAt(q, R, items, rest, k)
  BY ONLY <1>14, <1>20, <1>21, WaitPlaced
<1>. QED
  BY ONLY <1>2, <1>14, <1>17, <1>22 DEF Placed

\* In the content of an entry.
LEMMA ContentPlaced ==
    ASSUME NEW S, NEW N, NEW items, NEW rest, NEW p, NEW fut, NEW k, NEW item, NEW r,
           AtContent(S, N, items, rest, p, fut, k, item, r)
    PROVE  /\ Content(p) \in Parsers(S, N)
           /\ Placed(Content(p), Content(p).buf ## fut, items, rest)
<1>1. PICK g \in Texts(S), t \in Texts(S) :
         /\ g = p.parts[k + 1].content /\ item.content = g ## t
         /\ p.buf ## fut = t ## (CrlfDashBoundary ## r)
         /\ Find(p.buf, CrlfDashBoundary) =
                IF Len(t) + 3 =< Len(p.buf) THEN Len(t) ELSE Len(p.buf)
  BY ContentFacts
<1>2. /\ Setting(S, N, items, rest) /\ Going(S, N, p, fut) /\ Here(items, rest, k, item, r)
      /\ WholeParts(p.parts, items, k) /\ InContent(p, p.buf ## fut, items, rest, k)
  BY DEF AtContent
<1>3. p \in Parsers(S, N) /\ p.buf \in Texts(S) /\ p.run = "on"
  BY ONLY <1>2, ParserFields DEF Going
<1>4. Len(CrlfDashBoundary) = 3
  <2>1. Delimiters \subseteq S
    BY ONLY <1>2 DEF Setting, FormOver
  <2>. QED
    BY ONLY <2>1, DelimiterElements
<1>5. PICK n \in Nat, B \in Nat : n = Len(t) /\ B = Len(p.buf)
  BY ONLY <1>3, TextFacts, t \in Texts(S)
<1>50. PICK pos : pos = Find(p.buf, CrlfDashBoundary)
  OBVIOUS
<1>6. Content(p) =
        IF B < 3 THEN Waiting(p)
        ELSE IF pos < B THEN
            [Erased(Emit(p, pos), pos + Len(CrlfDashBoundary)) EXCEPT !.state = 4]
        ELSE Waiting(Erased(Emit(p, B - 3), B - 3))
  BY ONLY <1>4, <1>5, <1>50 DEF Content, ContentKeeping
<1>7. pos = IF n + 3 =< B THEN n ELSE B
  BY ONLY <1>1, <1>5, <1>50
<1>8. PICK q : q = Content(p)
  OBVIOUS
<1>9. CASE B < 3
  <2>1. PICK R : R = p.buf ## fut
    OBVIOUS
  <2>2. PlacedAt(p, R, items, rest, k)
    BY ONLY <1>2, <1>3, <2>1 DEF PlacedAt
  <2>3. q = Waiting(p)
    BY ONLY <1>6, <1>8, <1>9
  <2>4. q \in Parsers(S, N) /\ q.buf = p.buf /\ PlacedAt(q, R, items, rest, k)
    BY ONLY <1>3, <2>2, <2>3, WaitPlaced
  <2>5. k \in 0 .. Len(items)
    BY ONLY <1>2 DEF Here
  <2>. QED
    BY ONLY <1>8, <2>1, <2>4, <2>5 DEF Placed
<1>10. CASE n + 3 =< B
  <2>1. pos = n /\ pos < B /\ ~(B < 3)
    BY ONLY <1>7, <1>10, n \in Nat, B \in Nat
  <2>2. q = [Erased(Emit(p, Len(t)), Len(t) + Len(CrlfDashBoundary)) EXCEPT !.state = 4]
    BY ONLY <1>5, <1>6, <1>8, <2>1
  <2>3. Ended(p, t, q)
    BY ONLY <1>5, <1>10, <2>2 DEF Ended
  <2>4. ContentRead(S, p, fut, k, item, r, g, t)
    BY ONLY <1>1, g \in Texts(S), t \in Texts(S) DEF ContentRead
  <2>5. q \in Parsers(S, N) /\ Placed(q, q.buf ## fut, items, rest)
    BY ONLY <2>3, <2>4, ContentEnds, AtContent(S, N, items, rest, p, fut, k, item, r)
  <2>. QED
    BY ONLY <1>8, <2>5
<1>11. CASE ~(n + 3 =< B) /\ ~(B < 3)
  <2>1. PICK m \in Nat : m = B - 3 /\ m + 3 = B /\ m =< n /\ ~(pos < B)
    BY ONLY <1>7, <1>11, n \in Nat, B \in Nat
  <2>2. q = Waiting(Erased(Emit(p, m), m))
    BY ONLY <1>6, <1>8, <1>11, <2>1
  <2>3. Continued(p, t, m, q) /\ m \in Nat
    BY ONLY <1>5, <2>1, <2>2 DEF Continued
  <2>4. ContentRead(S, p, fut, k, item, r, g, t)
    BY ONLY <1>1, g \in Texts(S), t \in Texts(S) DEF ContentRead
  <2>5. q \in Parsers(S, N) /\ Placed(q, q.buf ## fut, items, rest)
    BY ONLY <2>3, <2>4, ContentGoesOn, AtContent(S, N, items, rest, p, fut, k, item, r)
  <2>. QED
    BY ONLY <1>8, <2>5
<1>. QED
  BY ONLY <1>9, <1>10, <1>11

-----------------------------------------------------------------------------
(* Behind a delimiter.                                                     *)

\* The first tokens of what has come, when what has come and is to come is known.
LEMMA FirstToken ==
    ASSUME NEW S, NEW buf, buf \in Texts(S), NEW fut, fut \in Texts(S), buf # <<>>,
           NEW a, a \in S, NEW x, x \in Texts(S), Comes(buf, fut, <<a>>, x)
    PROVE  buf[1] = a /\ 1 \in 0 .. Len(buf) /\ Drop(buf, 1) \in Texts(S) /\ Drop(buf, 1) ## fut = x
<1>1. PICK s : s = <<a>>
  OBVIOUS
<1>2. s \in Texts(S) /\ Len(s) = 1 /\ s[1] = a
  BY ONLY <1>1, a \in S DEF Texts
<1>3. PICK len \in Nat : len = Len(buf) /\ len # 0
  BY ONLY TextFacts, buf \in Texts(S), buf # <<>>
<1>4. buf ## fut = s ## x
  BY ONLY <1>1, Comes(buf, fut, <<a>>, x) DEF Comes
<1>5. /\ \A i \in 1 .. Len(s) : i =< Len(buf) => buf[i] = s[i]
      /\ Len(s) =< Len(buf) => Drop(buf, Len(s)) ## fut = x
  BY ONLY <1>2, <1>4, ShiftText, buf \in Texts(S), fut \in Texts(S), x \in Texts(S)
<1>6. 1 \in 0 .. Len(buf) /\ 1 =< Len(buf) /\ 1 \in 1 .. 1
  BY ONLY <1>3
<1>7. Drop(buf, 1) \in Texts(S)
  BY ONLY <1>6, CutText, buf \in Texts(S)
<1>. QED
  BY ONLY <1>2, <1>5, <1>6, <1>7

\* Two tokens, put together of one and one.
LEMMA TwoTokens ==
    ASSUME NEW S, NEW a, a \in S, NEW b, b \in S
    PROVE  <<a>> ## <<b>> = <<a, b>>
<1>1. PICK s \in Seq(S), t \in Seq(S), u \in Seq(S) : s = <<a>> /\ t = <<b>> /\ u = <<a, b>>
  <2>1. <<a>> \in Seq(S)
    OBVIOUS
  <2>2. <<b>> \in Seq(S)
    OBVIOUS
  <2>3. <<a, b>> \in Seq(S)
    OBVIOUS
  <2>. QED
    BY <2>1, <2>2, <2>3, Zenon
<1>2. Len(s) = 1 /\ Len(t) = 1 /\ Len(u) = 2 /\ s[1] = a /\ t[1] = b /\ u[1] = a /\ u[2] = b
  BY <1>1
<1>3. /\ s \o t \in Seq(S) /\ Len(s \o t) = 2
      /\ \A i \in 1 .. 2 : (s \o t)[i] = IF i =< 1 THEN s[i] ELSE t[i - 1]
  BY <1>2, ConcatProperties
<1>4. \A i \in 1 .. 2 : (s \o t)[i] = u[i]
  BY <1>2, <1>3
<1>5. s \o t = u
  BY <1>2, <1>3, <1>4, SeqEqual
<1>. QED
  BY <1>1, <1>5 DEF ##

\* Between two entries, or behind the last.
LEMMA BoundaryPlaced ==
    ASSUME NEW S, NEW N, NEW items, NEW rest, Setting(S, N, items, rest),
           NEW p, NEW fut, Going(S, N, p, fut),
           NEW k, k \in 0 .. Len(items), WholeParts(p.parts, items, k),
           AtBoundary(p, p.buf ## fut, items, rest, k)
    PROVE  /\ AfterBoundary(p) \in Parsers(S, N)
           /\ Placed(AfterBoundary(p), AfterBoundary(p).buf ## fut, items, rest)
<1>1. /\ p \in Parsers(S, N) /\ fut \in Texts(S) /\ p.buf # <<>> /\ p.run = "on"
      /\ p.buf \in Texts(S) /\ p.parts \in Seq(Items(S, N)) /\ p.file \in Files(N)
      /\ p.valid \in BOOLEAN
  BY ONLY Going(S, N, p, fut), ParserFields DEF Going
<1>2. p.state = 4 /\ ~p.valid /\ Len(p.parts) = k /\ p.buf ## fut = rest[k]
  BY DEF AtBoundary
<1>3. /\ Delimiters \subseteq S /\ items \in Seq(Items(S, N)) /\ rest[Len(items)] = <<Dashes, CRLF>>
  BY DEF Setting, FormOver, IsRest
<1>4. CRLF \in S /\ Dashes \in S
  BY ONLY <1>3 DEF Delimiters
<1>5. PICK len \in Nat : len = Len(items)
  BY ONLY <1>3, LenProperties
<1>6. PICK buf \in Texts(S) : buf = p.buf /\ buf # <<>>
  BY ONLY <1>1
<1>7. PICK q : q = AfterBoundary(p)
  OBVIOUS
<1>8. CASE k < Len(items)
  <2>1. PICK item, r : item = items[k + 1] /\ r = rest[k + 1]
    OBVIOUS
  <2>2. Here(items, rest, k, item, r)
    BY ONLY <1>8, <2>1, k \in 0 .. Len(items) DEF Here
  <2>3. /\ rest[k] = <<CRLF>> ## (HeadLines(item) ## Behind(item, r))
        /\ HeadLines(item) \in Texts(S) /\ Behind(item, r) \in Texts(S)
    <3>1. HeadLines(item) \in Texts(S) /\ Behind(item, r) \in Texts(S)
      BY ONLY <2>2, ItemFacts, Setting(S, N, items, rest)
    <3>2. rest[k] = <<CRLF>> ## (HeadLines(item) ## Behind(item, r))
      <4>1. \A i \in 1 .. Len(items) :
               rest[i - 1] = <<CRLF>> ## (HeadLines(items[i]) ## Behind(items[i], rest[i]))
        BY ONLY Setting(S, N, items, rest) DEF Setting, IsRest
      <4>2. PICK j \in 1 .. Len(items) : j = k + 1 /\ j - 1 = k
        BY ONLY <1>5, <1>8, k \in 0 .. Len(items)
      <4>. QED
        BY ONLY <2>1, <4>1, <4>2
    <3>. QED
      BY ONLY <3>1, <3>2
  <2>4. PICK x \in Texts(S) : x = HeadLines(item) ## Behind(item, r)
    BY ONLY <2>3, TextFacts
  <2>5. Comes(buf, fut, <<CRLF>>, x)
    BY ONLY <1>2, <1>6, <2>3, <2>4 DEF Comes
  <2>6. /\ buf[1] = CRLF /\ 1 \in 0 .. Len(buf)
        /\ Drop(buf, 1) \in Texts(S) /\ Drop(buf, 1) ## fut = x
    BY ONLY <1>1, <1>4, <1>6, <2>5, FirstToken, buf \in Texts(S), x \in Texts(S)
  <2>7. PICK b \in Texts(S) : b = Drop(buf, 1) /\ b ## fut = x
    BY ONLY <2>6
  <2>8. PICK e : e = Erased(p, 1) /\ Became(e, b, p.state, p.valid, p.file, p.parts, p.run)
    BY ONLY <1>1, <1>6, <2>6, <2>7, ErasedDoes
  <2>9. q = [e EXCEPT !.state = 1]
    BY ONLY <1>6, <1>7, <2>6, <2>8 DEF AfterBoundary
  <2>10. Became(q, b, 1, p.valid, p.file, p.parts, p.run)
    BY ONLY <2>8, <2>9 DEF Became
  <2>11. /\ q \in Parsers(S, N) /\ q.buf = b /\ q.state = 1 /\ q.valid = p.valid
         /\ q.parts = p.parts /\ q.run = p.run
    <3>1. AreFields(S, N, b, 1, p.valid, p.file, p.parts, p.run)
      BY ONLY <1>1, <2>7 DEF AreFields
    <3>. QED
      BY ONLY <2>10, <3>1, BecameParser
  <2>12. BeforeEntry(q, x, items, rest, k)
    BY ONLY <1>2, <1>8, <2>1, <2>4, <2>11 DEF BeforeEntry
  <2>13. PlacedAt(q, x, items, rest, k)
    BY ONLY <1>1, <2>11, <2>12, WholeParts(p.parts, items, k) DEF PlacedAt
  <2>. QED
    BY ONLY <1>7, <2>7, <2>11, <2>13, k \in 0 .. Len(items) DEF Placed
<1>9. CASE ~(k < Len(items))
  <2>1. k = Len(items)
    BY ONLY <1>5, <1>9, k \in 0 .. Len(items)
  <2>2. PICK d \in Texts(S), c \in Texts(S) :
            d = <<Dashes>> /\ c = <<CRLF>> /\ Len(c) = 1 /\ d ## c = <<Dashes, CRLF>>
    <3>1. <<Dashes>> \in Texts(S) /\ <<CRLF>> \in Texts(S) /\ Len(<<CRLF>>) = 1
      BY ONLY <1>4 DEF Texts
    <3>2. <<Dashes>> ## <<CRLF>> = <<Dashes, CRLF>>
      BY ONLY <1>4, TwoTokens
    <3>. QED
      BY ONLY <3>1, <3>2
  <2>3. Comes(buf, fut, <<Dashes>>, c)
    BY ONLY <1>2, <1>3, <1>6, <2>1, <2>2 DEF Comes
  <2>4. /\ buf[1] = Dashes /\ 1 \in 0 .. Len(buf)
        /\ Drop(buf, 1) \in Texts(S) /\ Drop(buf, 1) ## fut = c
    BY ONLY <1>1, <1>4, <1>6, <2>3, FirstToken, buf \in Texts(S), c \in Texts(S)
  <2>5. PICK b \in Texts(S) : b ## fut = c
    BY ONLY <2>4
  <2>6. fut \in {<<>>, <<CRLF>>}
    <3>1. CASE b = <<>>
      <4>1. fut = c
        BY ONLY <1>1, <2>5, <3>1, TextFacts
      <4>. QED
        BY ONLY <2>2, <4>1
    <3>2. CASE b # <<>>
      <4>1. Len(b) \in Nat /\ Len(b) # 0 /\ Len(fut) \in Nat
        BY ONLY <1>1, <3>2, TextFacts, b \in Texts(S)
      <4>2. Len(b ## fut) = Len(b) + Len(fut)
        BY ONLY <1>1, TextFacts, b \in Texts(S)
      <4>3. Len(fut) = 0
        BY ONLY <2>2, <2>5, <4>1, <4>2
      <4>4. fut = <<>>
        BY ONLY <1>1, <4>3, TextFacts
      <4>. QED
        BY ONLY <4>4
    <3>. QED
      BY ONLY <3>1, <3>2
  <2>7. q = [p EXCEPT !.valid = TRUE, !.buf = <<>>]
    BY ONLY <1>6, <1>7, <2>4, TokensAssumption DEF AfterBoundary
  <2>8. PICK none \in Texts(S), yes \in BOOLEAN : none = <<>> /\ yes = TRUE
    BY ONLY TextFacts
  <2>9. Became(q, none, p.state, yes, p.file, p.parts, p.run)
    <3>1. q = [p EXCEPT !.valid = yes, !.buf = none]
      BY ONLY <2>7, <2>8
    <3>2. p = [buf |-> p.buf, state |-> p.state, valid |-> p.valid, file |-> p.file,
               parts |-> p.parts, run |-> p.run]
      BY ONLY <1>1, ParserFields
    <3>. QED
      BY ONLY <3>1, <3>2 DEF Became
  <2>10. /\ q \in Parsers(S, N) /\ q.buf = none /\ q.state = p.state /\ q.valid = yes
         /\ q.parts = p.parts /\ q.run = p.run
    <3>1. AreFields(S, N, none, p.state, yes, p.file, p.parts, p.run)
      BY ONLY <1>1, <1>2, none \in Texts(S), yes \in BOOLEAN DEF AreFields
    <3>. QED
      BY ONLY <2>9, <3>1, BecameParser
  <2>11. none ## fut = fut
    BY ONLY <1>1, <2>8, TextFacts
  <2>12. AtEnd(q, fut, items, k)
    BY ONLY <1>2, <2>1, <2>6, <2>8, <2>10 DEF AtEnd
  <2>13. PlacedAt(q, fut, items, rest, k)
    BY ONLY <1>1, <2>10, <2>12, WholeParts(p.parts, items, k) DEF PlacedAt
  <2>. QED
    BY ONLY <1>7, <2>10, <2>11, <2>13, k \in 0 .. Len(items) DEF Placed
<1>. QED
  BY ONLY <1>8, <1>9

\* Behind the end of the form: the line break that ends it is taken off.
LEMMA EndPlaced ==
    ASSUME NEW S, NEW N, NEW items, NEW rest, Setting(S, N, items, rest),
           NEW p, NEW fut, Going(S, N, p, fut),
           NEW k, k \in 0 .. Len(items), WholeParts(p.parts, items, k),
           AtEnd(p, p.buf ## fut, items, k)
    PROVE  /\ p.state = 4
           /\ AfterBoundary(p) \in Parsers(S, N)
           /\ Placed(AfterBoundary(p), AfterBoundary(p).buf ## fut, items, rest)
<1>1. /\ p \in Parsers(S, N) /\ fut \in Texts(S) /\ p.buf # <<>> /\ p.run = "on"
      /\ p.buf \in Texts(S) /\ p.parts \in Seq(Items(S, N)) /\ p.file \in Files(N)
      /\ p.valid \in BOOLEAN
  BY ONLY Going(S, N, p, fut), ParserFields DEF Going
<1>2. PICK buf \in Texts(S) : buf = p.buf /\ buf # <<>>
  BY ONLY <1>1
<1>3. CRLF \in S
  BY DEF Setting, FormOver, Delimiters
<1>4. PICK R \in Texts(S) : R = buf ## fut /\ R # <<>>
  <2>1. /\ buf ## fut \in Texts(S) /\ Len(buf ## fut) = Len(buf) + Len(fut)
        /\ Len(buf) \in Nat /\ Len(buf) # 0 /\ Len(fut) \in Nat
    BY ONLY <1>1, <1>2, TextFacts, buf \in Texts(S)
  <2>2. Len(buf ## fut) # 0
    BY ONLY <2>1
  <2>3. \A s \in Texts(S) : Len(s) = 0 <=> s = <<>>
    BY ONLY TextFacts
  <2>. QED
    BY ONLY <2>1, <2>2, <2>3
<1>5. /\ k = Len(items) /\ p.valid /\ Len(p.parts) = k
      /\ p.state = 4 /\ R = <<CRLF>>
  BY ONLY <1>2, <1>4, AtEnd(p, p.buf ## fut, items, k) DEF AtEnd
<1>6. PICK none \in Texts(S) : none = <<>>
  BY ONLY TextFacts
<1>7. Comes(buf, fut, <<CRLF>>, none)
  <2>1. <<CRLF>> \in Texts(S)
    BY ONLY <1>3 DEF Texts
  <2>2. <<CRLF>> ## none = <<CRLF>>
    BY ONLY <1>6, <2>1, TextFacts
  <2>. QED
    BY ONLY <1>4, <1>5, <2>2 DEF Comes
<1>8. /\ buf[1] = CRLF /\ 1 \in 0 .. Len(buf)
      /\ Drop(buf, 1) \in Texts(S) /\ Drop(buf, 1) ## fut = none
  BY ONLY <1>1, <1>2, <1>3, <1>7, FirstToken, buf \in Texts(S), none \in Texts(S)
<1>9. PICK b \in Texts(S) : b = Drop(buf, 1) /\ b ## fut = none
  BY ONLY <1>8
<1>10. PICK e : e = Erased(p, 1) /\ Became(e, b, p.state, p.valid, p.file, p.parts, p.run)
  BY ONLY <1>1, <1>2, <1>8, <1>9, ErasedDoes
<1>11. PICK q : q = AfterBoundary(p) /\ q = [e EXCEPT !.state = 1]
  BY ONLY <1>2, <1>8, <1>10 DEF AfterBoundary
<1>12. Became(q, b, 1, p.valid, p.file, p.parts, p.run)
  BY ONLY <1>10, <1>11 DEF Became
<1>13. /\ q \in Parsers(S, N) /\ q.buf = b /\ q.state = 1 /\ q.valid = p.valid
       /\ q.parts = p.parts /\ q.run = p.run
  <2>1. AreFields(S, N, b, 1, p.valid, p.file, p.parts, p.run)
    BY ONLY <1>1, <1>9 DEF AreFields
  <2>. QED
    BY ONLY <1>12, <2>1, BecameParser
<1>14. AtEnd(q, none, items, k)
  BY ONLY <1>5, <1>6, <1>13 DEF AtEnd
<1>15. PlacedAt(q, none, items, rest, k)
  BY ONLY <1>1, <1>13, <1>14, WholeParts(p.parts, items, k) DEF PlacedAt
<1>. QED
  BY ONLY <1>5, <1>9, <1>11, <1>13, <1>15, k \in 0 .. Len(items) DEF Placed

-----------------------------------------------------------------------------
(* One turn of the parser, and its beginning.                              *)

\* One turn of the loop of parse, on a form that is being read.
LEMMA StepPlaced ==
    ASSUME NEW S, NEW N, NEW items, NEW rest, Setting(S, N, items, rest),
           NEW p, NEW fut, Going(S, N, p, fut), Placed(p, p.buf ## fut, items, rest)
    PROVE  /\ ParseStep(p) \in Parsers(S, N)
           /\ Placed(ParseStep(p), ParseStep(p).buf ## fut, items, rest)
<1>1. PICK R : R = p.buf ## fut
  OBVIOUS
<1>2. PICK k \in 0 .. Len(items) : PlacedAt(p, R, items, rest, k)
  BY <1>1 DEF Placed
<1>3. WholeParts(p.parts, items, k)
  BY ONLY <1>2 DEF PlacedAt
<1>4. PICK q : q = ParseStep(p)
  OBVIOUS
<1>5. /\ p.state = 1 => q = NewEntry(p)
      /\ p.state = 2 => q = HeaderLine(p)
      /\ p.state = 3 => q = Content(p)
      /\ p.state = 4 => q = AfterBoundary(p)
  <2>1. /\ p.state = 1 => p.state # 0 /\ p.state # 2 /\ p.state # 3 /\ p.state # 4
        /\ p.state = 2 => p.state # 0 /\ p.state # 1 /\ p.state # 3 /\ p.state # 4
        /\ p.state = 3 => p.state # 0 /\ p.state # 1 /\ p.state # 2 /\ p.state # 4
        /\ p.state = 4 => p.state # 0 /\ p.state # 1 /\ p.state # 2 /\ p.state # 3
    OBVIOUS
  <2>2. q = CASE p.state = 0 -> InitialBoundary(p)
              [] p.state = 1 -> NewEntry(p)
              [] p.state = 2 -> HeaderLine(p)
              [] p.state = 3 -> Content(p)
              [] p.state = 4 -> AfterBoundary(p)
    BY ONLY <1>4, Zenon DEF ParseStep
  <2>. QED
    BY ONLY <2>1, <2>2
<1>6. PICK item, r : item = items[k + 1] /\ r = rest[k + 1]
  OBVIOUS
<1>7. Placed(p, R, items, rest) /\ Going(S, N, p, fut) /\ Setting(S, N, items, rest)
  BY <1>1
<1>8. /\ p.valid \in BOOLEAN /\ p.run = "on"
  BY ONLY <1>7, ParserFields DEF Going
<1>9. CASE BeforeEntry(p, R, items, rest, k)
  <2>1. BeforeEntry(p, p.buf ## fut, items, rest, k) /\ p.state = 1
    BY ONLY <1>1, <1>9 DEF BeforeEntry
  <2>2. /\ NewEntry(p) \in Parsers(S, N)
        /\ Placed(NewEntry(p), NewEntry(p).buf ## fut, items, rest)
    BY ONLY <1>3, <1>7, <2>1, NewEntryPlaced, k \in 0 .. Len(items)
  <2>. QED
    BY ONLY <1>4, <1>5, <2>1, <2>2
<1>10. CASE InHeaders(p, R, items, rest, k)
  <2>1. /\ k < Len(items) /\ p.state = 2 /\ p.valid = FALSE /\ Len(p.parts) = k
        /\ LinesLeft(p.file, p.buf ## fut, item, Behind(item, r))
    BY ONLY <1>1, <1>6, <1>8, <1>10 DEF InHeaders
  <2>2. Here(items, rest, k, item, r)
    BY ONLY <1>6, <2>1, k \in 0 .. Len(items) DEF Here
  <2>3. AtLines(S, N, items, rest, p, fut, k, item, r)
    BY ONLY <1>3, <1>7, <2>1, <2>2 DEF AtLines
  <2>4. /\ HeaderLine(p) \in Parsers(S, N)
        /\ Placed(HeaderLine(p), HeaderLine(p).buf ## fut, items, rest)
    BY ONLY <2>3, HeadersPlaced
  <2>. QED
    BY ONLY <1>4, <1>5, <2>1, <2>4
<1>11. CASE InContent(p, R, items, rest, k)
  <2>1. k < Len(items) /\ p.state = 3 /\ InContent(p, p.buf ## fut, items, rest, k)
    BY ONLY <1>1, <1>11 DEF InContent
  <2>2. Here(items, rest, k, item, r)
    BY ONLY <1>6, <2>1, k \in 0 .. Len(items) DEF Here
  <2>3. AtContent(S, N, items, rest, p, fut, k, item, r)
    BY ONLY <1>3, <1>7, <2>1, <2>2 DEF AtContent
  <2>4. /\ Content(p) \in Parsers(S, N)
        /\ Placed(Content(p), Content(p).buf ## fut, items, rest)
    BY ONLY <2>3, ContentPlaced
  <2>. QED
    BY ONLY <1>4, <1>5, <2>1, <2>4
<1>12. CASE AtBoundary(p, R, items, rest, k)
  <2>1. AtBoundary(p, p.buf ## fut, items, rest, k) /\ p.state = 4
    BY ONLY <1>1, <1>12 DEF AtBoundary
  <2>2. /\ AfterBoundary(p) \in Parsers(S, N)
        /\ Placed(AfterBoundary(p), AfterBoundary(p).buf ## fut, items, rest)
    BY ONLY <1>3, <1>7, <2>1, BoundaryPlaced, k \in 0 .. Len(items)
  <2>. QED
    BY ONLY <1>4, <1>5, <2>1, <2>2
<1>13. CASE AtEnd(p, R, items, k)
  <2>1. AtEnd(p, p.buf ## fut, items, k)
    BY ONLY <1>1, <1>13
  <2>2. /\ p.state = 4
        /\ AfterBoundary(p) \in Parsers(S, N)
        /\ Placed(AfterBoundary(p), AfterBoundary(p).buf ## fut, items, rest)
    BY ONLY <1>3, <1>7, <2>1, EndPlaced, k \in 0 .. Len(items)
  <2>. QED
    BY ONLY <1>4, <1>5, <2>2
<1>. QED
  BY ONLY <1>2, <1>9, <1>10, <1>11, <1>12, <1>13 DEF PlacedAt

\* The form has not been begun: its first delimiter is the next to come.
AtStart(p, R, rest) ==
    /\ p.state = 0 /\ p.valid = FALSE /\ p.file = NoFile /\ p.parts = <<>> /\ p.run = "on"
    /\ R = <<Dashes, Boundary>> ## rest[0]

\* What the loop keeps: a parser that is somewhere in the form or, early in it,
\* at the start or waiting because it has missed it.
Missed(p) == p.state = 0 /\ p.run = "wait"
Kept(early, p, R, items, rest) ==
    \/ early /\ (AtStart(p, R, rest) \/ Missed(p))
    \/ Placed(p, R, items, rest)

\* Nothing is left of the buffer, and nothing is found: the parser waits.
LEMMA StartMissed ==
    ASSUME NEW S, NEW N, NEW p, p \in Parsers(S, N), p.state = 0,
           Find(p.buf, DashBoundaryCrlf) = Len(p.buf)
    PROVE  InitialBoundary(p) \in Parsers(S, N) /\ Missed(InitialBoundary(p))
<1>1. PICK buf \in Texts(S) : buf = p.buf
  BY ONLY ParserFields, p \in Parsers(S, N)
<1>2. PICK len \in 0 .. Len(buf) : len = Len(buf)
  BY ONLY TextFacts, buf \in Texts(S)
<1>3. PICK q : q = Erased(p, len)
  OBVIOUS
<1>4. Became(q, Drop(p.buf, len), p.state, p.valid, p.file, p.parts, p.run)
      /\ Drop(p.buf, len) \in Texts(S)
  BY ONLY <1>1, <1>3, ErasedDoes, p \in Parsers(S, N), len \in 0 .. Len(buf)
<1>5. /\ q \in Parsers(S, N) /\ q.buf = Drop(p.buf, len) /\ q.state = p.state
  <2>1. AreFields(S, N, Drop(p.buf, len), p.state, p.valid, p.file, p.parts, p.run)
    BY ONLY <1>4, ParserFields, p \in Parsers(S, N) DEF AreFields
  <2>. QED
    BY ONLY <1>4, <2>1, BecameParser
<1>6. Len(q.buf) = 0
  <2>1. Len(Drop(buf, len)) = Len(buf) - len /\ Len(buf) \in Nat
    BY ONLY CutText, TextFacts, buf \in Texts(S), len \in 0 .. Len(buf)
  <2>. QED
    BY ONLY <1>1, <1>2, <1>5, <2>1
<1>7. Len(DashBoundaryCrlf) = 3
  BY DEF DashBoundaryCrlf
<1>8. InitialBoundary(p) = Waiting(q)
  <2>1. q = Erased(p, Find(p.buf, DashBoundaryCrlf))
    BY ONLY <1>1, <1>2, <1>3, Find(p.buf, DashBoundaryCrlf) = Len(p.buf)
  <2>2. Len(q.buf) < Len(DashBoundaryCrlf)
    BY ONLY <1>6, <1>7
  <2>. QED
    BY ONLY <2>1, <2>2 DEF InitialBoundary
<1>. QED
  BY ONLY <1>5, <1>8, p.state = 0 DEF Waiting, Missed, Parsers

-----------------------------------------------------------------------------
(* The first delimiter.                                                    *)

\* Three tokens, put together of two and one.
LEMMA ThreeTokens ==
    ASSUME NEW S, NEW a, a \in S, NEW b, b \in S, NEW c, c \in S
    PROVE  <<a, b>> ## <<c>> = <<a, b, c>>
<1>1. PICK s \in Seq(S), t \in Seq(S), u \in Seq(S) : s = <<a, b>> /\ t = <<c>> /\ u = <<a, b, c>>
  <2>1. <<a, b>> \in Seq(S)
    OBVIOUS
  <2>2. <<c>> \in Seq(S)
    OBVIOUS
  <2>3. <<a, b, c>> \in Seq(S)
    OBVIOUS
  <2>. QED
    BY <2>1, <2>2, <2>3, Zenon
<1>2. /\ Len(s) = 2 /\ Len(t) = 1 /\ Len(u) = 3
      /\ s[1] = a /\ s[2] = b /\ t[1] = c /\ u[1] = a /\ u[2] = b /\ u[3] = c
  BY <1>1
<1>3. PICK w \in Seq(S) : w = s \o t /\ Len(w) = Len(s) + Len(t)
            /\ \A i \in 1 .. Len(s) + Len(t) : w[i] = IF i =< Len(s) THEN s[i] ELSE t[i - Len(s)]
  <2>1. /\ s \o t \in Seq(S) /\ Len(s \o t) = Len(s) + Len(t)
        /\ \A i \in 1 .. Len(s) + Len(t) :
             (s \o t)[i] = IF i =< Len(s) THEN s[i] ELSE t[i - Len(s)]
    BY ConcatProperties
  <2>. QED
    BY ONLY <2>1, Zenon
<1>4. Len(w) = 3 /\ w[1] = u[1] /\ w[2] = u[2] /\ w[3] = u[3]
  BY <1>2, <1>3
<1>5. \A i \in 1 .. 3 : w[i] = u[i]
  BY ONLY <1>4
<1>6. w = u
  BY <1>2, <1>4, <1>5, SeqEqual
<1>. QED
  BY <1>1, <1>3, <1>6 DEF ##

\* The first delimiter, element by element.
LEMMA FirstDelimiter ==
    ASSUME NEW S, Delimiters \subseteq S
    PROVE  /\ DashBoundaryCrlf \in Texts(S) /\ Len(DashBoundaryCrlf) = 3
           /\ DashBoundaryCrlf[1] = Dashes /\ DashBoundaryCrlf[2] = Boundary
           /\ DashBoundaryCrlf[3] = CRLF
           /\ <<Dashes, Boundary>> \in Texts(S)
           /\ <<Dashes, Boundary>> ## <<CRLF>> = DashBoundaryCrlf
<1>1. CRLF \in S /\ Dashes \in S /\ Boundary \in S
  BY DEF Delimiters
<1>2. <<Dashes, Boundary>> ## <<CRLF>> = DashBoundaryCrlf
  BY <1>1, ThreeTokens DEF DashBoundaryCrlf
<1>. QED
  BY <1>1, <1>2 DEF DashBoundaryCrlf, Texts

\* A form without entries has no delimiter with a line break behind it.
LEMMA NoEntryNotFound ==
    ASSUME NEW S, Delimiters \subseteq S, NEW buf, buf \in Texts(S), NEW fut, fut \in Texts(S),
           Comes(buf, fut, <<Dashes, Boundary>>, <<Dashes, CRLF>>)
    PROVE  Find(buf, DashBoundaryCrlf) = Len(buf)
<1>1. PICK d \in Seq(S) : /\ d = DashBoundaryCrlf /\ Len(d) = 3
                          /\ d[1] = Dashes /\ d[2] = Boundary /\ d[3] = CRLF
  BY FirstDelimiter DEF Texts
<1>2. CRLF \in S /\ Dashes \in S /\ Boundary \in S
  BY DEF Delimiters
<1>3. PICK s \in Seq(S), t \in Seq(S) : s = <<Dashes, Boundary>> /\ t = <<Dashes, CRLF>>
  <2>1. <<Dashes, Boundary>> \in Seq(S)
    BY ONLY <1>2
  <2>2. <<Dashes, CRLF>> \in Seq(S)
    BY ONLY <1>2
  <2>. QED
    BY ONLY <2>1, <2>2, Zenon
<1>4. Len(s) = 2 /\ Len(t) = 2 /\ s[1] = Dashes /\ s[2] = Boundary /\ t[1] = Dashes /\ t[2] = CRLF
  BY ONLY <1>3
<1>5. buf \in Seq(S) /\ fut \in Seq(S) /\ buf \o fut = s \o t
  BY ONLY <1>3, buf \in Texts(S), fut \in Texts(S),
     Comes(buf, fut, <<Dashes, Boundary>>, <<Dashes, CRLF>>) DEF Comes, Texts, ##
<1>6. PICK B \in Nat, F \in Nat : B = Len(buf) /\ F = Len(fut)
  BY ONLY <1>5, LenProperties
<1>7. /\ Len(buf \o fut) = B + F
      /\ \A i \in 1 .. B + F : (buf \o fut)[i] = IF i =< B THEN buf[i] ELSE fut[i - B]
  BY ONLY <1>5, <1>6, ConcatProperties
<1>8. /\ Len(s \o t) = Len(s) + Len(t)
      /\ \A i \in 1 .. Len(s) + Len(t) :
           (s \o t)[i] = IF i =< Len(s) THEN s[i] ELSE t[i - Len(s)]
  BY ONLY ConcatProperties, s \in Seq(S), t \in Seq(S)
<1>80. PICK w : w = s \o t
  OBVIOUS
<1>81. Len(w) = 4 /\ \A i \in 1 .. 4 : w[i] = IF i =< 2 THEN s[i] ELSE t[i - 2]
  BY ONLY <1>4, <1>8, <1>80
<1>82. w[2] = Boundary /\ w[3] = Dashes
  BY ONLY <1>4, <1>81
<1>83. Len(w) = B + F /\ \A i \in 1 .. B + F : w[i] = IF i =< B THEN buf[i] ELSE fut[i - B]
  BY ONLY <1>5, <1>7, <1>80
<1>9. /\ B + F = 4
      /\ 2 =< B => buf[2] = Boundary
      /\ 3 =< B => buf[3] = Dashes
  <2>1. B + F = 4
    BY ONLY <1>81, <1>83
  <2>2. 2 \in 1 .. B + F /\ 3 \in 1 .. B + F
    BY ONLY <2>1
  <2>. QED
    BY ONLY <1>82, <1>83, <2>1, <2>2
<1>10. ASSUME NEW i \in 0 .. B - 3 PROVE ~Stands(d, buf, i)
  <2>. SUFFICES ASSUME Stands(d, buf, i) PROVE FALSE
    OBVIOUS
  <2>1. buf[i + 1] = Dashes /\ buf[i + 2] = Boundary /\ buf[i + 3] = CRLF
    <3>1. 1 \in 1 .. 3 /\ 2 \in 1 .. 3 /\ 3 \in 1 .. 3
      OBVIOUS
    <3>. QED
      BY ONLY <1>1, <3>1, Stands(d, buf, i) DEF Stands
  <2>2. CASE i = 0
    <3>1. buf[3] = CRLF /\ 3 =< B
      BY ONLY <2>1, <2>2, i \in 0 .. B - 3, B \in Nat
    <3>. QED
      BY ONLY <1>9, <3>1, TokensAssumption
  <2>3. CASE i = 1
    <3>1. buf[2] = Dashes /\ 2 =< B
      BY ONLY <2>1, <2>3, i \in 0 .. B - 3, B \in Nat
    <3>. QED
      BY ONLY <1>9, <3>1, TokensAssumption
  <2>. QED
    BY ONLY <1>9, <2>2, <2>3, i \in 0 .. B - 3, B \in Nat, F \in Nat
<1>11. \A i \in 0 .. Len(buf) - Len(d) : ~Stands(d, buf, i)
  BY ONLY <1>1, <1>6, <1>10
<1>12. Find(buf, d) = Len(buf)
  BY ONLY <1>5, <1>11, FoundAt, d \in Seq(S)
<1>. QED
  BY ONLY <1>1, <1>12

\* Too little has come for the first delimiter.
LEMMA TooShort ==
    ASSUME NEW S, Delimiters \subseteq S, NEW buf, buf \in Texts(S), Len(buf) < 3
    PROVE  Find(buf, DashBoundaryCrlf) = Len(buf)
<1>1. PICK d \in Seq(S) : d = DashBoundaryCrlf /\ Len(d) = 3
  BY FirstDelimiter DEF Texts
<1>2. buf \in Seq(S)
  BY DEF Texts
<1>3. Len(buf) \in Nat
  BY <1>2, LenProperties
<1>4. 0 .. Len(buf) - Len(d) = {}
  BY ONLY <1>1, <1>3, Len(buf) < 3
<1>5. \A i \in 0 .. Len(buf) - Len(d) : ~Stands(d, buf, i)
  BY ONLY <1>4
<1>6. Find(buf, d) = Len(buf)
  BY ONLY <1>2, <1>5, FoundAt, d \in Seq(S)
<1>. QED
  BY ONLY <1>1, <1>6

\* The first delimiter is there.
LEMMA FirstFound ==
    ASSUME NEW S, Delimiters \subseteq S, NEW buf, buf \in Texts(S), NEW fut, fut \in Texts(S),
           NEW x, x \in Texts(S), Comes(buf, fut, DashBoundaryCrlf, x), ~(Len(buf) < 3)
    PROVE  /\ Find(buf, DashBoundaryCrlf) = 0
           /\ 3 \in 0 .. Len(buf) /\ Drop(buf, 3) \in Texts(S) /\ Drop(buf, 3) ## fut = x
<1>1. PICK d \in Texts(S) : d = DashBoundaryCrlf /\ Len(d) = 3
  BY FirstDelimiter
<1>2. PICK B \in Nat : B = Len(buf) /\ 3 =< B
  BY ONLY TextFacts, buf \in Texts(S), ~(Len(buf) < 3)
<1>3. buf ## fut = d ## x
  BY ONLY <1>1, Comes(buf, fut, DashBoundaryCrlf, x) DEF Comes
<1>4. /\ \A i \in 1 .. Len(d) : i =< Len(buf) => buf[i] = d[i]
      /\ Len(d) =< Len(buf) => Drop(buf, Len(d)) ## fut = x
  BY ONLY <1>3, ShiftText, buf \in Texts(S), fut \in Texts(S), d \in Texts(S), x \in Texts(S)
<1>5. Drop(buf, 3) ## fut = x /\ 3 \in 0 .. Len(buf)
  BY ONLY <1>1, <1>2, <1>4
<1>6. Drop(buf, 3) \in Texts(S)
  BY ONLY <1>5, CutText, buf \in Texts(S)
<1>7. Stands(d, buf, 0)
  <2>1. \A i \in 1 .. 3 : i =< B /\ 0 + i = i
    BY ONLY <1>2
  <2>. QED
    BY ONLY <1>1, <1>2, <1>4, <2>1 DEF Stands
<1>8. Find(buf, d) = 0
  <2>1. buf \in Seq(S) /\ d \in Seq(S)
    BY ONLY buf \in Texts(S), d \in Texts(S) DEF Texts
  <2>2. 0 \in 0 .. Len(buf) - Len(d) /\ \A i \in 0 .. 0 - 1 : ~Stands(d, buf, i)
    BY ONLY <1>1, <1>2
  <2>. QED
    BY ONLY <1>7, <2>1, <2>2, FoundAt
<1>. QED
  BY ONLY <1>1, <1>5, <1>6, <1>8

-----------------------------------------------------------------------------
(* The first delimiter taken, and every turn.                              *)

\* The start of the form, with its first delimiter there.
LEMMA StartTaken ==
    ASSUME NEW S, NEW N, NEW p, p \in Parsers(S, N), p.state = 0,
           NEW b, b \in Texts(S), b = Drop(p.buf, 3), 3 \in 0 .. Len(p.buf),
           Find(p.buf, DashBoundaryCrlf) = 0
    PROVE  Became(InitialBoundary(p), b, 1, p.valid, p.file, p.parts, p.run)
<1>1. PICK buf \in Texts(S) : buf = p.buf
  BY ONLY ParserFields, p \in Parsers(S, N)
<1>2. PICK len \in Nat : len = Len(buf) /\ 3 =< len /\ 0 \in 0 .. len
  BY ONLY <1>1, TextFacts, buf \in Texts(S), 3 \in 0 .. Len(p.buf)
<1>3. Drop(buf, 0) = buf
  <2>1. 0 + 1 = 1 /\ buf \in Seq(S)
    BY ONLY buf \in Texts(S) DEF Texts
  <2>2. SubSeq(buf, 1, Len(buf)) = buf
    BY ONLY <2>1, SubSeqFull
  <2>. QED
    BY ONLY <2>1, <2>2 DEF Drop
<1>4. PICK e : e = Erased(p, 0)
  OBVIOUS
<1>5. Became(e, buf, p.state, p.valid, p.file, p.parts, p.run)
  <2>1. 0 \in 0 .. Len(p.buf)
    BY ONLY <1>1, <1>2
  <2>2. Became(Erased(p, 0), Drop(p.buf, 0), p.state, p.valid, p.file, p.parts, p.run)
    BY ONLY <2>1, ErasedDoes, p \in Parsers(S, N)
  <2>. QED
    BY ONLY <1>1, <1>3, <1>4, <2>2
<1>6. /\ e \in Parsers(S, N) /\ e.buf = buf /\ e.state = p.state /\ e.valid = p.valid
      /\ e.file = p.file /\ e.parts = p.parts /\ e.run = p.run
  <2>1. AreFields(S, N, buf, p.state, p.valid, p.file, p.parts, p.run)
    BY ONLY ParserFields, p \in Parsers(S, N), buf \in Texts(S) DEF AreFields
  <2>. QED
    BY ONLY <1>5, <2>1, BecameParser
<1>7. Len(DashBoundaryCrlf) = 3
  BY DEF DashBoundaryCrlf
<1>8. PICK f : f = Erased(e, 3)
  OBVIOUS
<1>9. InitialBoundary(p) = [f EXCEPT !.state = 1]
  <2>1. e = Erased(p, Find(p.buf, DashBoundaryCrlf))
    BY ONLY <1>4, Find(p.buf, DashBoundaryCrlf) = 0
  <2>2. ~(Len(e.buf) < Len(DashBoundaryCrlf))
    BY ONLY <1>2, <1>6, <1>7
  <2>. QED
    BY ONLY <1>7, <1>8, <2>1, <2>2 DEF InitialBoundary
<1>10. Became(f, b, p.state, p.valid, p.file, p.parts, p.run)
  <2>1. 3 \in 0 .. Len(e.buf)
    BY ONLY <1>1, <1>6, 3 \in 0 .. Len(p.buf)
  <2>2. Became(Erased(e, 3), Drop(e.buf, 3), e.state, e.valid, e.file, e.parts, e.run)
    BY ONLY <1>6, <2>1, ErasedDoes
  <2>. QED
    BY ONLY <1>1, <1>6, <1>8, <2>2, b = Drop(p.buf, 3)
<1>. QED
  BY ONLY <1>9, <1>10 DEF Became

\* The first delimiter is taken, or has been missed.
LEMMA StartPlaced ==
    ASSUME NEW S, NEW N, NEW items, NEW rest, Setting(S, N, items, rest),
           NEW p, NEW fut, Going(S, N, p, fut), NEW early, early, AtStart(p, p.buf ## fut, rest)
    PROVE  /\ InitialBoundary(p) \in Parsers(S, N)
           /\ Kept(early, InitialBoundary(p), InitialBoundary(p).buf ## fut, items, rest)
<1>1. /\ p \in Parsers(S, N) /\ fut \in Texts(S) /\ p.run = "on" /\ p.buf \in Texts(S)
      /\ p.parts \in Seq(Items(S, N)) /\ p.file \in Files(N) /\ p.valid \in BOOLEAN
  BY ONLY Going(S, N, p, fut), ParserFields DEF Going
<1>2. /\ p.state = 0 /\ p.valid = FALSE /\ p.parts = <<>>
      /\ p.buf ## fut = <<Dashes, Boundary>> ## rest[0]
  BY DEF AtStart
<1>3. /\ Delimiters \subseteq S /\ items \in Seq(Items(S, N)) /\ rest[Len(items)] = <<Dashes, CRLF>>
  BY DEF Setting, FormOver, IsRest
<1>4. PICK len \in Nat : len = Len(items)
  BY ONLY <1>3, LenProperties
<1>5. PICK buf \in Texts(S) : buf = p.buf
  BY ONLY <1>1
<1>6. PICK q : q = InitialBoundary(p)
  OBVIOUS
<1>7. ASSUME Find(buf, DashBoundaryCrlf) = Len(buf)
      PROVE  q \in Parsers(S, N) /\ Kept(early, q, q.buf ## fut, items, rest)
  <2>1. q \in Parsers(S, N) /\ Missed(q)
    BY ONLY <1>1, <1>2, <1>5, <1>6, <1>7, StartMissed
  <2>. QED
    BY ONLY <2>1, early DEF Kept
<1>8. CASE Len(buf) < 3
  BY ONLY <1>3, <1>6, <1>7, <1>8, TooShort, buf \in Texts(S)
<1>9. CASE len = 0
  <2>1. Comes(buf, fut, <<Dashes, Boundary>>, <<Dashes, CRLF>>)
    BY ONLY <1>2, <1>3, <1>4, <1>5, <1>9 DEF Comes
  <2>2. Find(buf, DashBoundaryCrlf) = Len(buf)
    BY ONLY <1>1, <1>3, <2>1, NoEntryNotFound, buf \in Texts(S)
  <2>. QED
    BY ONLY <1>6, <1>7, <2>2
<1>10. CASE len # 0 /\ ~(Len(buf) < 3)
  <2>1. PICK k \in 0 .. Len(items) : k = 0 /\ k < Len(items)
    BY ONLY <1>4, <1>10
  <2>2. PICK item, r : item = items[k + 1] /\ r = rest[k + 1]
    OBVIOUS
  <2>3. Here(items, rest, k, item, r)
    BY ONLY <2>1, <2>2 DEF Here
  <2>4. /\ HeadLines(item) \in Texts(S) /\ Behind(item, r) \in Texts(S) /\ <<CRLF>> \in Texts(S)
    BY ONLY <2>3, ItemFacts, Setting(S, N, items, rest)
  <2>5. rest[0] = <<CRLF>> ## (HeadLines(item) ## Behind(item, r))
    <3>1. \A i \in 1 .. Len(items) :
             rest[i - 1] = <<CRLF>> ## (HeadLines(items[i]) ## Behind(items[i], rest[i]))
      BY ONLY Setting(S, N, items, rest) DEF Setting, IsRest
    <3>2. PICK j \in 1 .. Len(items) : j = k + 1 /\ j - 1 = 0
      BY ONLY <1>4, <2>1
    <3>. QED
      BY ONLY <2>2, <3>1, <3>2
  <2>6. PICK x \in Texts(S) : x = HeadLines(item) ## Behind(item, r)
    BY ONLY <2>4, TextFacts
  <2>7. Comes(buf, fut, DashBoundaryCrlf, x)
    <3>1. PICK a \in Texts(S), c \in Texts(S) :
             a = <<Dashes, Boundary>> /\ c = <<CRLF>> /\ a ## c = DashBoundaryCrlf
      BY ONLY <1>3, <2>4, FirstDelimiter
    <3>2. (a ## c) ## x = a ## (c ## x)
      BY ONLY TextFacts, a \in Texts(S), c \in Texts(S), x \in Texts(S)
    <3>. QED
      BY ONLY <1>2, <1>5, <2>5, <2>6, <3>1, <3>2 DEF Comes
  <2>8. /\ Find(buf, DashBoundaryCrlf) = 0 /\ 3 \in 0 .. Len(buf)
        /\ Drop(buf, 3) \in Texts(S) /\ Drop(buf, 3) ## fut = x
    BY ONLY <1>1, <1>3, <1>10, <2>7, FirstFound, buf \in Texts(S), x \in Texts(S)
  <2>9. PICK b \in Texts(S) : b = Drop(buf, 3) /\ b ## fut = x
    BY ONLY <2>8
  <2>10. Became(q, b, 1, p.valid, p.file, p.parts, p.run)
    BY ONLY <1>1, <1>2, <1>5, <1>6, <2>8, <2>9, StartTaken
  <2>11. /\ q \in Parsers(S, N) /\ q.buf = b /\ q.state = 1 /\ q.valid = p.valid
         /\ q.parts = p.parts /\ q.run = p.run
    <3>1. AreFields(S, N, b, 1, p.valid, p.file, p.parts, p.run)
      BY ONLY <1>1, <2>9 DEF AreFields
    <3>. QED
      BY ONLY <2>10, <3>1, BecameParser
  <2>12. Len(q.parts) = k /\ WholeParts(q.parts, items, k)
    <3>1. Len(q.parts) = 0
      BY ONLY <1>2, <2>11, EmptySeq
    <3>. QED
      BY ONLY <2>1, <3>1 DEF WholeParts
  <2>13. ~q.valid
    BY ONLY <1>2, <2>11
  <2>14. BeforeEntry(q, x, items, rest, k)
    BY ONLY <2>1, <2>2, <2>6, <2>11, <2>12, <2>13 DEF BeforeEntry
  <2>15. PlacedAt(q, x, items, rest, k)
    BY ONLY <1>1, <2>11, <2>12, <2>14 DEF PlacedAt
  <2>. QED
    BY ONLY <1>6, <2>9, <2>11, <2>15, k \in 0 .. Len(items) DEF Kept, Placed
<1>. QED
  BY ONLY <1>4, <1>6, <1>7, <1>8, <1>9, <1>10

\* A turn of the loop, wherever the parser is.
LEMMA TurnKept ==
    ASSUME NEW S, NEW N, NEW items, NEW rest, Setting(S, N, items, rest),
           NEW p, NEW fut, Going(S, N, p, fut), NEW early, Kept(early, p, p.buf ## fut, items, rest)
    PROVE  /\ ParseStep(p) \in Parsers(S, N)
           /\ Kept(early, ParseStep(p), ParseStep(p).buf ## fut, items, rest)
<1>1. p.run = "on"
  BY DEF Going
<1>2. ~Missed(p)
  BY ONLY <1>1 DEF Missed
<1>3. CASE early /\ AtStart(p, p.buf ## fut, rest)
  <2>1. p.state = 0
    BY <1>3 DEF AtStart
  <2>2. ParseStep(p) = InitialBoundary(p)
    BY ONLY <2>1 DEF ParseStep
  <2>. QED
    BY <1>3, <2>2, StartPlaced
<1>4. CASE Placed(p, p.buf ## fut, items, rest)
  BY <1>4, StepPlaced DEF Kept
<1>. QED
  BY ONLY <1>2, <1>3, <1>4, Kept(early, p, p.buf ## fut, items, rest) DEF Kept

-----------------------------------------------------------------------------
(* The loop of parse, and a whole call.                                    *)

Turn(q) == IF q.buf = <<>> \/ q.run # "on" THEN q ELSE ParseStep(q)

\* Where the loop of parse can be after so many turns.
Turns(p, n, f) == f = [turns \in 0 .. n |-> IF turns = 0 THEN {p} ELSE {Turn(q) : q \in f[turns - 1]}]

\* The function that the loop of parse is defined by exists.
LEMMA TurnsExist ==
    ASSUME NEW X, NEW p \in X, \A q \in X : Turn(q) \in X, NEW n \in Nat
    PROVE  \E f : Turns(p, n, f)
<1>. DEFINE V == SUBSET X
            step == [at \in (1 .. n) \X V |-> {Turn(q) : q \in at[2]}]
<1>1. \A at \in (1 .. n) \X V : {Turn(q) : q \in at[2]} \in V
  <2>. SUFFICES ASSUME NEW at \in (1 .. n) \X V PROVE {Turn(q) : q \in at[2]} \subseteq X
    OBVIOUS
  <2>1. at[2] \subseteq X
    OBVIOUS
  <2>. QED
    BY <2>1
<1>2. step \in [(1 .. n) \X V -> V]
  <2>. HIDE DEF V
  <2>. QED
    BY <1>1
<1>3. \A i \in 1 .. n, s \in V : step[<<i, s>>] = {Turn(q) : q \in s}
  <2>. HIDE DEF V
  <2>. QED
    OBVIOUS
<1>4. {p} \in V
  OBVIOUS
<1>. HIDE DEF step, V
<1>5. PICK f \in [0 .. n -> V] : Steps({p}, step, n, f)
  <2>1. n \in 0 .. n
    OBVIOUS
  <2>. QED
    BY ONLY <1>2, <1>4, <2>1, StepsExist, n \in Nat
<1>6. f[0] = {p} /\ \A i \in 1 .. n : f[i] = step[<<i, f[i - 1]>>]
  BY ONLY <1>5, Zenon DEF Steps
<1>7. ASSUME NEW i \in 0 .. n
      PROVE  f[i] = IF i = 0 THEN {p} ELSE {Turn(q) : q \in f[i - 1]}
  <2>1. CASE i = 0
    BY ONLY <1>6, <2>1
  <2>2. CASE i # 0
    <3>1. i \in 1 .. n /\ i - 1 \in 0 .. n
      BY ONLY <2>2, i \in 0 .. n, n \in Nat
    <3>2. f[i - 1] \in V
      BY ONLY <3>1, f \in [0 .. n -> V]
    <3>3. f[i] = {Turn(q) : q \in f[i - 1]}
      BY ONLY <1>3, <1>6, <3>1, <3>2
    <3>. QED
      BY ONLY <2>2, <3>3
  <2>. QED
    BY ONLY <2>1, <2>2
<1>8. f = [i \in 0 .. n |-> f[i]]
  BY ONLY f \in [0 .. n -> V]
<1>9. [i \in 0 .. n |-> f[i]]
        = [i \in 0 .. n |-> IF i = 0 THEN {p} ELSE {Turn(q) : q \in f[i - 1]}]
  BY ONLY <1>7, Zenon
<1>. QED
  BY ONLY <1>8, <1>9, Zenon DEF Turns

\* The loop of parse keeps what each turn keeps.
LEMMA LoopKeeps ==
    ASSUME NEW X, NEW p \in X, \A q \in X : Turn(q) \in X, NEW n \in Nat
    PROVE  ParseLoop(p, n) \in X
<1>. DEFINE after == CHOOSE f : Turns(p, n, f)
<1>1. \E f : Turns(p, n, f)
  BY ONLY TurnsExist, n \in Nat, p \in X, \A q \in X : Turn(q) \in X
<1>2. Turns(p, n, after)
  BY ONLY <1>1, Zenon
<1>3. ParseLoop(p, n) = CHOOSE q \in after[n] : TRUE
  BY Zenon DEF ParseLoop, Turns, Turn
<1>. HIDE DEF after
<1>4. \A i \in 0 .. n : after[i] = IF i = 0 THEN {p} ELSE {Turn(q) : q \in after[i - 1]}
  BY ONLY <1>2, Zenon DEF Turns
<1>. DEFINE At == {i \in Nat : i \in 0 .. n => \E q \in X : after[i] = {q}}
<1>5. 0 \in At
  <2>1. 0 \in 0 .. n
    OBVIOUS
  <2>2. after[0] = {p}
    BY ONLY <1>4, <2>1
  <2>. QED
    BY ONLY <2>2, p \in X
<1>6. ASSUME NEW i \in Nat, i \in At PROVE i + 1 \in At
  <2>. SUFFICES ASSUME i + 1 \in 0 .. n PROVE \E q \in X : after[i + 1] = {q}
    OBVIOUS
  <2>1. i \in 0 .. n /\ i + 1 # 0 /\ (i + 1) - 1 = i
    OBVIOUS
  <2>2. PICK q \in X : after[i] = {q}
    BY <1>6, <2>1
  <2>3. after[i + 1] = {Turn(r) : r \in after[i]}
    BY ONLY <1>4, <2>1, i + 1 \in 0 .. n
  <2>4. after[i + 1] = {Turn(q)}
    BY ONLY <2>2, <2>3
  <2>5. Turn(q) \in X
    BY ONLY \A r \in X : Turn(r) \in X, q \in X
  <2>. QED
    BY ONLY <2>4, <2>5
<1>. HIDE DEF At
<1>7. Nat \subseteq At
  BY ONLY <1>5, <1>6, Induction
<1>8. n \in 0 .. n /\ n \in At
  BY <1>7
<1>9. PICK q \in X : after[n] = {q}
  BY ONLY <1>8 DEF At
<1>10. (CHOOSE r \in after[n] : TRUE) = q
  BY ONLY <1>9, Zenon
<1>. QED
  BY ONLY <1>3, <1>10, q \in X

\* The parser with the next piece, as the loop finds it.
Fed(p, b) == [p EXCEPT !.buf = b, !.run = "on"]

\* A whole call of parse.
LEMMA ParseKept ==
    ASSUME NEW S, NEW N, NEW items, NEW rest, Setting(S, N, items, rest),
           NEW p, p \in Parsers(S, N), NEW piece, piece \in Texts(S), NEW fut, fut \in Texts(S),
           NEW b, b = p.buf ## piece, NEW early, Kept(early, Fed(p, b), b ## fut, items, rest)
    PROVE  /\ Parse(p, piece) \in Parsers(S, N)
           /\ Kept(early, Parse(p, piece), Parse(p, piece).buf ## fut, items, rest)
<1>. DEFINE X == {q \in Parsers(S, N) : Kept(early, q, q.buf ## fut, items, rest)}
<1>1. b \in Texts(S)
  <2>1. PICK buf \in Texts(S) : buf = p.buf
    BY ONLY ParserFields, p \in Parsers(S, N)
  <2>. QED
    BY ONLY <2>1, TextFacts, b = p.buf ## piece, piece \in Texts(S)
<1>2. PICK fed : fed = Fed(p, b)
  OBVIOUS
<1>3. fed \in Parsers(S, N) /\ fed.buf = b
  <2>1. PICK on \in {"on", "wait", "refuse"} : on = "on"
    OBVIOUS
  <2>2. Became(fed, b, p.state, p.valid, p.file, p.parts, on)
    <3>1. fed = [p EXCEPT !.buf = b, !.run = on]
      BY ONLY <1>2, <2>1 DEF Fed
    <3>2. p = [buf |-> p.buf, state |-> p.state, valid |-> p.valid, file |-> p.file,
               parts |-> p.parts, run |-> p.run]
      BY ONLY ParserFields, p \in Parsers(S, N)
    <3>. QED
      BY ONLY <3>1, <3>2 DEF Became
  <2>3. AreFields(S, N, b, p.state, p.valid, p.file, p.parts, on)
    BY ONLY <1>1, ParserFields, p \in Parsers(S, N), on \in {"on", "wait", "refuse"} DEF AreFields
  <2>. QED
    BY ONLY <2>2, <2>3, BecameParser
<1>4. fed \in X
  BY ONLY <1>2, <1>3, Kept(early, Fed(p, b), b ## fut, items, rest)
<1>5. ASSUME NEW q \in X PROVE Turn(q) \in X
  <2>1. q \in Parsers(S, N) /\ Kept(early, q, q.buf ## fut, items, rest)
    OBVIOUS
  <2>2. CASE q.buf = <<>> \/ q.run # "on"
    <3>1. Turn(q) = q
      BY ONLY <2>2, Zenon DEF Turn
    <3>. QED
      BY ONLY <3>1, q \in X
  <2>3. CASE ~(q.buf = <<>> \/ q.run # "on")
    <3>1. Turn(q) = ParseStep(q)
      BY ONLY <2>3, Zenon DEF Turn
    <3>2. Going(S, N, q, fut)
      BY ONLY <2>1, <2>3, fut \in Texts(S) DEF Going
    <3>3. /\ ParseStep(q) \in Parsers(S, N)
          /\ Kept(early, ParseStep(q), ParseStep(q).buf ## fut, items, rest)
      BY ONLY <2>1, <3>2, TurnKept, Setting(S, N, items, rest)
    <3>. QED
      BY ONLY <3>1, <3>3
  <2>. QED
    BY ONLY <2>2, <2>3
<1>. HIDE DEF X
<1>6. PICK n \in Nat : n = 2 * Len(b) + 2
  <2>1. Len(b) \in Nat
    BY ONLY <1>1, TextFacts
  <2>2. 2 * Len(b) + 2 \in Nat
    BY ONLY <2>1
  <2>. QED
    BY ONLY <2>2, Zenon
<1>7. ParseLoop(fed, n) \in X
  BY ONLY <1>4, <1>5, LoopKeeps, n \in Nat
<1>8. Parse(p, piece) = ParseLoop(fed, n)
  BY ONLY <1>2, <1>6, b = p.buf ## piece DEF Parse, Fed, ##
<1>. QED
  BY ONLY <1>7, <1>8 DEF X

-----------------------------------------------------------------------------
(* What the writer writes of an item.                                      *)

\* Texts regrouped to the right.
LEMMA RightGrouped ==
    ASSUME NEW S, NEW s, s \in Texts(S), NEW t, t \in Texts(S), NEW u, u \in Texts(S)
    PROVE  (s ## t) ## u = s ## (t ## u) /\ s ## t \in Texts(S) /\ t ## u \in Texts(S)
  BY ONLY TextFacts, s \in Texts(S), t \in Texts(S), u \in Texts(S)

\* One item as it is written, with what comes behind it.
LEMMA WrittenItem ==
    ASSUME NEW S, NEW a, a \in Texts(S), NEW c, c \in Texts(S), NEW l, l \in Texts(S),
           NEW y, y \in Texts(S), NEW k, k \in Texts(S), NEW r, r \in Texts(S)
    PROVE  /\ ((((((a ## c) ## l) ## y) ## c) ## k) ## c) \in Texts(S)
           /\ ((((((a ## c) ## l) ## y) ## c) ## k) ## c) ## (a ## r)
                 = a ## (c ## ((l ## (y ## c)) ## (k ## ((c ## a) ## r))))
<1>1. PICK s2 \in Texts(S), ar \in Texts(S), yc \in Texts(S), ca \in Texts(S) :
         s2 = a ## c /\ ar = a ## r /\ yc = y ## c /\ ca = c ## a
  BY ONLY TextFacts, a \in Texts(S), c \in Texts(S), y \in Texts(S), r \in Texts(S)
<1>2. PICK s3 \in Texts(S), x \in Texts(S), lyc \in Texts(S) :
         s3 = s2 ## l /\ x = c ## ar /\ lyc = l ## yc
  BY ONLY TextFacts, s2 \in Texts(S), l \in Texts(S), c \in Texts(S), ar \in Texts(S), yc \in Texts(S)
<1>3. PICK s4 \in Texts(S), w \in Texts(S) : s4 = s3 ## y /\ w = k ## x
  BY ONLY TextFacts, s3 \in Texts(S), y \in Texts(S), k \in Texts(S), x \in Texts(S)
<1>4. PICK s5 \in Texts(S), z \in Texts(S) : s5 = s4 ## c /\ z = c ## w
  BY ONLY TextFacts, s4 \in Texts(S), c \in Texts(S), w \in Texts(S)
<1>5. PICK s6 \in Texts(S), yz \in Texts(S) : s6 = s5 ## k /\ yz = y ## z
  BY ONLY TextFacts, s5 \in Texts(S), k \in Texts(S), y \in Texts(S), z \in Texts(S)
<1>6. PICK s7 \in Texts(S), lyz \in Texts(S) : s7 = s6 ## c /\ lyz = l ## yz
  BY ONLY TextFacts, s6 \in Texts(S), c \in Texts(S), l \in Texts(S), yz \in Texts(S)
<1>7. s7 ## ar = s6 ## x
  BY ONLY <1>2, <1>6, RightGrouped, s6 \in Texts(S), c \in Texts(S), ar \in Texts(S)
<1>8. s6 ## x = s5 ## w
  BY ONLY <1>3, <1>5, RightGrouped, s5 \in Texts(S), k \in Texts(S), x \in Texts(S)
<1>9. s5 ## w = s4 ## z
  BY ONLY <1>4, RightGrouped, s4 \in Texts(S), c \in Texts(S), w \in Texts(S)
<1>10. s4 ## z = s3 ## yz
  BY ONLY <1>3, <1>5, RightGrouped, s3 \in Texts(S), y \in Texts(S), z \in Texts(S)
<1>11. s3 ## yz = s2 ## lyz
  BY ONLY <1>2, <1>6, RightGrouped, s2 \in Texts(S), l \in Texts(S), yz \in Texts(S)
<1>12. s2 ## lyz = a ## (c ## lyz)
  BY ONLY <1>1, RightGrouped, a \in Texts(S), c \in Texts(S), lyz \in Texts(S)
<1>13. lyc ## w = lyz
  <2>1. lyc ## w = l ## (yc ## w)
    BY ONLY <1>2, RightGrouped, l \in Texts(S), yc \in Texts(S), w \in Texts(S)
  <2>2. yc ## w = yz
    BY ONLY <1>1, <1>4, <1>5, RightGrouped, y \in Texts(S), c \in Texts(S), w \in Texts(S)
  <2>. QED
    BY ONLY <1>6, <2>1, <2>2
<1>14. ca ## r = x
  BY ONLY <1>1, <1>2, RightGrouped, c \in Texts(S), a \in Texts(S), r \in Texts(S)
<1>15. s7 = (((((a ## c) ## l) ## y) ## c) ## k) ## c
  BY ONLY <1>1, <1>2, <1>3, <1>4, <1>5, <1>6
<1>16. a ## (c ## lyz) = a ## (c ## ((l ## (y ## c)) ## (k ## ((c ## a) ## r))))
  BY ONLY <1>1, <1>2, <1>3, <1>13, <1>14
<1>. QED
  BY ONLY <1>1, <1>7, <1>8, <1>9, <1>10, <1>11, <1>12, <1>15, <1>16, s7 \in Texts(S)

\* serialize_multipart_formdata writes of one item what the parser expects.
WrittenAs(item) == ItemBegin(item) \o item.content \o ItemEnd
Before(item, rest) == <<CRLF>> ## (HeadLines(item) ## Behind(item, rest))

LEMMA ItemWritten ==
    ASSUME NEW S, Delimiters \subseteq S, NEW item, item.content \in Texts(S),
           Line("name", item.name) \in S, Line("type", item.type) \in S,
           NEW r, r \in Texts(S)
    PROVE  /\ WrittenAs(item) \in Texts(S) /\ Before(item, r) \in Texts(S)
           /\ WrittenAs(item) ## (<<Dashes, Boundary>> ## r)
                = <<Dashes, Boundary>> ## Before(item, r)
<1>1. PICK K \in S, D \in S, B \in S : K = CRLF /\ D = Dashes /\ B = Boundary
  BY DEF Delimiters
<1>2. PICK L \in S, T \in S : L = Line("name", item.name) /\ T = Line("type", item.type)
  OBVIOUS
<1>3. PICK a \in Texts(S), c \in Texts(S), l \in Texts(S) : a = <<D, B>> /\ c = <<K>> /\ l = <<L, K>>
  <2>1. <<D, B>> \in Seq(S)
    BY ONLY D \in S, B \in S
  <2>2. <<K>> \in Seq(S)
    BY ONLY K \in S
  <2>3. <<L, K>> \in Seq(S)
    BY ONLY L \in S, K \in S
  <2>. QED
    BY ONLY <2>1, <2>2, <2>3, Zenon DEF Texts
<1>4. PICK y \in Texts(S) : y = TypeLines(item)
  <2>1. <<T, K>> \in Seq(S)
    BY ONLY T \in S, K \in S
  <2>2. <<>> \in Seq(S)
    OBVIOUS
  <2>. QED
    BY ONLY <1>1, <1>2, <2>1, <2>2 DEF TypeLines, Texts
<1>5. PICK k \in Texts(S) : k = item.content
  OBVIOUS
<1>6. (a ## c) ## l = <<Dashes, Boundary, CRLF, Line("name", item.name), CRLF>>
  <2>1. PICK u : u = <<D, B, K, L, K>>
    OBVIOUS
  <2>2. u \in Seq(S) /\ Len(u) = 5 /\ u[1] = D /\ u[2] = B /\ u[3] = K /\ u[4] = L /\ u[5] = K
    BY ONLY <2>1, D \in S, B \in S, K \in S, L \in S
  <2>3. PICK v \in Seq(S) : v = <<D, B, K>> /\ v = a ## c
    <3>1. <<D, B, K>> \in Seq(S)
      BY ONLY D \in S, B \in S, K \in S
    <3>2. <<D, B>> ## <<K>> = <<D, B, K>>
      BY ONLY D \in S, B \in S, K \in S, ThreeTokens
    <3>. QED
      BY ONLY <1>3, <3>1, <3>2
  <2>4. Len(v) = 3 /\ v[1] = D /\ v[2] = B /\ v[3] = K /\ Len(l) = 2 /\ l[1] = L /\ l[2] = K
    BY ONLY <1>3, <2>3
  <2>5. l \in Seq(S)
    BY ONLY l \in Texts(S) DEF Texts
  <2>6. PICK w \in Seq(S) : w = v \o l /\ Len(w) = Len(v) + Len(l)
            /\ \A i \in 1 .. Len(v) + Len(l) : w[i] = IF i =< Len(v) THEN v[i] ELSE l[i - Len(v)]
    <3>1. /\ v \o l \in Seq(S) /\ Len(v \o l) = Len(v) + Len(l)
          /\ \A i \in 1 .. Len(v) + Len(l) :
               (v \o l)[i] = IF i =< Len(v) THEN v[i] ELSE l[i - Len(v)]
      BY ONLY <2>5, ConcatProperties, v \in Seq(S)
    <3>. QED
      BY ONLY <3>1, Zenon
  <2>7. Len(w) = 5 /\ w[1] = D /\ w[2] = B /\ w[3] = K /\ w[4] = L /\ w[5] = K
    BY ONLY <2>4, <2>6
  <2>8. \A i \in 1 .. 5 : w[i] = u[i]
    BY ONLY <2>2, <2>7
  <2>9. w = u
    BY ONLY <2>2, <2>7, <2>8, SeqEqual, w \in Seq(S)
  <2>. QED
    BY ONLY <1>1, <1>2, <2>1, <2>3, <2>6, <2>9 DEF ##
<1>7. WrittenAs(item) = (((((a ## c) ## l) ## y) ## c) ## k) ## c
  <2>1. ItemBegin(item) = (((a ## c) ## l) \o y) \o c
    BY ONLY <1>1, <1>3, <1>4, <1>6, Zenon DEF ItemBegin, TypeLines
  <2>2. ItemEnd = c
    BY ONLY <1>1, <1>3 DEF ItemEnd
  <2>. QED
    BY ONLY <1>5, <2>1, <2>2 DEF WrittenAs, ##
<1>8. c ## a = CrlfDashBoundary
  <2>1. PICK u : u = <<K, D, B>>
    OBVIOUS
  <2>2. u \in Seq(S) /\ Len(u) = 3 /\ u[1] = K /\ u[2] = D /\ u[3] = B
    BY ONLY <2>1, D \in S, B \in S, K \in S
  <2>3. c \in Seq(S) /\ a \in Seq(S)
    BY ONLY c \in Texts(S), a \in Texts(S) DEF Texts
  <2>4. Len(c) = 1 /\ Len(a) = 2 /\ c[1] = K /\ a[1] = D /\ a[2] = B
    BY ONLY <1>3
  <2>5. PICK w \in Seq(S) : w = c \o a /\ Len(w) = Len(c) + Len(a)
            /\ \A i \in 1 .. Len(c) + Len(a) : w[i] = IF i =< Len(c) THEN c[i] ELSE a[i - Len(c)]
    <3>1. /\ c \o a \in Seq(S) /\ Len(c \o a) = Len(c) + Len(a)
          /\ \A i \in 1 .. Len(c) + Len(a) :
               (c \o a)[i] = IF i =< Len(c) THEN c[i] ELSE a[i - Len(c)]
      BY ONLY <2>3, ConcatProperties
    <3>. QED
      BY ONLY <3>1, Zenon
  <2>6. Len(w) = 3 /\ w[1] = K /\ w[2] = D /\ w[3] = B
    BY ONLY <2>4, <2>5
  <2>7. \A i \in 1 .. 3 : w[i] = u[i]
    BY ONLY <2>2, <2>6
  <2>8. w = u
    BY ONLY <2>2, <2>6, <2>7, SeqEqual, w \in Seq(S)
  <2>. QED
    BY ONLY <1>1, <2>1, <2>5, <2>8 DEF ##, CrlfDashBoundary
<1>9. HeadLines(item) = l ## (y ## c)
  BY ONLY <1>1, <1>2, <1>3, <1>4 DEF HeadLines
<1>10. Before(item, r) = c ## ((l ## (y ## c)) ## (k ## ((c ## a) ## r)))
  BY ONLY <1>1, <1>3, <1>5, <1>8, <1>9 DEF Before, Behind
<1>11. /\ ((((((a ## c) ## l) ## y) ## c) ## k) ## c) \in Texts(S)
       /\ ((((((a ## c) ## l) ## y) ## c) ## k) ## c) ## (a ## r)
             = a ## (c ## ((l ## (y ## c)) ## (k ## ((c ## a) ## r))))
  BY ONLY WrittenItem, a \in Texts(S), c \in Texts(S), l \in Texts(S), y \in Texts(S),
     k \in Texts(S), r \in Texts(S)
<1>12. c ## ((l ## (y ## c)) ## (k ## ((c ## a) ## r))) \in Texts(S)
  <2>1. PICK ca \in Texts(S), yc \in Texts(S) : ca = c ## a /\ yc = y ## c
    BY ONLY TextFacts, a \in Texts(S), c \in Texts(S), y \in Texts(S)
  <2>2. PICK lyc \in Texts(S), car \in Texts(S) : lyc = l ## yc /\ car = ca ## r
    BY ONLY TextFacts, ca \in Texts(S), yc \in Texts(S), l \in Texts(S), r \in Texts(S)
  <2>3. PICK kc \in Texts(S) : kc = k ## car
    BY ONLY TextFacts, k \in Texts(S), car \in Texts(S)
  <2>4. PICK all \in Texts(S) : all = lyc ## kc
    BY ONLY TextFacts, lyc \in Texts(S), kc \in Texts(S)
  <2>5. c ## all \in Texts(S)
    BY ONLY TextFacts, c \in Texts(S), all \in Texts(S)
  <2>. QED
    BY ONLY <2>1, <2>2, <2>3, <2>4, <2>5
<1>13. a = <<Dashes, Boundary>>
  BY ONLY <1>1, <1>3
<1>. QED
  BY ONLY <1>7, <1>10, <1>11, <1>12, <1>13

-----------------------------------------------------------------------------
(* A form, from its beginning to its end.                                  *)

\* The tokens a form is made of, and the names and types it gives.
Named(items) == {items[i].name : i \in 1 .. Len(items)} \cup {items[i].type : i \in 1 .. Len(items)}
HeadTokens(items) ==
    {Line("name", items[i].name) : i \in 1 .. Len(items)}
    \cup {Line("type", items[i].type) : i \in 1 .. Len(items)}
BodyTokens(items) == UNION {Range(items[i].content) : i \in 1 .. Len(items)}
Names(items)  == {NoType} \cup Named(items)
FormTokens(items) == Delimiters \cup HeadTokens(items) \cup BodyTokens(items)

\* A form is one over its own tokens and names.
LEMMA FormWritten ==
    ASSUME NEW items, IsForm(items)
    PROVE  FormOver(FormTokens(items), Names(items), items)
<1>. DEFINE S == FormTokens(items)
            N == Names(items)
<1>1. items \in Seq(Range(items))
  BY DEF IsForm
<1>2. Len(items) \in Nat /\ \A i \in 1 .. Len(items) : items[i] \in Range(items)
  BY ONLY <1>1, LenProperties, ElementOfSeq
<1>3. ASSUME NEW i \in 1 .. Len(items)
      PROVE  /\ items[i] = [name |-> items[i].name, type |-> items[i].type,
                            content |-> items[i].content]
             /\ items[i].content \in Seq(Range(items[i].content))
             /\ Find(items[i].content, CrlfDashBoundary) = Len(items[i].content)
             /\ {Line("name", items[i].name), Line("type", items[i].type)}
                  \cap {CRLF, Dashes, Boundary} = {}
  <2>1. PICK item \in Range(items) : item = items[i]
    BY ONLY <1>2, i \in 1 .. Len(items)
  <2>. QED
    BY ONLY <2>1, IsForm(items), Zenon DEF IsForm
<1>4. ASSUME NEW i \in 1 .. Len(items)
      PROVE  /\ items[i].name \in N /\ items[i].type \in N
             /\ Line("name", items[i].name) \in S /\ Line("type", items[i].type) \in S
             /\ Range(items[i].content) \subseteq S
  <2>1. items[i].name \in N /\ items[i].type \in N
    BY Zenon DEF Names, Named
  <2>2. Line("name", items[i].name) \in S /\ Line("type", items[i].type) \in S
    BY Zenon DEF FormTokens, HeadTokens
  <2>3. Range(items[i].content) \subseteq S
    BY Zenon DEF FormTokens, BodyTokens
  <2>. QED
    BY <2>1, <2>2, <2>3
<1>5. Delimiters \subseteq S /\ NoType \in N
  BY Zenon DEF FormTokens, Names
<1>. HIDE DEF S, N
<1>6. ASSUME NEW i \in 1 .. Len(items) PROVE items[i] \in Items(S, N)
  <2>1. items[i].content \in Seq(S)
    BY ONLY <1>3, <1>4, SeqMonotonic, i \in 1 .. Len(items)
  <2>2. PICK a \in N, b \in N, c \in Texts(S) :
             a = items[i].name /\ b = items[i].type /\ c = items[i].content
    BY ONLY <1>4, <2>1, i \in 1 .. Len(items), Zenon DEF Texts
  <2>3. items[i] = [name |-> a, type |-> b, content |-> c]
    BY ONLY <1>3, <2>2, i \in 1 .. Len(items), Zenon
  <2>. QED
    BY ONLY <2>2, <2>3 DEF Items
<1>7. items \in Seq(Items(S, N))
  <2>1. Range(items) \subseteq Items(S, N)
    <3>1. DOMAIN items = 1 .. Len(items)
      BY ONLY <1>1, LenProperties
    <3>. QED
      BY ONLY <1>6, <3>1, Zenon DEF Range
  <2>. QED
    BY ONLY <1>1, <2>1, SeqMonotonic
<1>8. ASSUME NEW i \in 1 .. Len(items)
      PROVE  /\ Line("name", items[i].name) \in S \ Delimiters
             /\ Line("type", items[i].type) \in S \ Delimiters
  BY ONLY <1>3, <1>4, i \in 1 .. Len(items) DEF Delimiters
<1>. QED
  BY ONLY <1>3, <1>5, <1>7, <1>8 DEF FormOver, S, N

\* What is left of a form behind each of its delimiters.
LEMMA RestExists ==
    ASSUME NEW S, NEW N, NEW items, FormOver(S, N, items)
    PROVE  \E rest : Setting(S, N, items, rest)
<1>1. /\ Delimiters \subseteq S /\ items \in Seq(Items(S, N))
      /\ \A i \in 1 .. Len(items) : /\ Line("name", items[i].name) \in S
                                    /\ Line("type", items[i].type) \in S
  BY DEF FormOver
<1>2. PICK n \in Nat : n = Len(items)
  BY ONLY <1>1, LenProperties
<1>3. \A i \in 1 .. n : items[i] \in Items(S, N)
  BY ONLY <1>1, <1>2, ElementOfSeq
<1>4. \A i \in 1 .. n : \A r \in Texts(S) : Before(items[i], r) \in Texts(S)
  <2>. SUFFICES ASSUME NEW i \in 1 .. n, NEW r, r \in Texts(S)
                PROVE  Before(items[i], r) \in Texts(S)
    OBVIOUS
  <2>1. items[i].content \in Texts(S)
    BY ONLY <1>3, i \in 1 .. n DEF Items
  <2>2. Line("name", items[i].name) \in S /\ Line("type", items[i].type) \in S
    BY ONLY <1>1, <1>2, i \in 1 .. n
  <2>. QED
    BY ONLY <1>1, <2>1, <2>2, r \in Texts(S), ItemWritten
<1>. DEFINE V == Texts(S)
            step == [at \in (1 .. n) \X V |-> Before(items[(n - at[1]) + 1], at[2])]
<1>5. PICK last \in V : last = <<Dashes, CRLF>>
  <2>1. PICK D \in S, K \in S : D = Dashes /\ K = CRLF
    BY ONLY <1>1 DEF Delimiters
  <2>2. <<D, K>> \in Seq(S)
    BY ONLY D \in S, K \in S
  <2>. QED
    BY ONLY <2>1, <2>2, Zenon DEF Texts
<1>6. step \in [(1 .. n) \X V -> V]
  <2>1. ASSUME NEW at \in (1 .. n) \X V PROVE Before(items[(n - at[1]) + 1], at[2]) \in V
    <3>. HIDE DEF V
    <3>1. at[1] \in 1 .. n /\ at[2] \in V
      OBVIOUS
    <3>2. (n - at[1]) + 1 \in 1 .. n
      BY ONLY <3>1, n \in Nat
    <3>. QED
      BY ONLY <1>4, <3>1, <3>2 DEF V
  <2>. HIDE DEF V
  <2>. QED
    BY ONLY <2>1
<1>7. \A i \in 1 .. n, r \in V : step[<<i, r>>] = Before(items[(n - i) + 1], r)
  <2>. HIDE DEF V
  <2>. QED
    OBVIOUS
<1>. HIDE DEF step, V
<1>8. PICK f \in [0 .. n -> V] : Steps(last, step, n, f)
  <2>1. n \in 0 .. n
    OBVIOUS
  <2>. QED
    BY ONLY <1>6, <2>1, StepsExist, n \in Nat, last \in V
<1>9. f[0] = last /\ \A i \in 1 .. n : f[i] = step[<<i, f[i - 1]>>]
  BY ONLY <1>8, Zenon DEF Steps
<1>. DEFINE rest == [k \in 0 .. n |-> f[n - k]]
<1>10. rest \in [0 .. n -> V]
  <2>1. \A k \in 0 .. n : n - k \in 0 .. n
    BY ONLY n \in Nat
  <2>. QED
    BY ONLY <2>1, f \in [0 .. n -> V]
<1>11. rest[n] = <<Dashes, CRLF>>
  <2>1. n \in 0 .. n /\ n - n = 0
    OBVIOUS
  <2>. QED
    BY ONLY <1>5, <1>9, <2>1
<1>12. ASSUME NEW i \in 1 .. n PROVE rest[i - 1] = Before(items[i], rest[i])
  <2>1. PICK j \in 1 .. n : j = (n - i) + 1
    BY ONLY i \in 1 .. n, n \in Nat
  <2>2. /\ i - 1 \in 0 .. n /\ i \in 0 .. n /\ n - (i - 1) = j /\ n - i = j - 1
        /\ (n - j) + 1 = i /\ j - 1 \in 0 .. n
    BY ONLY <2>1, i \in 1 .. n, n \in Nat
  <2>3. rest[i - 1] = f[j] /\ rest[i] = f[j - 1]
    BY ONLY <2>2
  <2>4. f[j - 1] \in V
    BY ONLY <2>2, f \in [0 .. n -> V]
  <2>5. f[j] = Before(items[i], f[j - 1])
    BY ONLY <1>7, <1>9, <2>1, <2>2, <2>4
  <2>. QED
    BY ONLY <2>3, <2>5
<1>. HIDE DEF rest
<1>13. IsRest(items, rest)
  BY ONLY <1>2, <1>11, <1>12 DEF IsRest, Before
<1>. QED
  BY ONLY <1>2, <1>10, <1>13, FormOver(S, N, items) DEF Setting, V

\* Four tokens, put together of two and two.
LEMMA FourTokens ==
    ASSUME NEW S, NEW a, a \in S, NEW b, b \in S, NEW c, c \in S, NEW d, d \in S
    PROVE  <<a, b>> ## <<c, d>> = <<a, b, c, d>>
<1>1. PICK s \in Seq(S), t \in Seq(S), u \in Seq(S) : s = <<a, b>> /\ t = <<c, d>> /\ u = <<a, b, c, d>>
  <2>1. <<a, b>> \in Seq(S)
    OBVIOUS
  <2>2. <<c, d>> \in Seq(S)
    OBVIOUS
  <2>3. <<a, b, c, d>> \in Seq(S)
    OBVIOUS
  <2>. QED
    BY <2>1, <2>2, <2>3, Zenon
<1>2. /\ Len(s) = 2 /\ Len(t) = 2 /\ Len(u) = 4
      /\ s[1] = a /\ s[2] = b /\ t[1] = c /\ t[2] = d
      /\ u[1] = a /\ u[2] = b /\ u[3] = c /\ u[4] = d
  BY <1>1
<1>3. PICK w \in Seq(S) : w = s \o t /\ Len(w) = Len(s) + Len(t)
            /\ \A i \in 1 .. Len(s) + Len(t) : w[i] = IF i =< Len(s) THEN s[i] ELSE t[i - Len(s)]
  <2>1. /\ s \o t \in Seq(S) /\ Len(s \o t) = Len(s) + Len(t)
        /\ \A i \in 1 .. Len(s) + Len(t) :
             (s \o t)[i] = IF i =< Len(s) THEN s[i] ELSE t[i - Len(s)]
    BY ConcatProperties
  <2>. QED
    BY ONLY <2>1, Zenon
<1>4. Len(w) = 4 /\ w[1] = u[1] /\ w[2] = u[2] /\ w[3] = u[3] /\ w[4] = u[4]
  BY <1>2, <1>3
<1>5. \A i \in 1 .. 4 : w[i] = u[i]
  BY ONLY <1>4
<1>6. w = u
  BY <1>2, <1>4, <1>5, SeqEqual
<1>. QED
  BY <1>1, <1>3, <1>6 DEF ##

\* A form as it is written: its first delimiter and the rest.
LEMMA FormWhole ==
    ASSUME NEW S, NEW N, NEW items, NEW rest, Setting(S, N, items, rest)
    PROVE  /\ <<Dashes, Boundary>> \in Texts(S) /\ rest[0] \in Texts(S)
           /\ Serialize(items) \in Texts(S)
           /\ Serialize(items) = <<Dashes, Boundary>> ## rest[0]
<1>1. /\ Delimiters \subseteq S /\ items \in Seq(Items(S, N))
      /\ \A i \in 1 .. Len(items) : /\ Line("name", items[i].name) \in S
                                    /\ Line("type", items[i].type) \in S
  BY DEF Setting, FormOver
<1>2. PICK n \in Nat : n = Len(items) /\ DOMAIN items = 1 .. n
  BY ONLY <1>1, LenProperties
<1>3. \A i \in 1 .. n : items[i] \in Items(S, N)
  BY ONLY <1>1, <1>2, ElementOfSeq
<1>4. rest \in [0 .. n -> Texts(S)] /\ rest[n] = <<Dashes, CRLF>>
  BY ONLY <1>2, Setting(S, N, items, rest) DEF Setting, IsRest
<1>5. \A i \in 1 .. n : rest[i - 1] = Before(items[i], rest[i])
  BY ONLY <1>2, Setting(S, N, items, rest) DEF Setting, IsRest, Before
<1>6. PICK D \in S, B \in S, K \in S : D = Dashes /\ B = Boundary /\ K = CRLF
  BY ONLY <1>1 DEF Delimiters
<1>7. PICK a \in Texts(S), e \in Texts(S), f \in Texts(S) :
          a = <<Dashes, Boundary>> /\ e = <<Dashes, CRLF>> /\ f = Finish
  <2>1. <<D, B>> \in Seq(S)
    BY ONLY D \in S, B \in S
  <2>2. <<D, K>> \in Seq(S)
    BY ONLY D \in S, K \in S
  <2>3. <<D, B, D, K>> \in Seq(S)
    BY ONLY D \in S, B \in S, K \in S
  <2>. QED
    BY ONLY <1>6, <2>1, <2>2, <2>3, Zenon DEF Texts, Finish
<1>8. f = a ## e
  <2>1. <<D, B>> ## <<D, K>> = <<D, B, D, K>>
    BY ONLY FourTokens, D \in S, B \in S, K \in S
  <2>. QED
    BY ONLY <1>6, <1>7, <2>1 DEF Finish
<1>9. ASSUME NEW i \in 1 .. n
      PROVE  /\ WrittenAs(items[i]) \in Texts(S) /\ rest[i] \in Texts(S)
             /\ WrittenAs(items[i]) ## (a ## rest[i]) = a ## rest[i - 1]
  <2>1. items[i].content \in Texts(S)
    BY ONLY <1>3, i \in 1 .. n DEF Items
  <2>2. Line("name", items[i].name) \in S /\ Line("type", items[i].type) \in S
    BY ONLY <1>1, <1>2, i \in 1 .. n
  <2>3. PICK r \in Texts(S) : r = rest[i]
    <3>1. i \in 0 .. n
      BY ONLY i \in 1 .. n, n \in Nat
    <3>. QED
      BY ONLY <1>4, <3>1
  <2>4. /\ WrittenAs(items[i]) \in Texts(S)
        /\ WrittenAs(items[i]) ## (<<Dashes, Boundary>> ## r)
             = <<Dashes, Boundary>> ## Before(items[i], r)
    BY ONLY <1>1, <2>1, <2>2, r \in Texts(S), ItemWritten
  <2>. QED
    BY ONLY <1>5, <1>7, <2>3, <2>4, i \in 1 .. n
<1>. DEFINE seqs == [i \in 1 .. n |-> WrittenAs(items[i])]
<1>10. seqs \in Seq(Seq(S)) /\ Len(seqs) = n /\ \A i \in 1 .. n : seqs[i] = WrittenAs(items[i])
  <2>1. \A i \in 1 .. n : WrittenAs(items[i]) \in Seq(S)
    BY ONLY <1>9 DEF Texts
  <2>2. seqs \in [1 .. n -> Seq(S)]
    BY ONLY <2>1
  <2>. HIDE DEF seqs
  <2>3. seqs \in Seq(Seq(S)) /\ Len(seqs) = n
    BY ONLY <2>2, n \in Nat
  <2>. USE DEF seqs
  <2>. QED
    BY ONLY <2>3, Zenon
<1>11. Serialize(items) = FlattenSeq(seqs) \o f
  BY ONLY <1>2, <1>7, Zenon DEF Serialize, WrittenAs
<1>. HIDE DEF seqs
<1>12. PICK F \in [0 .. n -> Seq(S)] :
          /\ F[0] = <<>> /\ \A i \in 1 .. n : F[i] = F[i - 1] \o seqs[i]
          /\ FlattenSeq(seqs) = F[n]
  BY ONLY <1>10, FlattenSteps
<1>13. \A i \in 0 .. n : F[i] \in Texts(S) /\ rest[i] \in Texts(S)
  BY ONLY <1>4, F \in [0 .. n -> Seq(S)] DEF Texts
<1>. DEFINE At == {i \in Nat : i \in 0 .. n => F[i] ## (a ## rest[i]) = a ## rest[0]}
<1>14. 0 \in At
  <2>1. 0 \in 0 .. n
    BY ONLY n \in Nat
  <2>2. PICK r \in Texts(S) : r = rest[0]
    BY ONLY <1>13, <2>1
  <2>3. PICK ar \in Texts(S) : ar = a ## r
    BY ONLY TextFacts, a \in Texts(S), r \in Texts(S)
  <2>4. <<>> ## ar = ar
    BY ONLY TextFacts, ar \in Texts(S)
  <2>. QED
    BY ONLY <1>12, <2>2, <2>3, <2>4
<1>15. ASSUME NEW i \in Nat, i \in At PROVE i + 1 \in At
  <2>. SUFFICES ASSUME i + 1 \in 0 .. n PROVE F[i + 1] ## (a ## rest[i + 1]) = a ## rest[0]
    OBVIOUS
  <2>1. PICK j \in 1 .. n : j = i + 1 /\ j - 1 = i /\ i \in 0 .. n /\ j \in 0 .. n
    OBVIOUS
  <2>2. F[i] ## (a ## rest[i]) = a ## rest[0]
    BY ONLY <1>15, <2>1
  <2>3. PICK w \in Texts(S), r \in Texts(S), g \in Texts(S) :
            w = WrittenAs(items[j]) /\ r = rest[j] /\ g = F[i]
    BY ONLY <1>9, <1>13, <2>1
  <2>4. F[j] = g ## w
    BY ONLY <1>10, <1>12, <2>1, <2>3 DEF ##
  <2>5. PICK ar \in Texts(S) : ar = a ## r
    BY ONLY TextFacts, a \in Texts(S), r \in Texts(S)
  <2>6. (g ## w) ## ar = g ## (w ## ar)
    BY ONLY TextFacts, g \in Texts(S), w \in Texts(S), ar \in Texts(S)
  <2>7. w ## ar = a ## rest[i]
    BY ONLY <1>9, <2>1, <2>3, <2>5
  <2>. QED
    BY ONLY <2>1, <2>2, <2>3, <2>4, <2>5, <2>6, <2>7
<1>. HIDE DEF At
<1>16. Nat \subseteq At
  BY ONLY <1>14, <1>15, Induction
<1>17. n \in 0 .. n /\ 0 \in 0 .. n
  BY ONLY n \in Nat
<1>18. F[n] ## (a ## rest[n]) = a ## rest[0]
  BY ONLY <1>16, <1>17, n \in Nat DEF At
<1>19. Serialize(items) = a ## rest[0]
  BY ONLY <1>4, <1>7, <1>8, <1>11, <1>12, <1>18 DEF ##
<1>20. rest[0] \in Texts(S)
  BY ONLY <1>13, <1>17
<1>21. a ## rest[0] \in Texts(S)
  BY ONLY <1>20, TextFacts, a \in Texts(S)
<1>. QED
  BY ONLY <1>7, <1>19, <1>20, <1>21, a \in Texts(S)

-----------------------------------------------------------------------------
(* A form on its way: what is written, and what the parser takes.          *)

\* A provider of c, which is what there is of whole, writes n tokens behind o.
Sends(c, o, n, whole) ==
    /\ c \in Seq(Range(c)) /\ IsPrefix(c, whole)
    /\ o \in Nat /\ n \in Nat /\ o + n =< Len(c)

\* What is ahead of the reader stays the same when it is written,
LEMMA ProvidedAhead ==
    ASSUME NEW S, NEW whole, whole \in Texts(S), NEW w, w \in Texts(S),
           NEW c, NEW o, NEW n, Sends(c, o, n, whole)
    PROVE  /\ w \o SubSeq(c, o + 1, o + n) \in Texts(S)
           /\ (w \o SubSeq(c, o + 1, o + n)) ## Drop(whole, o + n) = w ## Drop(whole, o)
<1>0. /\ c \in Seq(Range(c)) /\ IsPrefix(c, whole)
      /\ o \in Nat /\ n \in Nat /\ o + n =< Len(c)
  BY ONLY Sends(c, o, n, whole) DEF Sends
<1>1. PICK len \in Nat, all \in Nat : len = Len(c) /\ all = Len(whole) /\ len =< all /\ o + n =< len
  <2>1. Len(c) \in Nat
    BY ONLY <1>0, LenProperties
  <2>2. Len(whole) \in Nat
    BY ONLY TextFacts, whole \in Texts(S)
  <2>3. Len(c) =< Len(whole)
    BY ONLY <1>0 DEF IsPrefix
  <2>. QED
    BY ONLY <2>1, <2>2, <2>3, <1>0
<1>2. c = SubSeq(whole, 1, len)
  <2>1. SubSeq(c, 1, Len(c)) = c
    BY ONLY <1>0, SubSeqFull
  <2>. QED
    BY ONLY <1>1, <2>1, <1>0 DEF IsPrefix
<1>3. whole \in Seq(S)
  BY ONLY whole \in Texts(S) DEF Texts
<1>4. c \in Seq(S) /\ \A i \in 1 .. len : c[i] = whole[i]
  <2>1. len \in 0 .. Len(whole)
    BY ONLY <1>1
  <2>. QED
    BY ONLY <1>2, <1>3, <2>1, Cut
<1>5. PICK x \in Texts(S), y \in Texts(S), z \in Texts(S) :
          x = SubSeq(whole, o + 1, o + n) /\ y = Drop(whole, o + n) /\ z = Drop(whole, o)
          /\ x ## y = z
  <2>1. /\ o + 1 \in 1 .. Len(whole) + 1 /\ o + n \in (o + 1) - 1 .. Len(whole)
        /\ Len(whole) \in o + n .. Len(whole)
        /\ o \in 0 .. Len(whole) /\ o + n \in 0 .. Len(whole)
        /\ o + n \in Int /\ o + 1 \in Int
    BY ONLY <1>1, <1>0
  <2>2. SubSeq(whole, o + 1, o + n) \o SubSeq(whole, (o + n) + 1, Len(whole))
           = SubSeq(whole, o + 1, Len(whole))
    BY ONLY <1>3, <2>1, ConcatAdjacentSubSeq
  <2>3. Drop(whole, o + n) \in Texts(S) /\ Drop(whole, o) \in Texts(S)
    BY ONLY <2>1, CutText, whole \in Texts(S)
  <2>4. SubSeq(whole, o + 1, o + n) \in Seq(S)
    <3>1. \A i \in o + 1 .. o + n : whole[i] \in S
      BY ONLY <1>1, <1>3, ElementOfSeq, <1>0
    <3>. QED
      BY ONLY <2>1, <3>1, SubSeqProperties
  <2>. QED
    BY ONLY <2>2, <2>3, <2>4, Zenon DEF Texts, Drop, ##
<1>6. SubSeq(c, o + 1, o + n) = x
  <2>1. PICK a \in Int, b \in Int : a = o + 1 /\ b = o + n
    BY ONLY <1>0
  <2>2. \A i \in a .. b : i \in 1 .. len /\ i \in 1 .. Len(whole) /\ i \in 1 .. Len(c)
    BY ONLY <1>1, <2>1, <1>0
  <2>3. \A i \in a .. b : c[i] \in S /\ whole[i] \in S
    BY ONLY <1>3, <1>4, <2>2, ElementOfSeq
  <2>4. /\ SubSeq(c, a, b) \in Seq(S) /\ Len(SubSeq(c, a, b)) = IF a <= b THEN b - a + 1 ELSE 0
        /\ \A i \in 1 .. b - a + 1 : SubSeq(c, a, b)[i] = c[a + i - 1]
    BY ONLY <2>3, SubSeqProperties, a \in Int, b \in Int
  <2>5. /\ SubSeq(whole, a, b) \in Seq(S)
        /\ Len(SubSeq(whole, a, b)) = IF a <= b THEN b - a + 1 ELSE 0
        /\ \A i \in 1 .. b - a + 1 : SubSeq(whole, a, b)[i] = whole[a + i - 1]
    BY ONLY <2>3, SubSeqProperties, a \in Int, b \in Int
  <2>6. \A i \in 1 .. b - a + 1 : c[a + i - 1] = whole[a + i - 1]
    <3>1. \A i \in 1 .. b - a + 1 : a + i - 1 \in a .. b
      BY ONLY a \in Int, b \in Int
    <3>. QED
      BY ONLY <1>4, <2>2, <3>1
  <2>7. PICK s \in Seq(S), t \in Seq(S) :
            /\ s = SubSeq(c, a, b) /\ t = SubSeq(whole, a, b) /\ Len(s) = Len(t)
            /\ \A i \in 1 .. b - a + 1 : s[i] = t[i]
            /\ Len(s) = IF a <= b THEN b - a + 1 ELSE 0
    BY ONLY <2>4, <2>5, <2>6
  <2>8. \A i \in 1 .. Len(s) : s[i] = t[i]
    <3>1. PICK m : m = IF a <= b THEN b - a + 1 ELSE 0
      OBVIOUS
    <3>2. \A i \in 1 .. m : i \in 1 .. b - a + 1
      BY ONLY <3>1, a \in Int, b \in Int
    <3>. QED
      BY ONLY <2>7, <3>1, <3>2
  <2>9. s = t
    BY ONLY <2>7, <2>8, SeqEqual, s \in Seq(S), t \in Seq(S)
  <2>. QED
    BY ONLY <1>5, <2>1, <2>7, <2>9
<1>7. (w ## x) ## y = w ## (x ## y) /\ w ## x \in Texts(S)
  BY ONLY TextFacts, w \in Texts(S), x \in Texts(S), y \in Texts(S)
<1>. QED
  BY ONLY <1>5, <1>6, <1>7 DEF ##

\* and when it is read it is what has been taken and what is left.
LEMMA TakenAhead ==
    ASSUME NEW S, NEW w, w \in Texts(S), NEW d, d \in Texts(S), NEW n, n \in 0 .. Len(w)
    PROVE  /\ First(w, n) \in Texts(S) /\ Drop(w, n) \in Texts(S)
           /\ First(w, n) ## (Drop(w, n) ## d) = w ## d
<1>1. PICK a \in Texts(S), b \in Texts(S) : a = First(w, n) /\ b = Drop(w, n) /\ a ## b = w
  BY ONLY CutText, w \in Texts(S), n \in 0 .. Len(w)
<1>2. (a ## b) ## d = a ## (b ## d)
  BY ONLY TextFacts, a \in Texts(S), b \in Texts(S), d \in Texts(S)
<1>. QED
  BY ONLY <1>1, <1>2

\* What the next piece makes of a parser before the loop.
LEMMA FedFields ==
    ASSUME NEW S, NEW N, NEW p, p \in Parsers(S, N), NEW b, b \in Texts(S), NEW q, q = Fed(p, b)
    PROVE  /\ q \in Parsers(S, N)
           /\ q.buf = b /\ q.state = p.state /\ q.valid = p.valid /\ q.file = p.file
           /\ q.parts = p.parts /\ q.run = "on"
<1>1. PICK on \in {"on", "wait", "refuse"} : on = "on"
  OBVIOUS
<1>2. q = [p EXCEPT !.buf = b, !.run = on]
  BY ONLY <1>1, q = Fed(p, b) DEF Fed
<1>3. p = [buf |-> p.buf, state |-> p.state, valid |-> p.valid, file |-> p.file,
           parts |-> p.parts, run |-> p.run]
  BY ONLY ParserFields, p \in Parsers(S, N)
<1>4. Became(q, b, p.state, p.valid, p.file, p.parts, on)
  BY ONLY <1>2, <1>3 DEF Became
<1>5. AreFields(S, N, b, p.state, p.valid, p.file, p.parts, on)
  BY ONLY ParserFields, p \in Parsers(S, N), b \in Texts(S), on \in {"on", "wait", "refuse"}
  DEF AreFields
<1>. QED
  BY ONLY <1>1, <1>4, <1>5, BecameParser

\* A parser that is given a piece keeps its place.
LEMMA FedPlaced ==
    ASSUME NEW S, NEW N, NEW p, p \in Parsers(S, N), NEW b, b \in Texts(S),
           NEW R, NEW items, NEW rest, Placed(p, R, items, rest)
    PROVE  Placed(Fed(p, b), R, items, rest)
<1>1. PICK q : q = Fed(p, b)
  OBVIOUS
<1>2. /\ q.state = p.state /\ q.valid = p.valid /\ q.file = p.file
      /\ q.parts = p.parts /\ q.run = "on"
  BY ONLY <1>1, FedFields, p \in Parsers(S, N), b \in Texts(S)
<1>3. PICK k \in 0 .. Len(items) : PlacedAt(p, R, items, rest, k)
  BY ONLY Placed(p, R, items, rest) DEF Placed
<1>4. PlacedAt(q, R, items, rest, k)
  <2>1. q.run # "refuse"
    BY ONLY <1>2
  <2>. QED
    BY ONLY <1>2, <1>3, <2>1, Zenon
    DEF PlacedAt, BeforeEntry, InHeaders, InContent, AtBoundary, AtEnd
<1>. QED
  BY ONLY <1>1, <1>4 DEF Placed

\* A fresh parser that is given a piece is at the start.
LEMMA FreshStarts ==
    ASSUME NEW S, NEW N, NoType \in N, NEW b, b \in Texts(S), NEW rest
    PROVE  /\ FreshParser \in Parsers(S, N) /\ FreshParser.buf = <<>> /\ FreshParser.parts = <<>>
           /\ FreshParser.valid = FALSE
           /\ AtStart(Fed(FreshParser, b), <<Dashes, Boundary>> ## rest[0], rest)
<1>1. PICK none \in Files(N) : none = NoFile
  BY DEF NoFile, Files
<1>2. PICK e \in Texts(S), v \in BOOLEAN, ps \in Seq(Items(S, N)), wait \in {"on", "wait", "refuse"} :
          e = <<>> /\ v = FALSE /\ ps = <<>> /\ wait = "wait"
  <2>1. <<>> \in Texts(S) /\ <<>> \in Seq(Items(S, N))
    BY DEF Texts
  <2>. QED
    BY <2>1
<1>3. PICK p : p = FreshParser
  OBVIOUS
<1>4. Became(p, e, 0, v, none, ps, wait)
  BY ONLY <1>1, <1>2, <1>3, Zenon DEF FreshParser, Became
<1>5. /\ p \in Parsers(S, N) /\ p.buf = <<>> /\ p.state = 0 /\ p.valid = FALSE
      /\ p.file = NoFile /\ p.parts = <<>>
  <2>1. AreFields(S, N, e, 0, v, none, ps, wait)
    BY ONLY 0 \in 0 .. 4, e \in Texts(S), v \in BOOLEAN, none \in Files(N),
       ps \in Seq(Items(S, N)), wait \in {"on", "wait", "refuse"} DEF AreFields
  <2>. QED
    BY ONLY <1>1, <1>2, <1>4, <2>1, BecameParser
<1>6. PICK q : q = Fed(p, b)
  OBVIOUS
<1>7. q.state = 0 /\ q.valid = FALSE /\ q.file = NoFile /\ q.parts = <<>> /\ q.run = "on"
  BY ONLY <1>5, <1>6, FedFields, b \in Texts(S)
<1>. QED
  BY ONLY <1>3, <1>5, <1>6, <1>7 DEF AtStart

\* What is left of a form behind each of its delimiters, as a function of it.
RestOf(items) ==
    CHOOSE rest : Setting(FormTokens(items), Names(items), items, rest)

\* Every form has what is left behind its delimiters.
LEMMA RestOfForm ==
    ASSUME NEW items, IsForm(items)
    PROVE  /\ Setting(FormTokens(items), Names(items), items, RestOf(items))
           /\ NoType \in Names(items)
           /\ Serialize(items) \in Texts(FormTokens(items))
           /\ Serialize(items) = <<Dashes, Boundary>> ## RestOf(items)[0]
<1>1. FormOver(FormTokens(items), Names(items), items)
  BY ONLY FormWritten, IsForm(items)
<1>2. \E rest : Setting(FormTokens(items), Names(items), items, rest)
  BY ONLY <1>1, RestExists
<1>3. Setting(FormTokens(items), Names(items), items, RestOf(items))
  BY ONLY <1>2, Zenon DEF RestOf
<1>4. NoType \in Names(items)
  BY ONLY Zenon DEF Names
<1>. QED
  BY ONLY <1>3, <1>4, FormWhole

\* A parser p and the tokens w under way to it, of a form written up to o: it
\* has had nothing yet, or it is in its place.
FormTyped(p, w, items) ==
    /\ w \in Texts(FormTokens(items))
    /\ p \in Parsers(FormTokens(items), Names(items))

Ahead(w, o, items) == w ## Drop(Serialize(items), o)

OnWay(p, w, o, items) ==
    \/ p = FreshParser /\ Ahead(w, o, items) = Serialize(items)
    \/ Placed(p, p.buf ## Ahead(w, o, items), items, RestOf(items))

\* A write leaves the parser in its place.
LEMMA ProvidedOnWay ==
    ASSUME NEW items, IsForm(items), NEW c, NEW o, NEW n, Sends(c, o, n, Serialize(items)),
           NEW p, NEW w, FormTyped(p, w, items), OnWay(p, w, o, items),
           NEW more, more = w \o SubSeq(c, o + 1, o + n)
    PROVE  FormTyped(p, more, items) /\ OnWay(p, more, o + n, items)
<1>1. Serialize(items) \in Texts(FormTokens(items))
  BY ONLY RestOfForm, IsForm(items)
<1>2. PICK S, whole : S = FormTokens(items) /\ whole = Serialize(items)
  OBVIOUS
<1>3. w \in Texts(S) /\ whole \in Texts(S) /\ Sends(c, o, n, whole)
  BY ONLY <1>1, <1>2, FormTyped(p, w, items), Sends(c, o, n, Serialize(items)) DEF FormTyped
<1>4. /\ w \o SubSeq(c, o + 1, o + n) \in Texts(S)
      /\ (w \o SubSeq(c, o + 1, o + n)) ## Drop(whole, o + n) = w ## Drop(whole, o)
  BY ONLY <1>3, ProvidedAhead
<1>5. more \in Texts(S) /\ Ahead(more, o + n, items) = Ahead(w, o, items)
  BY ONLY <1>2, <1>4, more = w \o SubSeq(c, o + 1, o + n) DEF Ahead
<1>. QED
  BY ONLY <1>2, <1>5, FormTyped(p, w, items), OnWay(p, w, o, items), Zenon DEF FormTyped, OnWay

\* So does a read, unless it misses the first delimiter.
LEMMA ReadOnWay ==
    ASSUME NEW items, IsForm(items), NEW o, o \in 0 .. Len(Serialize(items)),
           NEW p, NEW w, FormTyped(p, w, items), OnWay(p, w, o, items), NEW n, n \in 0 .. Len(w),
           NEW q, q = Parse(p, First(w, n)), ~(p = FreshParser /\ q.state = 0)
    PROVE  FormTyped(q, Drop(w, n), items) /\ OnWay(q, Drop(w, n), o, items)
<1>1. PICK S, N, whole, rest : /\ S = FormTokens(items) /\ N = Names(items)
                               /\ whole = Serialize(items) /\ rest = RestOf(items)
  OBVIOUS
<1>2. /\ Setting(S, N, items, rest) /\ NoType \in N
      /\ whole \in Texts(S) /\ whole = <<Dashes, Boundary>> ## rest[0]
  BY ONLY <1>1, RestOfForm, IsForm(items)
<1>3. w \in Texts(S) /\ p \in Parsers(S, N)
  BY ONLY <1>1, FormTyped(p, w, items) DEF FormTyped
<1>4. PICK d \in Texts(S) : d = Drop(whole, o)
  BY ONLY <1>1, <1>2, CutText, o \in 0 .. Len(Serialize(items))
<1>5. PICK piece \in Texts(S), left \in Texts(S) :
          piece = First(w, n) /\ left = Drop(w, n) /\ piece ## (left ## d) = w ## d
  BY ONLY <1>3, TakenAhead, d \in Texts(S), n \in 0 .. Len(w)
<1>6. PICK fut \in Texts(S) : fut = left ## d /\ piece ## fut = w ## d
  BY ONLY <1>5, TextFacts, left \in Texts(S), d \in Texts(S)
<1>7. PICK buf \in Texts(S) : buf = p.buf
  BY ONLY <1>3, ParserFields
<1>8. PICK b \in Texts(S) : b = buf ## piece /\ b ## fut = buf ## (w ## d)
  BY ONLY <1>6, TextFacts, buf \in Texts(S), piece \in Texts(S), fut \in Texts(S)
<1>9. PICK early : early = (p = FreshParser)
  OBVIOUS
<1>10. Kept(early, Fed(p, b), b ## fut, items, rest)
  <2>1. CASE p = FreshParser /\ Ahead(w, o, items) = Serialize(items)
    <3>1. w ## d = whole /\ buf = <<>>
      BY ONLY <1>1, <1>2, <1>4, <1>7, <2>1, FreshStarts, b \in Texts(S) DEF Ahead
    <3>2. b ## fut = whole
      BY ONLY <1>2, <1>8, <3>1, TextFacts
    <3>3. AtStart(Fed(p, b), b ## fut, rest)
      BY ONLY <1>2, <2>1, <3>2, FreshStarts, b \in Texts(S)
    <3>. QED
      BY ONLY <1>9, <2>1, <3>3 DEF Kept
  <2>2. CASE Placed(p, p.buf ## Ahead(w, o, items), items, RestOf(items))
    <3>1. Placed(p, b ## fut, items, rest)
      BY ONLY <1>1, <1>4, <1>7, <1>8, <2>2 DEF Ahead
    <3>2. Placed(Fed(p, b), b ## fut, items, rest)
      BY ONLY <1>3, <3>1, FedPlaced, b \in Texts(S)
    <3>. QED
      BY ONLY <3>2 DEF Kept
  <2>. QED
    BY ONLY <2>1, <2>2, OnWay(p, w, o, items) DEF OnWay
<1>11. /\ Parse(p, piece) \in Parsers(S, N)
       /\ Kept(early, Parse(p, piece), Parse(p, piece).buf ## fut, items, rest)
  BY ONLY <1>2, <1>3, <1>7, <1>8, <1>10, ParseKept, piece \in Texts(S), fut \in Texts(S)
<1>12. q = Parse(p, piece)
  BY ONLY <1>5, q = Parse(p, First(w, n))
<1>13. Placed(q, q.buf ## fut, items, rest)
  <2>1. ~(early /\ q.state = 0)
    BY ONLY <1>9, ~(p = FreshParser /\ q.state = 0)
  <2>2. early => ~AtStart(q, q.buf ## fut, rest) /\ ~Missed(q)
    BY ONLY <2>1 DEF AtStart, Missed
  <2>. QED
    BY ONLY <1>11, <1>12, <2>2, Zenon DEF Kept
<1>14. OnWay(q, left, o, items)
  BY ONLY <1>1, <1>4, <1>6, <1>13, Zenon DEF OnWay, Ahead
<1>. QED
  BY ONLY <1>1, <1>5, <1>11, <1>12, <1>14 DEF FormTyped

-----------------------------------------------------------------------------
(* What a parser in its place has handed to the receivers.                 *)

\* What a receiver has been given of a form, as PartsInOrder has it.
InOrder(parts, items) ==
    LET last == Len(parts) IN
    /\ last <= Len(items)
    /\ \A i \in 1 .. last :
         /\ parts[i].name = items[i].name
         /\ parts[i].type = items[i].type
         /\ IF i < last THEN parts[i].content = items[i].content
            ELSE IsPrefix(parts[i].content, items[i].content)

\* The shorter one of two beginnings of a text is a prefix of the other.
LEMMA BeginningOf ==
    ASSUME NEW S, NEW g, g \in Texts(S), NEW R, R \in Texts(S), NEW c, c \in Texts(S),
           NEW d, d \in Texts(S), g ## R = c ## d, Len(g) =< Len(c)
    PROVE  IsPrefix(g, c)
<1>1. Len(g) \in Nat /\ Len(c) \in Nat
  BY ONLY TextFacts, g \in Texts(S), c \in Texts(S)
<1>2. First(c, Len(g)) = g
  BY ONLY ShiftText, g ## R = c ## d, Len(g) =< Len(c),
     g \in Texts(S), R \in Texts(S), c \in Texts(S), d \in Texts(S)
<1>3. SubSeq(g, 1, Len(g)) = g
  BY ONLY g \in Texts(S), SubSeqFull DEF Texts
<1>. QED
  BY ONLY <1>1, <1>2, <1>3, Len(g) =< Len(c) DEF IsPrefix, First

\* A text is a prefix of itself.
LEMMA WholeIsPrefix ==
    ASSUME NEW S, NEW g, g \in Texts(S)
    PROVE  IsPrefix(g, g)
<1>1. Len(g) \in Nat
  BY ONLY TextFacts, g \in Texts(S)
<1>. QED
  BY ONLY <1>1 DEF IsPrefix

\* A parser in its place has handed on what PartsInOrder says.
LEMMA PlacedInOrder ==
    ASSUME NEW S, NEW N, NEW items, NEW rest, Setting(S, N, items, rest),
           NEW p, p \in Parsers(S, N), NEW R, R \in Texts(S), Placed(p, R, items, rest)
    PROVE  InOrder(p.parts, items) /\ (p.valid => p.parts = items)
<1>1. /\ items \in Seq(Items(S, N)) /\ rest \in [0 .. Len(items) -> Texts(S)]
  BY ONLY Setting(S, N, items, rest) DEF Setting, FormOver
<1>2. PICK parts \in Seq(Items(S, N)) : parts = p.parts
  BY ONLY ParserFields, p \in Parsers(S, N)
<1>3. PICK k \in 0 .. Len(items) : PlacedAt(p, R, items, rest, k)
  BY ONLY Placed(p, R, items, rest) DEF Placed
<1>4. PICK n \in Nat, last \in Nat : n = Len(items) /\ last = Len(parts)
  BY ONLY <1>1, LenProperties, parts \in Seq(Items(S, N))
<1>5. k \in Nat /\ k =< n /\ k =< last /\ \A i \in 1 .. k : parts[i] = items[i]
  <2>1. WholeParts(parts, items, k)
    BY ONLY <1>2, <1>3 DEF PlacedAt
  <2>. QED
    BY ONLY <1>4, <2>1, k \in 0 .. Len(items) DEF WholeParts
<1>6. \A i \in 1 .. n : items[i].content \in Texts(S)
  <2>1. \A i \in 1 .. n : items[i] \in Items(S, N)
    BY ONLY <1>1, <1>4, ElementOfSeq
  <2>. QED
    BY ONLY <2>1 DEF Items
<1>7. \A i \in 1 .. k : /\ parts[i].name = items[i].name /\ parts[i].type = items[i].type
                        /\ parts[i].content = items[i].content
                        /\ IsPrefix(parts[i].content, items[i].content)
  <2>. SUFFICES ASSUME NEW i \in 1 .. k
                PROVE  /\ parts[i].name = items[i].name /\ parts[i].type = items[i].type
                       /\ parts[i].content = items[i].content
                       /\ IsPrefix(parts[i].content, items[i].content)
    OBVIOUS
  <2>1. i \in 1 .. n
    BY ONLY <1>4, <1>5, i \in 1 .. k, n \in Nat
  <2>2. IsPrefix(items[i].content, items[i].content)
    BY ONLY <1>6, <2>1, WholeIsPrefix
  <2>. QED
    BY ONLY <1>5, <2>2, i \in 1 .. k
<1>8. ASSUME (~p.valid /\ last = k) \/ AtEnd(p, R, items, k)
      PROVE  InOrder(parts, items) /\ (p.valid => parts = items)
  <2>1. last = k /\ (p.valid => k = n)
    BY ONLY <1>2, <1>4, <1>8 DEF AtEnd
  <2>2. InOrder(parts, items)
    BY ONLY <1>4, <1>5, <1>7, <2>1 DEF InOrder
  <2>3. ASSUME p.valid PROVE parts = items
    <3>1. Len(parts) = Len(items) /\ \A i \in 1 .. Len(parts) : parts[i] = items[i]
      BY ONLY <1>4, <1>5, <2>1, <2>3
    <3>. QED
      BY ONLY <1>1, <3>1, SeqEqual, parts \in Seq(Items(S, N))
  <2>. QED
    BY ONLY <2>2, <2>3
<1>9. CASE InContent(p, R, items, rest, k)
  <2>1. PICK j \in 1 .. n : j = k + 1
    BY ONLY <1>4, <1>5, <1>9, n \in Nat DEF InContent
  <2>2. /\ ~p.valid /\ last = j
        /\ parts[j].name = items[j].name /\ parts[j].type = items[j].type
        /\ parts[j].content ## R = Behind(items[j], rest[j])
        /\ Len(parts[j].content) =< Len(items[j].content)
    BY ONLY <1>2, <1>4, <1>9, <2>1 DEF InContent
  <2>3. PICK g \in Texts(S) : g = parts[j].content
    <3>1. parts[j] \in Items(S, N)
      <4>1. j \in 1 .. Len(parts)
        BY ONLY <1>4, <2>2, j \in 1 .. n
      <4>. QED
        BY ONLY <4>1, ElementOfSeq, parts \in Seq(Items(S, N))
    <3>. QED
      BY ONLY <3>1 DEF Items
  <2>4. PICK c \in Texts(S) : c = items[j].content
    BY ONLY <1>6, j \in 1 .. n
  <2>5. PICK d \in Texts(S) : g ## R = c ## d
    <3>1. Here(items, rest, k, items[j], rest[j])
      BY ONLY <1>4, <1>5, <2>1, n \in Nat, j \in 1 .. n, k \in 0 .. Len(items) DEF Here
    <3>2. CrlfDashBoundary ## rest[j] \in Texts(S)
      BY ONLY <3>1, ItemFacts, Setting(S, N, items, rest)
    <3>. QED
      BY ONLY <2>2, <2>3, <2>4, <3>2 DEF Behind
  <2>6. IsPrefix(g, c)
    BY ONLY <2>2, <2>3, <2>4, <2>5, BeginningOf, R \in Texts(S), g \in Texts(S),
       c \in Texts(S), d \in Texts(S)
  <2>7. ASSUME NEW i \in 1 .. last
        PROVE  /\ parts[i].name = items[i].name
               /\ parts[i].type = items[i].type
               /\ IF i < last THEN parts[i].content = items[i].content
                  ELSE IsPrefix(parts[i].content, items[i].content)
    <3>1. CASE i = j
      BY ONLY <2>2, <2>3, <2>4, <2>6, <3>1
    <3>2. CASE i # j
      <4>1. i \in 1 .. k /\ i < last
        BY ONLY <1>5, <2>1, <2>2, <3>2, i \in 1 .. last, n \in Nat
      <4>. QED
        BY ONLY <1>7, <4>1
    <3>. QED
      BY ONLY <3>1, <3>2
  <2>8. last =< n
    BY ONLY <2>1, <2>2, n \in Nat
  <2>9. InOrder(parts, items)
    BY ONLY <1>4, <2>7, <2>8 DEF InOrder
  <2>. QED
    BY ONLY <1>2, <2>2, <2>9
<1>10. CASE ~InContent(p, R, items, rest, k)
  <2>1. (~p.valid /\ last = k) \/ AtEnd(p, R, items, k)
    BY ONLY <1>2, <1>3, <1>4, <1>10 DEF PlacedAt, BeforeEntry, InHeaders, AtBoundary
  <2>. QED
    BY ONLY <1>2, <1>8, <2>1
<1>. QED
  BY ONLY <1>9, <1>10

-----------------------------------------------------------------------------
(* The inductive invariant behind PartsInOrder.                            *)

\* Until the first piece has missed the first delimiter, the parser of a form
\* is in its place; and one that is content has met the end of the form.
Carried ==
    ~IsPlain /\ ~cut => /\ FormTyped(parser, wire, body.items)
                        /\ OnWay(parser, wire, offset, body.items)
Settled == ~IsPlain /\ verdict = "true" => parser.valid

FormInv == WholeInv /\ Carried /\ Settled

\* What the assumptions say of a form that is on its way.
LEMMA FormFacts ==
    ASSUME Typed, ~IsPlain
    PROVE  /\ IsForm(body.items) /\ body.from = 0
           /\ body.content \in Seq(Range(body.content))
           /\ IsPrefix(body.content, Serialize(body.items))
           /\ offset \in Nat /\ Len(body.content) \in Nat /\ body.end =< Len(body.content)
           /\ offset \in 0 .. Len(Serialize(body.items))
<1>1. body \in Bodies
  BY DEF Typed
<1>2. /\ body.from = 0 /\ IsForm(body.items)
      /\ IsPrefix(body.content, Serialize(body.items))
  BY ONLY <1>1, ~IsPlain, FormsAssumption, Zenon DEF IsPlain
<1>3. /\ body.content \in Seq(Range(body.content)) /\ Len(body.content) \in Nat
      /\ offset \in Nat /\ offset =< Len(body.content)
      /\ body.end =< Len(body.content)
  BY BodyFacts DEF Tokens
<1>4. Len(Serialize(body.items)) \in Nat
  BY ONLY <1>2, RestOfForm, TextFacts
<1>5. Len(body.content) =< Len(Serialize(body.items))
  BY ONLY <1>2 DEF IsPrefix
<1>6. offset \in 0 .. Len(Serialize(body.items))
  BY ONLY <1>3, <1>4, <1>5
<1>. QED
  BY ONLY <1>2, <1>3, <1>6

\* The invariant holds at the start,
LEMMA InitForm == Init => FormInv
<1>. SUFFICES ASSUME Init PROVE FormInv
  OBVIOUS
<1>1. WholeInv
  BY InitWhole
<1>2. /\ offset = body.from /\ wire = <<>> /\ parser = FreshParser /\ verdict = "reading"
  BY DEF Init
<1>3. Settled
  BY <1>2 DEF Settled
<1>4. ASSUME ~IsPlain
      PROVE  FormTyped(parser, wire, body.items) /\ OnWay(parser, wire, offset, body.items)
  <2>1. IsForm(body.items) /\ offset = 0
    BY ONLY <1>1, <1>2, <1>4, FormFacts DEF WholeInv
  <2>2. PICK S, N, whole : /\ S = FormTokens(body.items) /\ N = Names(body.items)
                           /\ whole = Serialize(body.items)
    OBVIOUS
  <2>3. whole \in Texts(S) /\ NoType \in N
    BY ONLY <2>1, <2>2, RestOfForm
  <2>4. <<>> \in Texts(S)
    BY ONLY TextFacts
  <2>5. FreshParser \in Parsers(S, N)
    BY ONLY <2>3, <2>4, FreshStarts
  <2>6. Drop(whole, 0) = whole
    <3>1. 0 + 1 = 1
      OBVIOUS
    <3>. QED
      BY ONLY <2>3, <3>1, SubSeqFull DEF Drop, Texts
  <2>7. <<>> ## Drop(whole, 0) = whole
    BY ONLY <2>3, <2>6, TextFacts
  <2>. QED
    BY ONLY <1>2, <2>1, <2>2, <2>4, <2>5, <2>7 DEF FormTyped, OnWay, Ahead
<1>. QED
  BY <1>1, <1>3, <1>4 DEF FormInv, Carried

\* after a write,
LEMMA ProvideForm ==
    ASSUME FormInv, NEW n \in 0 .. Window,
           (n # 0 /\ Provide(n)) \/ \E m \in 1 .. Len(body.content) : ProvidePart(m, n)
    PROVE  Carried' /\ Settled'
<1>1. /\ offset + n =< body.end
      /\ wire' = wire \o SubSeq(body.content, offset + 1, offset + n)
      /\ offset' = offset + n
      /\ body' = body /\ verdict' = verdict /\ parser' = parser /\ cut' = cut
  <2>1. CASE n # 0 /\ Provide(n)
    BY <2>1, Zenon DEF Provide, readerVars
  <2>2. ASSUME NEW m \in 1 .. Len(body.content), ProvidePart(m, n)
        PROVE  /\ offset + n =< body.end
               /\ wire' = wire \o SubSeq(body.content, offset + 1, offset + n)
               /\ offset' = offset + n
               /\ body' = body /\ verdict' = verdict /\ parser' = parser /\ cut' = cut
    <3>1. /\ n < m /\ offset + m =< body.end
          /\ wire' = wire \o SubSeq(body.content, offset + 1, offset + n)
          /\ offset' = offset + n
          /\ body' = body /\ verdict' = verdict /\ parser' = parser /\ cut' = cut
      BY <2>2, Zenon DEF ProvidePart, readerVars
    <3>2. offset \in Nat /\ body.end \in Nat /\ m \in Nat /\ n \in Nat
      <4>1. offset \in Nat /\ body.end \in 0 .. Len(body.content) /\ Len(body.content) \in Nat
        BY BodyFacts DEF FormInv, WholeInv
      <4>. QED
        BY ONLY <4>1, WindowAssumption, n \in 0 .. Window, m \in 1 .. Len(body.content)
    <3>. QED
      BY ONLY <3>1, <3>2
  <2>. QED
    BY <2>1, <2>2, Zenon
<1>2. Typed /\ Carried /\ Settled
  BY DEF FormInv, WholeInv
<1>3. Settled'
  BY <1>1, <1>2, Zenon DEF Settled, IsPlain
<1>4. ASSUME ~IsPlain, ~cut
      PROVE  FormTyped(parser, wire', body.items) /\ OnWay(parser, wire', offset + n, body.items)
  <2>1. n \in Nat
    BY WindowAssumption
  <2>2. /\ IsForm(body.items) /\ Sends(body.content, offset, n, Serialize(body.items))
    <3>1. /\ body.content \in Seq(Range(body.content))
          /\ IsPrefix(body.content, Serialize(body.items))
          /\ offset \in Nat /\ IsForm(body.items)
          /\ Len(body.content) \in Nat /\ body.end =< Len(body.content)
      BY ONLY <1>2, <1>4, FormFacts
    <3>2. body.end \in Nat
      BY <1>2, BodyFacts
    <3>3. offset + n =< Len(body.content)
      BY ONLY <1>1, <2>1, <3>1, <3>2
    <3>. QED
      BY ONLY <2>1, <3>1, <3>3 DEF Sends
  <2>3. FormTyped(parser, wire, body.items) /\ OnWay(parser, wire, offset, body.items)
    BY ONLY <1>2, <1>4 DEF Carried
  <2>. QED
    BY ONLY <1>1, <2>1, <2>2, <2>3, ProvidedOnWay
<1>5. Carried'
  BY ONLY <1>1, <1>4, Zenon DEF Carried, IsPlain
<1>. QED
  BY <1>3, <1>5

\* after a read,
LEMMA ReadPieceForm ==
    ASSUME FormInv, NEW n \in 1 .. Window, ReadPiece(n)
    PROVE  Carried' /\ Settled'
<1>1. /\ verdict = "reading" /\ n =< Len(wire) /\ Take(n)
      /\ body' = body /\ offset' = offset
  BY Zenon DEF ReadPiece, writerVars
<1>2. verdict' = "true" => IsPlain \/ parser'.valid
  BY DEF ReadPiece, Conclude, IsPlain
<1>3. Settled'
  BY ONLY <1>1, <1>2, Zenon DEF Settled, IsPlain
<1>4. Typed /\ Carried
  BY DEF FormInv, WholeInv
<1>5. n \in 0 .. Len(wire)
  BY ONLY <1>1, <1>4, Lengths, WindowAssumption, n \in 1 .. Window
<1>6. ASSUME ~IsPlain, ~cut'
      PROVE  FormTyped(parser', wire', body.items) /\ OnWay(parser', wire', offset, body.items)
  <2>1. /\ wire' = Drop(wire, n) /\ parser' = Parse(parser, First(wire, n))
        /\ cut' = (cut \/ (parser = FreshParser /\ Parse(parser, First(wire, n)).state = 0))
    BY ONLY <1>1, <1>6 DEF Take, IsPlain, Drop, First
  <2>2. ~cut /\ ~(parser = FreshParser /\ Parse(parser, First(wire, n)).state = 0)
    BY ONLY <1>6, <2>1
  <2>3. FormTyped(parser, wire, body.items) /\ OnWay(parser, wire, offset, body.items)
    BY ONLY <1>4, <1>6, <2>2 DEF Carried
  <2>4. IsForm(body.items) /\ offset \in 0 .. Len(Serialize(body.items))
    BY ONLY <1>4, <1>6, FormFacts
  <2>. QED
    BY ONLY <1>5, <2>1, <2>2, <2>3, <2>4, ReadOnWay
<1>7. Carried'
  BY ONLY <1>1, <1>6, Zenon DEF Carried, IsPlain
<1>. QED
  BY <1>3, <1>7

\* A step that moves no token of a form.
LEMMA QuietForm ==
    ASSUME FormInv, UNCHANGED <<body, offset, wire, parser, cut>>,
           verdict' = verdict \/ (verdict' = "true" => IsPlain \/ parser'.valid)
    PROVE  Carried' /\ Settled'
<1>1. /\ body' = body /\ offset' = offset /\ wire' = wire /\ parser' = parser /\ cut' = cut
  OBVIOUS
<1>2. Carried /\ Settled
  BY DEF FormInv
<1>3. Carried'
  BY ONLY <1>1, <1>2, Zenon DEF Carried, IsPlain
<1>4. Settled'
  BY ONLY <1>1, <1>2, Zenon, verdict' = verdict \/ (verdict' = "true" => IsPlain \/ parser'.valid)
  DEF Settled, IsPlain
<1>. QED
  BY <1>3, <1>4

\* and after every step.
LEMMA NextForm == FormInv /\ [Next]_vars => FormInv'
<1>. SUFFICES ASSUME FormInv, [Next]_vars PROVE Carried' /\ Settled'
  BY NextWhole DEF FormInv
<1>1. CASE \E n \in 0 .. Window :
              (n # 0 /\ Provide(n)) \/ \E m \in 1 .. Len(body.content) : ProvidePart(m, n)
  BY <1>1, ProvideForm, Zenon
<1>2. CASE \E n \in 1 .. Window : ReadPiece(n)
  BY <1>2, ReadPieceForm, Zenon
<1>3. CASE ProvideDone \/ ProvideNothing
  BY <1>3, QuietForm DEF ProvideDone, ProvideNothing, readerVars
<1>4. CASE WriteReturns \/ WriteFails \/ ShutDown \/ CloseWriter
  BY <1>4, QuietForm DEF WriteReturns, WriteFails, ShutDown, CloseWriter, readerVars
<1>5. CASE ReadSize
  <2>1. UNCHANGED <<body, offset, wire, parser, cut>>
    BY <1>5 DEF ReadSize, writerVars
  <2>2. verdict' = verdict \/ (verdict' = "true" => IsPlain \/ parser'.valid)
    BY <1>5 DEF ReadSize, Conclude, IsPlain
  <2>. QED
    BY ONLY <2>1, <2>2, QuietForm, FormInv
<1>6. CASE ReadFails
  <2>1. UNCHANGED <<body, offset, wire, parser, cut>>
    BY <1>6 DEF ReadFails, writerVars
  <2>2. verdict' = "true" => IsPlain \/ parser'.valid
    BY <1>6 DEF ReadFails, Conclude, IsPlain
  <2>. QED
    BY ONLY <2>1, <2>2, QuietForm, FormInv
<1>7. CASE UNCHANGED vars
  BY <1>7, QuietForm DEF vars, writerVars, readerVars
<1>8. CASE ReceiverRefuses
  BY <1>8, QuietForm DEF ReceiverRefuses, writerVars
<1>9. ASSUME NEW n \in 1 .. Window, Provide(n)
      PROVE  \E k \in 0 .. Window :
                (k # 0 /\ Provide(k)) \/ \E m \in 1 .. Len(body.content) : ProvidePart(m, k)
  <2>1. n \in 0 .. Window /\ n # 0
    BY ONLY WindowAssumption, n \in 1 .. Window
  <2>. QED
    BY ONLY <1>9, <2>1, Zenon
<1>. QED
  BY ONLY <1>1, <1>2, <1>3, <1>4, <1>5, <1>6, <1>7, <1>8, <1>9, [Next]_vars, Zenon
  DEF Next, Write, Read

\* The invariant says what PartsInOrder promises.
LEMMA FormInvInOrder == FormInv => PartsInOrder
<1>. SUFFICES ASSUME FormInv, ~IsPlain, ~cut, verdict # "false"
              PROVE  /\ InOrder(parser.parts, body.items)
                     /\ verdict = "true" => parser.parts = body.items
  BY Zenon DEF PartsInOrder, InOrder, IsPlain
<1>1. /\ FormTyped(parser, wire, body.items) /\ OnWay(parser, wire, offset, body.items)
      /\ verdict = "true" => parser.valid
  BY Zenon DEF FormInv, Carried, Settled
<1>2. IsForm(body.items) /\ offset \in 0 .. Len(Serialize(body.items))
  BY ONLY FormInv, ~IsPlain, FormFacts DEF FormInv, WholeInv
<1>3. PICK S, N, rest : /\ S = FormTokens(body.items) /\ N = Names(body.items)
                        /\ rest = RestOf(body.items)
  OBVIOUS
<1>4. /\ Setting(S, N, body.items, rest) /\ NoType \in N
      /\ Serialize(body.items) \in Texts(S)
  BY ONLY <1>2, <1>3, RestOfForm
<1>5. wire \in Texts(S) /\ parser \in Parsers(S, N)
  BY ONLY <1>1, <1>3 DEF FormTyped
<1>6. CASE parser = FreshParser
  <2>1. parser.parts = <<>> /\ parser.valid = FALSE
    <3>1. <<>> \in Texts(S)
      BY ONLY TextFacts
    <3>. QED
      BY ONLY <1>4, <1>6, <3>1, FreshStarts
  <2>2. Len(body.items) \in Nat
    BY ONLY <1>2, LenProperties DEF IsForm
  <2>3. Len(parser.parts) = 0
    BY ONLY <2>1
  <2>4. InOrder(parser.parts, body.items)
    BY ONLY <2>2, <2>3 DEF InOrder
  <2>. QED
    BY ONLY <1>1, <2>1, <2>4
<1>7. CASE Placed(parser, parser.buf ## Ahead(wire, offset, body.items), body.items, rest)
  <2>1. PICK R : R = parser.buf ## Ahead(wire, offset, body.items)
    OBVIOUS
  <2>2. R \in Texts(S)
    <3>1. PICK d \in Texts(S) : d = Drop(Serialize(body.items), offset)
      BY ONLY <1>2, <1>4, CutText
    <3>2. PICK a \in Texts(S) : a = wire ## d
      BY ONLY <1>5, TextFacts, d \in Texts(S)
    <3>3. parser.buf \in Texts(S)
      BY ONLY <1>5, ParserFields
    <3>. QED
      BY ONLY <2>1, <3>1, <3>2, <3>3, TextFacts DEF Ahead
  <2>3. /\ InOrder(parser.parts, body.items)
        /\ parser.valid => parser.parts = body.items
    BY ONLY <1>4, <1>5, <1>7, <2>1, <2>2, PlacedInOrder
  <2>. QED
    BY ONLY <1>1, <2>3
<1>. QED
  BY ONLY <1>1, <1>3, <1>6, <1>7 DEF OnWay

\* A receiver that reads a form is given its items one by one, each with its
\* own content and nothing else, and a form that is taken for whole is the one
\* that was written: MultipartFormDataParser against
\* serialize_multipart_formdata, for every form and every way the writes and
\* the reads cut it, unless the first read ends before the first delimiter does.
THEOREM FormsInOrder == Spec => []PartsInOrder
<1>1. Init => FormInv
  BY InitForm
<1>2. FormInv /\ [Next]_vars => FormInv'
  BY NextForm
<1>3. FormInv => PartsInOrder
  BY FormInvInOrder
<1>. QED
  BY <1>1, <1>2, <1>3, PTL DEF Spec

-----------------------------------------------------------------------------
(* Path parameters: CapturesExact.                                         *)

LEMMA MinIs ==
    ASSUME NEW D \in SUBSET Nat, NEW n \in D, \A m \in D : n =< m
    PROVE  Min(D) = n
<1>1. Min(D) \in D /\ \A m \in D : Min(D) =< m
  BY DEF Min
<1>2. Min(D) \in Nat /\ n \in Nat /\ Min(D) >= n /\ Min(D) =< n
  BY <1>1
<1>. QED
  BY <1>2

\* What find returns: r, in a sequence of length n.
Found(s, x, from, r) ==
    /\ r \in 0 .. Len(s)
    /\ from =< Len(s) => from =< r
    /\ from >= Len(s) => r = Len(s)
    /\ r < Len(s) => s[r + 1] = x
    /\ \A i \in from + 1 .. r : s[i] # x

LEMMA FoundIs ==
    ASSUME NEW s, Len(s) \in Nat, NEW x, NEW from \in Nat
    PROVE  Found(s, x, from, FindFrom(s, x, from))
<1>. DEFINE D == {i \in from .. Len(s) - 1 : s[i + 1] = x} \cup {Len(s)}
<1>1. D \in SUBSET Nat /\ D # {}
  OBVIOUS
<1>2. PICK r \in D : \A m \in D : r =< m
  BY <1>1, Least
<1>3. FindFrom(s, x, from) = r
  BY <1>1, <1>2, MinIs DEF FindFrom
<1>4. /\ r \in 0 .. Len(s)
      /\ from =< Len(s) => from =< r
      /\ from >= Len(s) => r = Len(s)
      /\ r < Len(s) => s[r + 1] = x
  <2>1. Len(s) \in D
    OBVIOUS
  <2>2. r =< Len(s)
    BY <1>2, <2>1
  <2>3. r = Len(s) \/ (r \in from .. Len(s) - 1 /\ s[r + 1] = x)
    BY r \in D
  <2>. QED
    BY ONLY <2>2, <2>3, Len(s) \in Nat, from \in Nat
<1>5. ASSUME NEW i \in from + 1 .. r PROVE s[i] # x
  <2>. SUFFICES ASSUME s[i] = x PROVE FALSE
    OBVIOUS
  <2>1. i - 1 \in from .. Len(s) - 1 /\ s[(i - 1) + 1] = x /\ ~(r =< i - 1)
    <3>1. i \in Nat /\ r =< Len(s) /\ r \in Nat
      BY <1>4
    <3>2. (i - 1) + 1 = i
      BY <3>1
    <3>3. i - 1 \in from .. Len(s) - 1 /\ ~(r =< i - 1)
      BY ONLY <3>1, from \in Nat, Len(s) \in Nat, i \in from + 1 .. r
    <3>. QED
      BY <3>2, <3>3
  <2>2. \A j \in from .. Len(s) - 1 : s[j + 1] = x => j \in D
    OBVIOUS
  <2>3. i - 1 \in D
    BY ONLY <2>1, <2>2
  <2>. QED
    BY ONLY <1>2, <2>1, <2>3
<1>. QED
  BY <1>3, <1>4, <1>5 DEF Found

LEMMA FoundOnce ==
    ASSUME NEW s, Len(s) \in Nat, NEW x, NEW from \in Nat, NEW r \in from .. Len(s),
           r = Len(s) \/ s[r + 1] = x, \A i \in from + 1 .. r : s[i] # x
    PROVE  FindFrom(s, x, from) = r
<1>. DEFINE q == FindFrom(s, x, from)
<1>1. Found(s, x, from, q)
  BY FoundIs
<1>. HIDE DEF q
<1>2. q \in from .. Len(s) /\ (q < Len(s) => s[q + 1] = x) /\ \A i \in from + 1 .. q : s[i] # x
  BY <1>1 DEF Found
<1>3. CASE q < r
  <2>1. q + 1 \in from + 1 .. r /\ q < Len(s)
    BY <1>2, <1>3
  <2>. QED
    BY <1>2, <2>1
<1>4. CASE q > r
  <2>1. r + 1 \in from + 1 .. q /\ r # Len(s)
    BY <1>2, <1>4
  <2>. QED
    BY <1>2, <2>1
<1>. QED
  BY <1>2, <1>3, <1>4 DEF q

-----------------------------------------------------------------------------
(* Where the constructor cuts a pattern.                                   *)

MarkerAt(pattern, from) == FindFrom(pattern, Marker, from)
EndAt(pattern, from)    == FindFrom(pattern, Separator, MarkerAt(pattern, from) + 1)

\* The first k rounds of the constructor begin at cuts[0], cuts[1], ...
Cuts(pattern, cuts, k) ==
    /\ cuts[0] = 0
    /\ \A i \in 1 .. k :
          /\ MarkerAt(pattern, cuts[i - 1]) < Len(pattern)
          /\ cuts[i] = EndAt(pattern, cuts[i - 1]) + 1

\* What the constructor has after k rounds.
CutUp(pattern, cuts, k, so) ==
    /\ so.from = cuts[k]
    /\ Len(so.names) = k
    /\ Len(so.fragments) = k
    /\ \A i \in 1 .. k :
          so.fragments[i] = Substr(pattern, cuts[i - 1], MarkerAt(pattern, cuts[i - 1]))

ScanStates(T) == [fragments : Seq(Seq(T)), names : Seq(Seq(T)), from : Nat]

LEMMA SubstrType ==
    ASSUME NEW T, NEW s \in Seq(T), NEW a \in Nat, NEW b \in 0 .. Len(s)
    PROVE  /\ Substr(s, a, b) \in Seq(T)
           /\ Len(Substr(s, a, b)) = IF a =< b THEN b - a ELSE 0
           /\ \A i \in 1 .. Len(Substr(s, a, b)) : Substr(s, a, b)[i] = s[a + i]
<1>1. \A i \in a + 1 .. b : s[i] \in T
  <2>1. Len(s) \in Nat
    BY LenProperties
  <2>2. \A i \in a + 1 .. b : i \in 1 .. Len(s)
    BY <2>1
  <2>. QED
    BY <2>2, ElementOfSeq
<1>2. /\ SubSeq(s, a + 1, b) \in Seq(T)
      /\ Len(SubSeq(s, a + 1, b)) = IF a + 1 <= b THEN b - (a + 1) + 1 ELSE 0
      /\ \A i \in 1 .. b - (a + 1) + 1 : SubSeq(s, a + 1, b)[i] = s[(a + 1) + i - 1]
  <2>1. a + 1 \in Int /\ b \in Int
    OBVIOUS
  <2>. QED
    BY ONLY <1>1, <2>1, SubSeqProperties
<1>3. PICK t : t = SubSeq(s, a + 1, b)
  OBVIOUS
<1>4. /\ t \in Seq(T)
      /\ Len(t) = IF a + 1 <= b THEN b - (a + 1) + 1 ELSE 0
      /\ \A i \in 1 .. b - (a + 1) + 1 : t[i] = s[(a + 1) + i - 1]
  BY ONLY <1>2, <1>3
<1>5. Len(t) = IF a =< b THEN b - a ELSE 0
  BY ONLY <1>4, a \in Nat, b \in Nat
<1>6. \A i \in 1 .. Len(t) : i \in 1 .. b - (a + 1) + 1 /\ (a + 1) + i - 1 = a + i
  BY ONLY <1>5, a \in Nat, b \in Nat
<1>. QED
  BY ONLY <1>3, <1>4, <1>5, <1>6 DEF Substr

\* A round takes a scan state to a scan state.
LEMMA ScannedType ==
    ASSUME NEW T, NEW pattern \in Seq(T), NEW so \in ScanStates(T)
    PROVE  Scanned(pattern, so) \in ScanStates(T)
<1>. DEFINE marker == MarkerAt(pattern, so.from)
            end    == EndAt(pattern, so.from)
            fragment == Substr(pattern, so.from, marker)
            name     == Substr(pattern, marker + 1, end)
<1>1. Len(pattern) \in Nat /\ so.from \in Nat
  BY LenProperties DEF ScanStates
<1>2. marker \in 0 .. Len(pattern)
  BY <1>1, FoundIs DEF Found, MarkerAt
<1>3. end \in 0 .. Len(pattern)
  BY <1>1, <1>2, FoundIs DEF Found, EndAt
<1>4. Scanned(pattern, so) =
        IF marker = Len(pattern) THEN so
        ELSE [fragments |-> Append(so.fragments, fragment),
              names |-> Append(so.names, name), from |-> end + 1]
  BY DEF Scanned, MarkerAt, EndAt
<1>. HIDE DEF marker, end
<1>5. fragment \in Seq(T) /\ name \in Seq(T)
  <2>1. marker + 1 \in Nat
    BY <1>2
  <2>. QED
    BY <1>1, <1>2, <1>3, <2>1, SubstrType
<1>. HIDE DEF fragment, name
<1>6. Append(so.fragments, fragment) \in Seq(Seq(T)) /\ Append(so.names, name) \in Seq(Seq(T))
  BY <1>5 DEF ScanStates
<1>7. end + 1 \in Nat
  BY <1>3
<1>. QED
  BY <1>4, <1>6, <1>7 DEF ScanStates

\* Marker, end and the next round's beginning, in order.
LEMMA CutInOrder ==
    ASSUME NEW pattern, Len(pattern) \in Nat, NEW from \in Nat,
           MarkerAt(pattern, from) < Len(pattern)
    PROVE  /\ from < Len(pattern)
           /\ MarkerAt(pattern, from) \in from .. Len(pattern) - 1
           /\ EndAt(pattern, from) \in MarkerAt(pattern, from) + 1 .. Len(pattern)
<1>. DEFINE marker == MarkerAt(pattern, from)
            end    == EndAt(pattern, from)
<1>1. Found(pattern, Marker, from, marker)
  BY FoundIs DEF MarkerAt
<1>2. marker \in Nat /\ from < Len(pattern) /\ from =< marker
  BY <1>1 DEF Found
<1>3. Found(pattern, Separator, marker + 1, end)
  BY <1>2, FoundIs DEF EndAt
<1>. HIDE DEF marker, end
<1>4. marker < Len(pattern)
  BY DEF marker
<1>5. end \in 0 .. Len(pattern) /\ marker + 1 =< end
  BY <1>2, <1>3, <1>4 DEF Found
<1>6. marker \in from .. Len(pattern) - 1 /\ end \in marker + 1 .. Len(pattern)
  BY ONLY <1>2, <1>4, <1>5, Len(pattern) \in Nat, from \in Nat
<1>. QED
  BY <1>2, <1>6 DEF marker, end

LEMMA CutsGrow ==
    ASSUME NEW pattern, Len(pattern) \in Nat, NEW k \in Nat, NEW cuts,
           \A i \in 0 .. k : cuts[i] \in Nat, Cuts(pattern, cuts, k)
    PROVE  \A i \in 0 .. k : cuts[i] >= i
<1>. DEFINE D == {i \in Nat : i =< k => cuts[i] >= i}
<1>1. 0 \in D
  BY DEF Cuts
<1>2. ASSUME NEW i \in Nat, i \in D PROVE i + 1 \in D
  <2>. SUFFICES ASSUME i + 1 =< k PROVE cuts[i + 1] >= i + 1
    OBVIOUS
  <2>1. i + 1 \in 1 .. k /\ (i + 1) - 1 = i /\ i \in 0 .. k
    OBVIOUS
  <2>2. MarkerAt(pattern, cuts[i]) < Len(pattern) /\ cuts[i + 1] = EndAt(pattern, cuts[i]) + 1
    BY <2>1 DEF Cuts
  <2>3. cuts[i] \in Nat /\ cuts[i] >= i
    BY <1>2, <2>1
  <2>4. /\ MarkerAt(pattern, cuts[i]) \in cuts[i] .. Len(pattern) - 1
        /\ EndAt(pattern, cuts[i]) \in MarkerAt(pattern, cuts[i]) + 1 .. Len(pattern)
    BY <2>2, <2>3, CutInOrder
  <2>. QED
    BY ONLY <2>2, <2>3, <2>4, i \in Nat, Len(pattern) \in Nat
<1>. HIDE DEF D
<1>3. Nat \subseteq D
  BY <1>1, <1>2, Induction
<1>. QED
  BY <1>3 DEF D

\* A round that finds a marker.
LEMMA RoundCuts ==
    ASSUME NEW T, NEW pattern \in Seq(T), NEW k \in Nat, NEW cuts, NEW so \in ScanStates(T),
           Cuts(pattern, cuts, k), CutUp(pattern, cuts, k, so),
           MarkerAt(pattern, so.from) # Len(pattern),
           cuts[k + 1] = Scanned(pattern, so).from
    PROVE  Cuts(pattern, cuts, k + 1) /\ CutUp(pattern, cuts, k + 1, Scanned(pattern, so))
<1>. DEFINE marker == MarkerAt(pattern, so.from)
            end    == EndAt(pattern, so.from)
            fragment == Substr(pattern, so.from, marker)
            name     == Substr(pattern, marker + 1, end)
            next     == Scanned(pattern, so)
<1>1. so.from = cuts[k] /\ so.from \in Nat /\ Len(pattern) \in Nat
  BY LenProperties DEF CutUp, ScanStates
<1>2. marker < Len(pattern)
  BY <1>1, FoundIs DEF Found, MarkerAt
<1>3. next = [fragments |-> Append(so.fragments, fragment),
              names |-> Append(so.names, name), from |-> end + 1]
  BY DEF Scanned, MarkerAt, EndAt
<1>4. fragment \in Seq(T) /\ name \in Seq(T)
  <2>1. marker \in so.from .. Len(pattern) - 1 /\ end \in marker + 1 .. Len(pattern)
    BY <1>1, <1>2, CutInOrder
  <2>. HIDE DEF marker, end
  <2>2. marker \in 0 .. Len(pattern) /\ end \in 0 .. Len(pattern) /\ marker + 1 \in Nat
    BY ONLY <1>1, <2>1
  <2>. QED
    BY <1>1, <2>2, SubstrType
<1>5. /\ Len(Append(so.names, name)) = k + 1
      /\ Len(Append(so.fragments, fragment)) = k + 1
      /\ Append(so.fragments, fragment)[k + 1] = fragment
      /\ \A i \in 1 .. k : Append(so.fragments, fragment)[i] = so.fragments[i]
  <2>. HIDE DEF fragment, name
  <2>1. so.names \in Seq(Seq(T)) /\ so.fragments \in Seq(Seq(T))
    BY DEF ScanStates
  <2>2. Len(so.names) = k /\ Len(so.fragments) = k
    BY DEF CutUp
  <2>3. ASSUME NEW t \in Seq(Seq(T)), Len(t) = k, NEW e \in Seq(T)
        PROVE  /\ Len(Append(t, e)) = k + 1 /\ Append(t, e)[k + 1] = e
               /\ \A i \in 1 .. k : Append(t, e)[i] = t[i]
    BY ONLY <2>3, AppendProperties
  <2>. QED
    BY <1>4, <2>1, <2>2, <2>3
<1>6. /\ marker = MarkerAt(pattern, cuts[k]) /\ end = EndAt(pattern, cuts[k])
      /\ fragment = Substr(pattern, cuts[k], MarkerAt(pattern, cuts[k]))
  BY <1>1
<1>. HIDE DEF marker, end, fragment, name
<1>7. /\ next.from = end + 1
      /\ next.names = Append(so.names, name)
      /\ next.fragments = Append(so.fragments, fragment)
  BY <1>3
<1>8. \A i \in 1 .. k + 1 : i \in 1 .. k \/ i = k + 1
  OBVIOUS
<1>9. (k + 1) - 1 = k
  OBVIOUS
<1>. HIDE DEF next
<1>10. Cuts(pattern, cuts, k + 1)
  <2>1. cuts[k + 1] = EndAt(pattern, cuts[k]) + 1
    BY <1>6, <1>7 DEF next
  <2>2. MarkerAt(pattern, cuts[k]) < Len(pattern)
    BY <1>2, <1>6
  <2>. QED
    BY <1>8, <1>9, <2>1, <2>2 DEF Cuts
<1>11. CutUp(pattern, cuts, k + 1, next)
  <2>1. next.from = cuts[k + 1]
    BY DEF next
  <2>2. ASSUME NEW i \in 1 .. k + 1
        PROVE  next.fragments[i] = Substr(pattern, cuts[i - 1], MarkerAt(pattern, cuts[i - 1]))
    <3>1. CASE i \in 1 .. k
      BY <1>5, <1>7, <3>1 DEF CutUp
    <3>2. CASE i = k + 1
      BY <1>5, <1>6, <1>7, <1>9, <3>2
    <3>. QED
      BY <1>8, <3>1, <3>2
  <2>. QED
    BY <1>5, <1>7, <2>1, <2>2 DEF CutUp
<1>. QED
  BY <1>10, <1>11 DEF next

LEMMA ScanIs ==
    ASSUME NEW T, NEW pattern \in Seq(T)
    PROVE  \E m \in 0 .. Len(pattern) : \E cuts \in [0 .. m -> Nat] :
              /\ Cuts(pattern, cuts, m)
              /\ Scan(pattern) \in ScanStates(T)
              /\ CutUp(pattern, cuts, m, Scan(pattern))
              /\ MarkerAt(pattern, cuts[m]) = Len(pattern)
<1>. DEFINE n == Len(pattern)
            start == [fragments |-> <<>>, names |-> <<>>, from |-> 0]
            Scanning(f) ==
              f = [i \in 0 .. n |-> IF i = 0 THEN start ELSE Scanned(pattern, f[i - 1])]
            step == [x \in (1 .. n) \X ScanStates(T) |-> Scanned(pattern, x[2])]
<1>1. n \in Nat
  BY LenProperties
<1>2. start \in ScanStates(T)
  <2>1. << >> \in Seq(Seq(T))
    OBVIOUS
  <2>. QED
    BY <2>1 DEF ScanStates
<1>3. step \in [(1 .. n) \X ScanStates(T) -> ScanStates(T)]
  BY <1>1, ScannedType
<1>4. Len(start.names) = 0 /\ Len(start.fragments) = 0 /\ start.from = 0
  OBVIOUS
<1>. HIDE DEF n, start
<1>5. PICK G \in [0 .. n -> ScanStates(T)] : Steps(start, step, n, G)
  <2>. HIDE DEF step
  <2>1. n \in 0 .. n
    BY <1>1
  <2>. QED
    BY <1>1, <1>2, <1>3, <2>1, StepsExist
<1>6. G[0] = start /\ \A i \in 1 .. n : G[i] = Scanned(pattern, G[i - 1])
  <2>1. G[0] = start /\ \A i \in 1 .. n : G[i] = step[<<i, G[i - 1]>>]
    BY <1>5 DEF Steps
  <2>2. ASSUME NEW i \in 1 .. n PROVE step[<<i, G[i - 1]>>] = Scanned(pattern, G[i - 1])
    <3>1. i - 1 \in 0 .. n
      BY <1>1
    <3>2. G[i - 1] \in ScanStates(T)
      BY <3>1
    <3>. QED
      BY <3>2
  <2>. QED
    BY <2>1, <2>2
<1>. HIDE DEF step
<1>7. Scan(pattern) = G[n]
  <2>. DEFINE f == CHOOSE h : Scanning(h)
  <2>1. Scanning(G)
    <3>1. ASSUME NEW i \in 0 .. n
          PROVE  G[i] = IF i = 0 THEN start ELSE Scanned(pattern, G[i - 1])
      <4>1. i # 0 => i \in 1 .. n
        BY <1>1
      <4>. QED
        BY <1>6, <4>1
    <3>2. G = [i \in 0 .. n |-> G[i]]
      OBVIOUS
    <3>3. [i \in 0 .. n |-> G[i]] =
          [i \in 0 .. n |-> IF i = 0 THEN start ELSE Scanned(pattern, G[i - 1])]
      BY <3>1, Zenon
    <3>. QED
      BY <3>2, <3>3, Zenon
  <2>2. Scanning(f)
    BY <2>1, Zenon
  <2>3. Scan(pattern) = f[n]
    BY Zenon DEF Scan, n, start
  <2>. HIDE DEF f
  <2>4. Over(f, n) /\ Over(G, n)
    BY <2>1, <2>2 DEF Over
  <2>5. ASSUME NEW h, Scanning(h)
        PROVE  h[0] = start /\ \A i \in 1 .. n : h[i] = Scanned(pattern, h[i - 1])
    <3>1. \A i \in 0 .. n : h[i] = IF i = 0 THEN start ELSE Scanned(pattern, h[i - 1])
      BY <2>5
    <3>2. 0 \in 0 .. n /\ \A i \in 1 .. n : i \in 0 .. n /\ i # 0
      BY <1>1
    <3>. QED
      BY <3>1, <3>2
  <2>. HIDE DEF Scanning
  <2>6. f = G
    BY <1>1, <2>1, <2>2, <2>4, <2>5, SameSteps
  <2>. QED
    BY <2>3, <2>6
<1>. HIDE DEF Scanning
<1>. DEFINE c == [i \in 0 .. n |-> G[i].from]
            CutAt(i, m) ==
              /\ m =< i
              /\ Cuts(pattern, c, m) /\ CutUp(pattern, c, m, G[i])
              /\ m = i \/ MarkerAt(pattern, G[i].from) = n
            D == {i \in Nat : i =< n => \E m \in 0 .. n : CutAt(i, m)}
<1>8. \A i \in 0 .. n : c[i] = G[i].from /\ c[i] \in Nat
  BY DEF ScanStates
<1>. HIDE DEF c
<1>9. 0 \in D
  <2>1. 0 \in 0 .. n
    BY <1>1
  <2>2. c[0] = 0
    BY <1>4, <1>6, <1>8, <2>1
  <2>3. Cuts(pattern, c, 0) /\ CutUp(pattern, c, 0, G[0])
    BY <1>4, <1>6, <2>2 DEF Cuts, CutUp
  <2>4. CutAt(0, 0)
    BY <2>3
  <2>. QED
    BY <2>1, <2>4
<1>10. ASSUME NEW i \in Nat, i \in D PROVE i + 1 \in D
  <2>. SUFFICES ASSUME i + 1 =< n PROVE \E m \in 0 .. n : CutAt(i + 1, m)
    OBVIOUS
  <2>1. i \in 0 .. n /\ i + 1 \in 1 .. n /\ i + 1 \in 0 .. n /\ (i + 1) - 1 = i
    BY <1>1
  <2>2. PICK m \in 0 .. n : CutAt(i, m)
    BY <1>10, <2>1
  <2>3. G[i + 1] = Scanned(pattern, G[i]) /\ G[i] \in ScanStates(T)
    BY <1>6, <2>1
  <2>4. CASE MarkerAt(pattern, G[i].from) = n
    <3>1. Scanned(pattern, G[i]) = G[i]
      BY <2>4 DEF Scanned, MarkerAt, n
    <3>2. m =< i + 1
      BY <2>2
    <3>3. CutAt(i + 1, m)
      BY <2>2, <2>3, <2>4, <3>1, <3>2
    <3>. QED
      BY <3>3
  <2>5. CASE MarkerAt(pattern, G[i].from) # n
    <3>1. m = i
      BY <2>2, <2>5
    <3>2. c[i + 1] = Scanned(pattern, G[i]).from
      BY <1>8, <2>1, <2>3
    <3>3. Cuts(pattern, c, i + 1) /\ CutUp(pattern, c, i + 1, G[i + 1])
      BY <2>2, <2>3, <2>5, <3>1, <3>2, RoundCuts DEF n
    <3>4. CutAt(i + 1, i + 1)
      BY <3>3
    <3>. QED
      BY <2>1, <3>4
  <2>. QED
    BY <2>4, <2>5
<1>. HIDE DEF D
<1>11. n \in D
  BY <1>1, <1>9, <1>10, Induction
<1>12. PICK m \in 0 .. n : CutAt(n, m)
  BY <1>1, <1>11 DEF D
<1>13. MarkerAt(pattern, c[m]) = n
  <2>1. G[n].from = c[m]
    BY <1>12 DEF CutUp
  <2>2. CASE m = n
    <3>1. c[n] >= n /\ c[n] \in Nat
      <4>1. \A i \in 0 .. n : c[i] >= i
        BY <1>1, <1>8, <1>12, <2>2, CutsGrow DEF n
      <4>. QED
        BY <1>1, <1>8, <4>1
    <3>2. Found(pattern, Marker, c[n], MarkerAt(pattern, c[n]))
      BY <1>1, <3>1, FoundIs DEF MarkerAt, n
    <3>. QED
      BY <2>2, <3>1, <3>2 DEF Found, n
  <2>. QED
    BY <1>12, <2>1, <2>2
<1>. DEFINE cuts == [i \in 0 .. m |-> c[i]]
<1>14. cuts \in [0 .. m -> Nat] /\ \A i \in 0 .. m : cuts[i] = c[i]
  BY <1>1, <1>8
<1>. HIDE DEF cuts
<1>15. 0 \in 0 .. m /\ m \in 0 .. m /\ \A i \in 1 .. m : i \in 0 .. m /\ i - 1 \in 0 .. m
  OBVIOUS
<1>16. Cuts(pattern, cuts, m)
  BY <1>12, <1>14, <1>15 DEF Cuts
<1>17. CutUp(pattern, cuts, m, G[n])
  BY <1>12, <1>14, <1>15 DEF CutUp
<1>18. MarkerAt(pattern, cuts[m]) = n
  BY <1>13, <1>14, <1>15
<1>19. G[n] \in ScanStates(T)
  BY <1>1
<1>. QED
  BY <1>7, <1>14, <1>16, <1>17, <1>18, <1>19 DEF n

-----------------------------------------------------------------------------
(* Which positions of a pattern belong to its parameters.                  *)

\* A parameter does not reach over position n.
Free(pattern, n) == n = 0 \/ pattern[n] = Separator

LEMMA BetweenParams ==
    ASSUME NEW pattern, NEW a \in Nat, NEW b \in Nat, Free(pattern, a),
           \A i \in a + 1 .. b : pattern[i] # Marker
    PROVE  \A i \in 1 .. b : i >= a => ~InParam(pattern, i)
<1>. SUFFICES ASSUME NEW i \in 1 .. b, i >= a, InParam(pattern, i) PROVE FALSE
  OBVIOUS
<1>1. PICK j \in 1 .. i : pattern[j] = Marker /\ \A k \in j .. i : pattern[k] # Separator
  BY DEF InParam
<1>2. CASE j =< a
  <2>1. a \in j .. i /\ a # 0
    BY <1>2
  <2>. QED
    BY <1>1, <2>1 DEF Free
<1>3. CASE j > a
  <2>1. j \in a + 1 .. b
    BY <1>3
  <2>. QED
    BY <1>1, <2>1
<1>. QED
  BY <1>2, <1>3

LEMMA WithinParam ==
    ASSUME NEW pattern, NEW a \in Nat \ {0}, NEW b \in Nat, pattern[a] = Marker,
           \A i \in a + 1 .. b : pattern[i] # Separator
    PROVE  \A i \in a .. b : InParam(pattern, i)
<1>. SUFFICES ASSUME NEW i \in a .. b PROVE InParam(pattern, i)
  OBVIOUS
<1>1. a \in 1 .. i
  OBVIOUS
<1>2. \A k \in a .. i : pattern[k] # Separator
  <2>. SUFFICES ASSUME NEW k \in a .. i PROVE pattern[k] # Separator
    OBVIOUS
  <2>1. k = a \/ k \in a + 1 .. b
    OBVIOUS
  <2>. QED
    BY <2>1, SignsAssumption
<1>. QED
  BY <1>1, <1>2 DEF InParam

\* What one round of the constructor passes over.
LEMMA RoundPasses ==
    ASSUME NEW pattern, Len(pattern) \in Nat, NEW from \in Nat, from =< Len(pattern),
           Free(pattern, from), NEW marker, marker = MarkerAt(pattern, from)
    PROVE  /\ marker \in from .. Len(pattern)
           /\ \A i \in from + 1 .. marker : ~InParam(pattern, i)
           /\ \A i \in from + 1 .. marker : ~StartsParam(pattern, i)
           /\ marker < Len(pattern) =>
                LET end == EndAt(pattern, from)
                IN  /\ end \in marker + 1 .. Len(pattern)
                    /\ \A i \in marker + 1 .. end : InParam(pattern, i)
                    /\ StartsParam(pattern, marker + 1)
                    /\ \A i \in marker + 2 .. end : ~StartsParam(pattern, i)
                    /\ end < Len(pattern) =>
                         /\ pattern[end + 1] = Separator /\ Free(pattern, end + 1)
                         /\ ~InParam(pattern, end + 1) /\ ~StartsParam(pattern, end + 1)
<1>1. Found(pattern, Marker, from, marker)
  BY FoundIs DEF MarkerAt
<1>2. /\ marker \in from .. Len(pattern)
      /\ marker < Len(pattern) => pattern[marker + 1] = Marker
      /\ \A i \in from + 1 .. marker : pattern[i] # Marker
  BY <1>1 DEF Found
<1>3. \A i \in 1 .. marker : i >= from => ~InParam(pattern, i)
  BY <1>2, BetweenParams
<1>4. \A i \in from + 1 .. marker : ~InParam(pattern, i) /\ ~StartsParam(pattern, i)
  <2>1. \A i \in from + 1 .. marker : i \in 1 .. marker /\ i >= from
    BY <1>2
  <2>. QED
    BY <1>3, <2>1 DEF StartsParam
<1>5. ASSUME marker < Len(pattern), NEW end, end = EndAt(pattern, from)
      PROVE  /\ end \in marker + 1 .. Len(pattern)
             /\ \A i \in marker + 1 .. end : InParam(pattern, i)
             /\ StartsParam(pattern, marker + 1)
             /\ \A i \in marker + 2 .. end : ~StartsParam(pattern, i)
             /\ end < Len(pattern) =>
                  /\ pattern[end + 1] = Separator /\ Free(pattern, end + 1)
                  /\ ~InParam(pattern, end + 1) /\ ~StartsParam(pattern, end + 1)
  <2>1. marker + 1 \in Nat \ {0}
    BY <1>2
  <2>2. Found(pattern, Separator, marker + 1, end)
    BY <1>5, <2>1, FoundIs DEF EndAt
  <2>3. /\ end \in marker + 1 .. Len(pattern)
        /\ end < Len(pattern) => pattern[end + 1] = Separator
        /\ \A i \in (marker + 1) + 1 .. end : pattern[i] # Separator
    BY <1>2, <1>5, <2>2 DEF Found
  <2>4. \A i \in marker + 1 .. end : InParam(pattern, i)
    <3>1. end \in Nat /\ pattern[marker + 1] = Marker
      BY <1>2, <1>5, <2>3
    <3>. QED
      BY ONLY <2>1, <2>3, <3>1, WithinParam
  <2>5. StartsParam(pattern, marker + 1)
    <3>1. marker + 1 = 1 \/ (marker \in 1 .. marker /\ marker >= from)
      BY <1>2
    <3>2. (marker + 1) - 1 = marker /\ marker + 1 \in marker + 1 .. end
      BY <1>2, <2>3
    <3>. QED
      BY <1>3, <2>4, <3>1, <3>2 DEF StartsParam
  <2>6. ASSUME NEW i \in marker + 2 .. end PROVE ~StartsParam(pattern, i)
    <3>1. i # 1 /\ i - 1 \in marker + 1 .. end
      BY <1>2, <2>3
    <3>. QED
      BY <2>4, <3>1 DEF StartsParam
  <2>7. ASSUME end < Len(pattern)
        PROVE  /\ Free(pattern, end + 1)
               /\ ~InParam(pattern, end + 1) /\ ~StartsParam(pattern, end + 1)
    <3>1. Free(pattern, end + 1)
      BY <2>3, <2>7 DEF Free
    <3>2. end + 1 \in Nat /\ \A i \in (end + 1) + 1 .. end + 1 : pattern[i] # Marker
      BY <1>2, <2>3
    <3>3. \A i \in 1 .. end + 1 : i >= end + 1 => ~InParam(pattern, i)
      BY <3>1, <3>2, BetweenParams
    <3>4. end + 1 \in 1 .. end + 1 /\ end + 1 >= end + 1
      BY <1>2, <2>3
    <3>. QED
      BY <3>1, <3>3, <3>4 DEF StartsParam
  <2>. QED
    BY <2>3, <2>4, <2>5, <2>6, <2>7
<1>. QED
  BY <1>2, <1>4, <1>5

LEMMA ParamsSteps ==
    ASSUME NEW pattern
    PROVE  /\ Params(pattern, 0) = 0
           /\ \A i \in Nat : Params(pattern, i) \in Nat
           /\ \A i \in Nat : Params(pattern, i + 1) =
                 Params(pattern, i) + IF StartsParam(pattern, i + 1) THEN 1 ELSE 0
<1>. DEFINE D(i) == {j \in 1 .. i : StartsParam(pattern, j)}
<1>1. \A i \in Nat : IsFiniteSet(D(i)) /\ Cardinality(D(i)) \in Nat
  <2>. TAKE i \in Nat
  <2>1. IsFiniteSet(1 .. i)
    BY FS_Interval
  <2>2. IsFiniteSet(D(i))
    BY <2>1, FS_Subset
  <2>. QED
    BY <2>2, FS_CardinalityType
<1>2. Cardinality(D(0)) = 0
  <2>1. D(0) = {}
    OBVIOUS
  <2>. QED
    BY <2>1, FS_EmptySet
<1>3. ASSUME NEW i \in Nat
      PROVE  Cardinality(D(i + 1)) =
               Cardinality(D(i)) + IF StartsParam(pattern, i + 1) THEN 1 ELSE 0
  <2>1. CASE StartsParam(pattern, i + 1)
    <3>1. D(i + 1) = D(i) \cup {i + 1} /\ i + 1 \notin D(i)
      BY <2>1
    <3>. HIDE DEF D
    <3>2. Cardinality(D(i + 1)) = Cardinality(D(i)) + 1
      BY <1>1, <3>1, FS_AddElement
    <3>. QED
      BY <2>1, <3>2
  <2>2. CASE ~StartsParam(pattern, i + 1)
    <3>1. D(i + 1) = D(i)
      BY <2>2
    <3>. HIDE DEF D
    <3>2. Cardinality(D(i + 1)) = Cardinality(D(i)) + 0
      BY <1>1, <3>1
    <3>. QED
      BY <2>2, <3>2
  <2>. QED
    BY <2>1, <2>2
<1>4. \A i : Params(pattern, i) = Cardinality(D(i))
  BY DEF Params
<1>. HIDE DEF D
<1>. QED
  BY <1>1, <1>2, <1>3, <1>4

LEMMA ParamsSame ==
    ASSUME NEW pattern, NEW a \in Nat, NEW b \in Nat, a =< b,
           \A i \in a + 1 .. b : ~StartsParam(pattern, i)
    PROVE  Params(pattern, b) = Params(pattern, a)
<1>. DEFINE D == {d \in Nat : a + d =< b => Params(pattern, a + d) = Params(pattern, a)}
<1>1. 0 \in D
  OBVIOUS
<1>2. ASSUME NEW d \in Nat, d \in D PROVE d + 1 \in D
  <2>. SUFFICES ASSUME a + (d + 1) =< b
                PROVE  Params(pattern, a + (d + 1)) = Params(pattern, a)
    OBVIOUS
  <2>1. a + (d + 1) = (a + d) + 1 /\ a + d \in Nat /\ (a + d) + 1 \in a + 1 .. b /\ a + d =< b
    OBVIOUS
  <2>2. Params(pattern, a + d) = Params(pattern, a) /\ Params(pattern, a + d) \in Nat
    BY <1>2, <2>1, ParamsSteps
  <2>3. Params(pattern, (a + d) + 1) = Params(pattern, a + d) + 0
    BY <2>1, ParamsSteps
  <2>. QED
    BY <2>1, <2>2, <2>3
<1>. HIDE DEF D
<1>3. b - a \in D
  BY <1>1, <1>2, Induction
<1>4. a + (b - a) = b
  OBVIOUS
<1>. QED
  BY <1>3, <1>4 DEF D

-----------------------------------------------------------------------------
(* The pattern filled in, step by step.                                    *)

\* What stands for position i of the pattern.
StandIn(pattern, values, i) ==
    IF StartsParam(pattern, i) THEN values[Params(pattern, i)]
    ELSE IF InParam(pattern, i) THEN <<>> ELSE <<pattern[i]>>

\* F[n] is what stands for the first n positions.
Filled(T, pattern, values, F) ==
    /\ F \in [0 .. Len(pattern) -> Seq(T)]
    /\ F[0] = <<>>
    /\ \A i \in 1 .. Len(pattern) : F[i] = F[i - 1] \o StandIn(pattern, values, i)

\* The values of all parameters.
ValuesFor(T, pattern, values) ==
    /\ values = [k \in 1 .. Params(pattern, Len(pattern)) |-> values[k]]
    /\ \A k \in 1 .. Params(pattern, Len(pattern)) : values[k] \in Seq(T)

LEMMA ParamsGrow ==
    ASSUME NEW pattern, NEW a \in Nat, NEW b \in Nat, a =< b
    PROVE  Params(pattern, a) =< Params(pattern, b)
<1>. DEFINE D == {d \in Nat : Params(pattern, a) =< Params(pattern, a + d)}
<1>1. 0 \in D
  <2>1. Params(pattern, a) \in Nat
    BY ParamsSteps
  <2>. QED
    BY <2>1
<1>2. ASSUME NEW d \in Nat, d \in D PROVE d + 1 \in D
  <2>1. a + (d + 1) = (a + d) + 1 /\ a + d \in Nat
    OBVIOUS
  <2>2. /\ Params(pattern, a) \in Nat /\ Params(pattern, a + d) \in Nat
        /\ Params(pattern, (a + d) + 1) =
             Params(pattern, a + d) + IF StartsParam(pattern, (a + d) + 1) THEN 1 ELSE 0
    BY <2>1, ParamsSteps
  <2>3. Params(pattern, a) =< Params(pattern, (a + d) + 1)
    BY <1>2, <2>2
  <2>. QED
    BY <2>1, <2>3
<1>. HIDE DEF D
<1>3. b - a \in D
  BY <1>1, <1>2, Induction
<1>4. a + (b - a) = b
  OBVIOUS
<1>. QED
  BY <1>3, <1>4 DEF D

LEMMA PieceType ==
    ASSUME NEW T, NEW pattern \in Seq(T), NEW values, ValuesFor(T, pattern, values),
           NEW i \in 1 .. Len(pattern)
    PROVE  StandIn(pattern, values, i) \in Seq(T)
<1>1. Len(pattern) \in Nat /\ i \in Nat /\ i - 1 \in Nat /\ (i - 1) + 1 = i
  BY LenProperties
<1>2. ASSUME StartsParam(pattern, i)
      PROVE  values[Params(pattern, i)] \in Seq(T)
  <2>1. /\ Params(pattern, i - 1) \in Nat
        /\ Params(pattern, i) = Params(pattern, i - 1) + 1
    BY <1>1, <1>2, ParamsSteps
  <2>2. Params(pattern, i) =< Params(pattern, Len(pattern))
    BY <1>1, ParamsGrow
  <2>3. Params(pattern, Len(pattern)) \in Nat
    BY <1>1, ParamsSteps
  <2>4. Params(pattern, i) \in 1 .. Params(pattern, Len(pattern))
    BY <2>1, <2>2, <2>3
  <2>. QED
    BY <2>4 DEF ValuesFor
<1>3. pattern[i] \in T
  BY ElementOfSeq
<1>4. << >> \in Seq(T) /\ <<pattern[i]>> \in Seq(T)
  BY <1>3
<1>. QED
  BY <1>2, <1>4 DEF StandIn

LEMMA FillIs ==
    ASSUME NEW T, NEW pattern \in Seq(T), NEW values, ValuesFor(T, pattern, values)
    PROVE  \E F \in [0 .. Len(pattern) -> Seq(T)] :
              Filled(T, pattern, values, F) /\ Fill(pattern, values) = F[Len(pattern)]
<1>1. PICK n \in Nat : n = Len(pattern) /\ DOMAIN pattern = 1 .. n
  BY LenProperties
<1>2. PICK pieces : pieces = [i \in 1 .. n |-> StandIn(pattern, values, i)]
  OBVIOUS
<1>3. /\ pieces \in Seq(Seq(T)) /\ Len(pieces) = n
      /\ \A i \in 1 .. n : pieces[i] = StandIn(pattern, values, i)
  <2>1. \A i \in 1 .. n : StandIn(pattern, values, i) \in Seq(T)
    BY <1>1, PieceType
  <2>2. pieces \in [1 .. n -> Seq(T)]
    BY <1>2, <2>1
  <2>3. \A i \in 1 .. n : pieces[i] = StandIn(pattern, values, i)
    BY <1>2
  <2>. QED
    BY ONLY <2>2, <2>3, n \in Nat
<1>4. Fill(pattern, values) = FlattenSeq(pieces)
  <2>1. [i \in DOMAIN pattern |-> IF StartsParam(pattern, i) THEN values[Params(pattern, i)]
                                  ELSE IF InParam(pattern, i) THEN <<>>
                                  ELSE <<pattern[i]>>] = pieces
    BY <1>1, <1>2, Zenon DEF StandIn
  <2>. QED
    BY <2>1, Zenon DEF Fill
<1>5. PICK F \in [0 .. n -> Seq(T)] :
        /\ F[0] = <<>>
        /\ \A i \in 1 .. n : F[i] = F[i - 1] \o pieces[i]
        /\ FlattenSeq(pieces) = F[n]
  BY <1>3, FlattenSteps
<1>6. Filled(T, pattern, values, F)
  BY <1>1, <1>3, <1>5 DEF Filled
<1>. QED
  BY <1>1, <1>4, <1>5, <1>6

\* Positions that stand for themselves, and positions that stand for nothing.
LEMMA FilledLiteral ==
    ASSUME NEW T, NEW pattern \in Seq(T), NEW values, NEW F, Filled(T, pattern, values, F),
           NEW a \in Nat, NEW b \in a .. Len(pattern),
           \A i \in a + 1 .. b : ~InParam(pattern, i)
    PROVE  F[b] = F[a] \o Substr(pattern, a, b)
<1>. DEFINE Literal(d) == F[a + d] = F[a] \o Substr(pattern, a, a + d)
            D == {d \in Nat : a + d =< b => Literal(d)}
<1>1. Len(pattern) \in Nat /\ a \in 0 .. Len(pattern) /\ a + 0 = a
  BY LenProperties
<1>2. Literal(0)
  <2>1. Substr(pattern, a, a) = <<>>
    BY SubSeqEmpty DEF Substr
  <2>2. F[a] \in Seq(T)
    BY <1>1 DEF Filled
  <2>3. F[a] \o <<>> = F[a]
    BY <2>2, ConcatEmptySeq
  <2>. QED
    BY <1>1, <2>1, <2>3
<1>3. ASSUME NEW d \in Nat, a + (d + 1) =< b, Literal(d) PROVE Literal(d + 1)
  <2>1. PICK i : i = a + (d + 1)
    OBVIOUS
  <2>2. /\ i \in 1 .. Len(pattern) /\ i - 1 = a + d /\ i \in a + 1 .. b
        /\ a + d \in 0 .. Len(pattern) /\ i \in a + 1 .. Len(pattern)
    BY <1>1, <1>3, <2>1
  <2>3. PICK x : x = Substr(pattern, a, a + d)
    OBVIOUS
  <2>4. PICK y : y = <<pattern[i]>>
    OBVIOUS
  <2>5. pattern[i] \in T /\ ~InParam(pattern, i) /\ ~StartsParam(pattern, i)
    BY <2>2, ElementOfSeq DEF StartsParam
  <2>6. F[i] = F[a + d] \o y
    BY <2>2, <2>4, <2>5 DEF Filled, StandIn
  <2>7. Substr(pattern, a, i) = x \o y
    <3>1. a + 1 \in 1 .. Len(pattern)
      BY <1>1, <2>2
    <3>2. SubSeq(pattern, a + 1, i) = SubSeq(pattern, a + 1, i - 1) \o <<pattern[i]>>
      BY ONLY <2>2, <3>1, pattern \in Seq(T), SubSeqRecursiveSecond
    <3>. QED
      BY ONLY <2>2, <2>3, <2>4, <3>2 DEF Substr
  <2>8. F[a] \in Seq(T) /\ x \in Seq(T) /\ y \in Seq(T)
    <3>1. F[a] \in Seq(T)
      BY <1>1 DEF Filled
    <3>2. x \in Seq(T)
      BY ONLY <2>2, <2>3, pattern \in Seq(T), a \in Nat, SubstrType
    <3>3. y \in Seq(T)
      BY <2>4, <2>5
    <3>. QED
      BY <3>1, <3>2, <3>3
  <2>9. (F[a] \o x) \o y = F[a] \o (x \o y)
    <3>1. \A u, v, w \in Seq(T) : (u \o v) \o w = u \o (v \o w)
      BY ONLY ConcatAssociative
    <3>. QED
      BY ONLY <2>8, <3>1
  <2>10. F[a + d] = F[a] \o x
    BY <1>3, <2>3
  <2>11. F[i] = F[a] \o Substr(pattern, a, i)
    BY ONLY <2>6, <2>7, <2>9, <2>10
  <2>. QED
    BY ONLY <2>1, <2>11
<1>. HIDE DEF Literal
<1>4. 0 \in D
  BY <1>2
<1>5. ASSUME NEW d \in Nat, d \in D PROVE d + 1 \in D
  <2>1. a + (d + 1) =< b => a + d =< b
    BY <1>1
  <2>. QED
    BY <1>3, <1>5, <2>1
<1>. HIDE DEF D
<1>6. b - a \in D
  BY <1>1, <1>4, <1>5, Induction
<1>7. a + (b - a) = b
  BY <1>1
<1>. QED
  BY <1>6, <1>7 DEF D, Literal

LEMMA FilledNothing ==
    ASSUME NEW T, NEW pattern \in Seq(T), NEW values, NEW F, Filled(T, pattern, values, F),
           NEW a \in Nat, NEW b \in a .. Len(pattern),
           \A i \in a + 1 .. b : InParam(pattern, i) /\ ~StartsParam(pattern, i)
    PROVE  F[b] = F[a]
<1>. DEFINE D == {d \in Nat : a + d =< b => F[a + d] = F[a]}
<1>0. Len(pattern) \in Nat
  BY LenProperties
<1>1. 0 \in D
  OBVIOUS
<1>2. ASSUME NEW d \in Nat, d \in D PROVE d + 1 \in D
  <2>. SUFFICES ASSUME a + (d + 1) =< b PROVE F[a + (d + 1)] = F[a]
    OBVIOUS
  <2>1. /\ a + (d + 1) \in 1 .. Len(pattern) /\ (a + (d + 1)) - 1 = a + d /\ a + d =< b
        /\ a + (d + 1) \in a + 1 .. b /\ a + d \in 0 .. Len(pattern)
    BY <1>0
  <2>2. F[a + (d + 1)] = F[a + d] \o <<>>
    BY <2>1 DEF Filled, StandIn
  <2>3. F[a + d] \in Seq(T)
    BY <2>1 DEF Filled
  <2>4. F[a + d] \o <<>> = F[a + d]
    BY <2>3, ConcatEmptySeq
  <2>. QED
    BY <1>2, <2>1, <2>2, <2>4
<1>. HIDE DEF D
<1>3. b - a \in D
  BY <1>0, <1>1, <1>2, Induction
<1>4. a + (b - a) = b
  BY <1>0
<1>. QED
  BY <1>3, <1>4 DEF D

\* How many parameters there are up to the places of one round.
LEMMA RoundParams ==
    ASSUME NEW pattern, Len(pattern) \in Nat, NEW from \in 0 .. Len(pattern),
           Free(pattern, from), MarkerAt(pattern, from) < Len(pattern),
           NEW end, end = EndAt(pattern, from),
           NEW k, k = Params(pattern, from) + 1
    PROVE  /\ Params(pattern, MarkerAt(pattern, from) + 1) = k
           /\ Params(pattern, end) = k
           /\ end < Len(pattern) => Params(pattern, end + 1) = k
<1>1. PICK marker : marker = MarkerAt(pattern, from)
  OBVIOUS
<1>2. from \in Nat /\ from =< Len(pattern)
  OBVIOUS
<1>3. /\ marker \in from .. Len(pattern)
      /\ \A i \in from + 1 .. marker : ~StartsParam(pattern, i)
      /\ end \in marker + 1 .. Len(pattern)
      /\ StartsParam(pattern, marker + 1)
      /\ \A i \in marker + 2 .. end : ~StartsParam(pattern, i)
      /\ end < Len(pattern) => ~StartsParam(pattern, end + 1)
  BY <1>1, <1>2, RoundPasses
<1>4. marker \in Nat /\ end \in Nat /\ marker + 1 \in Nat /\ marker + 1 =< end
  BY ONLY <1>2, <1>3, Len(pattern) \in Nat
<1>5. Params(pattern, marker) = Params(pattern, from)
  BY ONLY <1>2, <1>3, <1>4, ParamsSame
<1>6. Params(pattern, marker + 1) = k
  BY <1>3, <1>4, <1>5, ParamsSteps
<1>7. \A i \in (marker + 1) + 1 .. end : i \in marker + 2 .. end
  BY ONLY <1>4
<1>8. Params(pattern, end) = k
  BY ONLY <1>3, <1>4, <1>6, <1>7, ParamsSame
<1>9. ASSUME end < Len(pattern) PROVE Params(pattern, end + 1) = k
  <2>1. Params(pattern, end + 1) = Params(pattern, end) + 0 /\ Params(pattern, end) \in Nat
    BY <1>3, <1>4, <1>9, ParamsSteps
  <2>. QED
    BY <1>8, <2>1
<1>. QED
  BY <1>1, <1>6, <1>8, <1>9

\* One round of the constructor, filled in.
FilledRound(pattern, values, F, from, marker, end, k) ==
    /\ F[marker] = F[from] \o Substr(pattern, from, marker)
    /\ F[end] = F[marker] \o values[k]
    /\ end < Len(pattern) => F[end + 1] = F[end] \o <<Separator>>

LEMMA RoundFilled ==
    ASSUME NEW T, NEW pattern \in Seq(T), NEW values, NEW F, Filled(T, pattern, values, F),
           NEW from \in 0 .. Len(pattern), Free(pattern, from),
           MarkerAt(pattern, from) < Len(pattern),
           NEW marker, marker = MarkerAt(pattern, from),
           NEW end, end = EndAt(pattern, from),
           NEW k, k = Params(pattern, from) + 1
    PROVE  FilledRound(pattern, values, F, from, marker, end, k)
<1>1. Len(pattern) \in Nat /\ from \in Nat /\ from =< Len(pattern)
  BY LenProperties
<1>2. /\ marker \in from .. Len(pattern)
      /\ \A i \in from + 1 .. marker : ~InParam(pattern, i)
      /\ end \in marker + 1 .. Len(pattern)
      /\ \A i \in marker + 1 .. end : InParam(pattern, i)
      /\ StartsParam(pattern, marker + 1)
      /\ \A i \in marker + 2 .. end : ~StartsParam(pattern, i)
      /\ end < Len(pattern) => /\ pattern[end + 1] = Separator
                               /\ ~InParam(pattern, end + 1) /\ ~StartsParam(pattern, end + 1)
  BY <1>1, RoundPasses
<1>3. Params(pattern, marker + 1) = k
  BY <1>1, RoundParams
<1>4. F[marker] = F[from] \o Substr(pattern, from, marker)
  <2>1. ASSUME NEW H, Filled(T, pattern, values, H)
        PROVE  H[marker] = H[from] \o Substr(pattern, from, marker)
    BY ONLY <1>1, <1>2, <2>1, pattern \in Seq(T), FilledLiteral
  <2>. QED
    BY ONLY <2>1, Filled(T, pattern, values, F)
<1>5. marker \in Nat /\ end \in Nat /\ marker + 1 \in Nat /\ marker + 1 =< end
  BY ONLY <1>1, <1>2
<1>6. F[marker + 1] = F[marker] \o values[k]
  <2>1. marker + 1 \in 1 .. Len(pattern) /\ (marker + 1) - 1 = marker
    BY ONLY <1>1, <1>2, <1>5
  <2>. QED
    BY <1>2, <1>3, <2>1 DEF Filled, StandIn
<1>7. F[end] = F[marker + 1]
  <2>1. end \in marker + 1 .. Len(pattern)
    BY <1>2
  <2>2. \A i \in (marker + 1) + 1 .. end : i \in marker + 2 .. end /\ i \in marker + 1 .. end
    BY ONLY <1>5
  <2>. QED
    BY ONLY <1>2, <1>5, <2>1, <2>2, pattern \in Seq(T), Filled(T, pattern, values, F),
            FilledNothing
<1>8. ASSUME end < Len(pattern) PROVE F[end + 1] = F[end] \o <<Separator>>
  <2>1. end + 1 \in 1 .. Len(pattern) /\ (end + 1) - 1 = end
    BY ONLY <1>1, <1>5, <1>8
  <2>. QED
    BY <1>2, <1>8, <2>1 DEF Filled, StandIn
<1>. QED
  BY <1>4, <1>6, <1>7, <1>8 DEF FilledRound

\* What is known of the place where round k + 1 begins.
CutWell(pattern, cuts, k) ==
    /\ cuts[k] \in 0 .. Len(pattern) + 1
    /\ cuts[k] =< Len(pattern) => Free(pattern, cuts[k]) /\ Params(pattern, cuts[k]) = k
    /\ k > 0 => /\ cuts[k] - 1 \in 1 .. Len(pattern)
                /\ Params(pattern, cuts[k] - 1) = k
                /\ InParam(pattern, cuts[k] - 1)
                /\ cuts[k] =< Len(pattern) => pattern[cuts[k]] = Separator

LEMMA CutsWell ==
    ASSUME NEW pattern, Len(pattern) \in Nat, NEW m \in Nat, NEW cuts,
           Cuts(pattern, cuts, m)
    PROVE  \A k \in 0 .. m : CutWell(pattern, cuts, k)
<1>. DEFINE D == {k \in Nat : k =< m => CutWell(pattern, cuts, k)}
<1>1. 0 \in D
  <2>1. cuts[0] = 0 /\ Params(pattern, 0) = 0
    BY ParamsSteps DEF Cuts
  <2>. QED
    BY <2>1 DEF CutWell, Free
<1>2. ASSUME NEW k \in Nat, k \in D PROVE k + 1 \in D
  <2>. SUFFICES ASSUME k + 1 =< m PROVE CutWell(pattern, cuts, k + 1)
    OBVIOUS
  <2>1. k + 1 \in 1 .. m /\ (k + 1) - 1 = k /\ k =< m
    OBVIOUS
  <2>2. PICK from : from = cuts[k]
    OBVIOUS
  <2>3. PICK end : end = EndAt(pattern, from)
    OBVIOUS
  <2>4. MarkerAt(pattern, from) < Len(pattern) /\ cuts[k + 1] = end + 1
    BY <2>1, <2>2, <2>3 DEF Cuts
  <2>5. /\ from \in 0 .. Len(pattern) + 1
        /\ from =< Len(pattern) => Free(pattern, from) /\ Params(pattern, from) = k
    BY <1>2, <2>1, <2>2 DEF CutWell
  <2>6. /\ from \in Nat /\ from \in 0 .. Len(pattern) /\ from =< Len(pattern)
        /\ MarkerAt(pattern, from) \in from .. Len(pattern) - 1
        /\ end \in MarkerAt(pattern, from) + 1 .. Len(pattern)
    <3>1. from \in Nat
      BY <2>5
    <3>2. from < Len(pattern)
      BY <2>4, <3>1, CutInOrder
    <3>. QED
      BY <2>3, <2>4, <3>1, <3>2, CutInOrder
  <2>7. end \in 1 .. Len(pattern) /\ (end + 1) - 1 = end /\ end + 1 \in 0 .. Len(pattern) + 1
        /\ (end + 1 =< Len(pattern) => end < Len(pattern))
        /\ end \in MarkerAt(pattern, from) + 1 .. end
    BY ONLY <2>6, Len(pattern) \in Nat
  <2>8. /\ Params(pattern, end) = k + 1
        /\ end < Len(pattern) => Params(pattern, end + 1) = k + 1
    BY <2>3, <2>4, <2>5, <2>6, RoundParams
  <2>9. /\ \A i \in MarkerAt(pattern, from) + 1 .. end : InParam(pattern, i)
        /\ end < Len(pattern) =>
              pattern[end + 1] = Separator /\ Free(pattern, end + 1)
    BY <2>3, <2>4, <2>5, <2>6, RoundPasses
  <2>. QED
    BY ONLY <2>4, <2>7, <2>8, <2>9, k \in Nat, Len(pattern) \in Nat DEF CutWell
<1>. HIDE DEF D
<1>3. Nat \subseteq D
  BY <1>1, <1>2, Induction
<1>. QED
  BY <1>3 DEF D

\* Behind the last round there is no parameter.
LEMMA CutsDone ==
    ASSUME NEW pattern, Len(pattern) \in Nat, NEW m \in Nat, NEW cuts,
           Cuts(pattern, cuts, m), MarkerAt(pattern, cuts[m]) = Len(pattern)
    PROVE  /\ Params(pattern, Len(pattern)) = m
           /\ \A i \in cuts[m] + 1 .. Len(pattern) : ~InParam(pattern, i)
<1>1. CutWell(pattern, cuts, m)
  BY CutsWell
<1>2. cuts[m] \in 0 .. Len(pattern) + 1
  BY <1>1 DEF CutWell
<1>3. CASE cuts[m] = Len(pattern) + 1
  <2>1. m > 0
    <3>1. m = 0 => cuts[m] = 0
      BY DEF Cuts
    <3>. QED
      BY <1>3, <3>1
  <2>2. cuts[m] - 1 = Len(pattern)
    BY <1>3
  <2>. QED
    BY <1>1, <1>3, <2>1, <2>2 DEF CutWell
<1>4. CASE cuts[m] =< Len(pattern)
  <2>1. cuts[m] \in Nat /\ Free(pattern, cuts[m]) /\ Params(pattern, cuts[m]) = m
    BY <1>1, <1>2, <1>4 DEF CutWell
  <2>2. \A i \in cuts[m] + 1 .. Len(pattern) : ~InParam(pattern, i) /\ ~StartsParam(pattern, i)
    BY <1>4, <2>1, RoundPasses
  <2>3. Params(pattern, Len(pattern)) = Params(pattern, cuts[m])
    BY ONLY <1>4, <2>1, <2>2, Len(pattern) \in Nat, ParamsSame
  <2>. QED
    BY <2>1, <2>2, <2>3
<1>. QED
  BY <1>2, <1>3, <1>4

\* The fragment of round k.
Fragment(pattern, cuts, k) == Substr(pattern, cuts[k - 1], MarkerAt(pattern, cuts[k - 1]))

\* What stands for the pattern up to a parameter's end, and up to the next fragment.
RoundDone(pattern, cuts, values, F, k) ==
    /\ F[cuts[k] - 1] = (F[cuts[k - 1]] \o Fragment(pattern, cuts, k)) \o values[k]
    /\ cuts[k] =< Len(pattern) => F[cuts[k]] = F[cuts[k] - 1] \o <<Separator>>

LEMMA CutsFilled ==
    ASSUME NEW T, NEW pattern \in Seq(T), NEW values, NEW F, Filled(T, pattern, values, F),
           NEW m \in Nat, NEW cuts, Cuts(pattern, cuts, m), NEW k \in 1 .. m
    PROVE  RoundDone(pattern, cuts, values, F, k)
<1>1. PICK from : from = cuts[k - 1]
  OBVIOUS
<1>2. PICK marker : marker = MarkerAt(pattern, from)
  OBVIOUS
<1>3. PICK end : end = EndAt(pattern, from)
  OBVIOUS
<1>4. Len(pattern) \in Nat /\ k - 1 \in 0 .. m /\ (k - 1) + 1 = k
  BY LenProperties
<1>5. marker < Len(pattern) /\ cuts[k] = end + 1
  BY <1>1, <1>2, <1>3 DEF Cuts
<1>6. CutWell(pattern, cuts, k - 1)
  BY <1>4, CutsWell
<1>7. from \in 0 .. Len(pattern) + 1
  BY <1>1, <1>6 DEF CutWell
<1>8. from \in Nat /\ from < Len(pattern) /\ marker \in from .. Len(pattern) - 1
      /\ end \in marker + 1 .. Len(pattern)
  <2>1. from \in Nat
    BY <1>7
  <2>. QED
    BY <1>2, <1>3, <1>4, <1>5, <2>1, CutInOrder
<1>9. from \in 0 .. Len(pattern) /\ marker \in 0 .. Len(pattern) /\ from \in 0 .. Len(pattern) - 1
      /\ end \in Nat /\ (end + 1) - 1 = end /\ (end + 1 =< Len(pattern) => end < Len(pattern))
  BY ONLY <1>4, <1>8
<1>10. Free(pattern, from) /\ k = Params(pattern, from) + 1
  BY <1>1, <1>4, <1>6, <1>9 DEF CutWell
<1>11. /\ F[marker] = F[from] \o Substr(pattern, from, marker)
       /\ F[end] = F[marker] \o values[k]
       /\ end < Len(pattern) => F[end + 1] = F[end] \o <<Separator>>
  <2>1. MarkerAt(pattern, from) < Len(pattern)
    BY <1>2, <1>5
  <2>2. FilledRound(pattern, values, F, from, marker, end, k)
    BY <1>2, <1>3, <1>9, <1>10, <2>1, RoundFilled
  <2>. QED
    BY ONLY <2>2 DEF FilledRound
<1>12. Fragment(pattern, cuts, k) = Substr(pattern, from, marker)
  BY <1>1, <1>2 DEF Fragment
<1>13. Substr(pattern, from, marker) \in Seq(T)
  BY <1>8, <1>9, SubstrType
<1>. QED
  BY <1>1, <1>5, <1>9, <1>11, <1>12, <1>13 DEF RoundDone

-----------------------------------------------------------------------------
(* Places of a path.                                                       *)

\* t stands in the path behind position b; behind position e a segment ends.
At(path, b, t) == b + Len(t) =< Len(path) /\ \A i \in 1 .. Len(t) : path[b + i] = t[i]
Ends(path, e)  == e = Len(path) \/ path[e + 1] = Separator

LEMMA AtConcat ==
    ASSUME NEW T, NEW path, NEW b \in Nat, NEW s \in Seq(T), NEW t \in Seq(T)
    PROVE  At(path, b, s \o t) <=> At(path, b, s) /\ At(path, b + Len(s), t)
<1>1. PICK u : u = s \o t
  OBVIOUS
<1>2. PICK p \in Nat : p = Len(s)
  BY LenProperties
<1>3. PICK q \in Nat : q = Len(t)
  BY LenProperties
<1>4. /\ Len(u) = p + q
      /\ \A i \in 1 .. p : u[i] = s[i]
      /\ \A i \in 1 .. q : u[p + i] = t[i]
  <2>1. /\ Len(s \o t) = Len(s) + Len(t)
        /\ \A i \in 1 .. Len(s) + Len(t) :
              (s \o t)[i] = IF i <= Len(s) THEN s[i] ELSE t[i - Len(s)]
    BY ONLY s \in Seq(T), t \in Seq(T), ConcatProperties
  <2>2. Len(u) = p + q /\ \A i \in 1 .. p + q : u[i] = IF i <= p THEN s[i] ELSE t[i - p]
    BY ONLY <1>1, <1>2, <1>3, <2>1
  <2>3. \A i \in 1 .. q : p + i \in 1 .. p + q /\ ~(p + i <= p) /\ (p + i) - p = i
    OBVIOUS
  <2>4. \A i \in 1 .. p : i \in 1 .. p + q /\ i <= p
    OBVIOUS
  <2>. QED
    BY ONLY <2>2, <2>3, <2>4
<1>5. PICK n : n = Len(path)
  OBVIOUS
<1>6. At(path, b, u) <=> b + (p + q) =< n /\ \A i \in 1 .. p + q : path[b + i] = u[i]
  BY ONLY <1>4, <1>5 DEF At
<1>7. At(path, b, s) <=> b + p =< n /\ \A i \in 1 .. p : path[b + i] = s[i]
  BY ONLY <1>2, <1>5 DEF At
<1>8. At(path, b + p, t) <=> (b + p) + q =< n /\ \A i \in 1 .. q : path[(b + p) + i] = t[i]
  BY ONLY <1>3, <1>5 DEF At
<1>9. ASSUME At(path, b, u) PROVE At(path, b, s) /\ At(path, b + p, t)
  <2>1. \A i \in 1 .. p : i \in 1 .. p + q
    OBVIOUS
  <2>2. \A i \in 1 .. q : p + i \in 1 .. p + q /\ b + (p + i) = (b + p) + i
    OBVIOUS
  <2>3. Len(path) \in Nat => b + p =< n /\ (b + p) + q =< n
    BY <1>5, <1>6, <1>9
  <2>. QED
    BY <1>4, <1>5, <1>6, <1>7, <1>8, <1>9, <2>1, <2>2, <2>3
<1>10. ASSUME At(path, b, s), At(path, b + p, t) PROVE At(path, b, u)
  <2>1. (b + p) + q = b + (p + q)
    OBVIOUS
  <2>2. ASSUME NEW i \in 1 .. p + q PROVE path[b + i] = u[i]
    <3>1. CASE i =< p
      BY <1>4, <1>7, <1>10, <3>1
    <3>2. CASE i > p
      <4>1. i - p \in 1 .. q /\ (b + p) + (i - p) = b + i /\ p + (i - p) = i
        BY <3>2
      <4>. QED
        BY <1>4, <1>8, <1>10, <4>1
    <3>. QED
      BY <3>1, <3>2
  <2>. QED
    BY <1>6, <1>8, <1>10, <2>1, <2>2
<1>. QED
  BY <1>1, <1>2, <1>9, <1>10

LEMMA AtWhole ==
    ASSUME NEW T, NEW path \in Seq(T), NEW t \in Seq(T)
    PROVE  path = t <=> At(path, 0, t) /\ Len(path) =< Len(t)
<1>1. Len(path) \in Nat /\ Len(t) \in Nat
  BY LenProperties
<1>2. ASSUME path = t PROVE At(path, 0, t) /\ Len(path) =< Len(t)
  BY <1>1, <1>2 DEF At
<1>3. ASSUME At(path, 0, t), Len(path) =< Len(t) PROVE path = t
  <2>1. Len(path) = Len(t)
    BY <1>1, <1>3 DEF At
  <2>2. \A i \in 1 .. Len(t) : path[i] = t[i]
    BY <1>1, <1>3 DEF At
  <2>. QED
    BY <2>1, <2>2, SeqEqual
<1>. QED
  BY <1>2, <1>3

LEMMA FragmentAt ==
    ASSUME NEW T, NEW path \in Seq(T), NEW a \in Nat, NEW t \in Seq(T)
    PROVE  At(path, a, t) <=>
             a + Len(t) =< Len(path) /\ Substr(path, a, a + Len(t)) = t
<1>1. PICK n \in Nat : n = Len(t)
  BY LenProperties
<1>2. Len(path) \in Nat
  BY LenProperties
<1>3. ASSUME a + n =< Len(path)
      PROVE  Substr(path, a, a + n) = t <=> \A i \in 1 .. n : path[a + i] = t[i]
  <2>0. PICK to \in 0 .. Len(path) : to = a + n /\ a =< to /\ to - a = n
    BY <1>2, <1>3
  <2>1. PICK u : u = Substr(path, a, to)
    OBVIOUS
  <2>2. /\ u \in Seq(T)
        /\ Len(u) = IF a =< to THEN to - a ELSE 0
        /\ \A i \in 1 .. Len(u) : u[i] = path[a + i]
    BY ONLY <2>1, path \in Seq(T), a \in Nat, SubstrType
  <2>3. u \in Seq(T) /\ Len(u) = n /\ \A i \in 1 .. n : u[i] = path[a + i]
    BY ONLY <2>0, <2>2
  <2>4. (\A i \in 1 .. n : u[i] = t[i]) => u = t
    BY <1>1, <2>3, SeqEqual
  <2>. QED
    BY <2>0, <2>1, <2>3, <2>4
<1>. QED
  BY <1>1, <1>3 DEF At

\* What is captured behind position d, up to the next separator.
LEMMA CaptureAt ==
    ASSUME NEW T, NEW path \in Seq(T), NEW d \in 0 .. Len(path), NEW v \in Seq(T),
           \A i \in 1 .. Len(v) : v[i] # Separator,
           NEW end, end = FindFrom(path, Separator, d)
    PROVE  /\ Substr(path, d, end) = v <=> At(path, d, v) /\ Ends(path, d + Len(v))
           /\ Substr(path, d, end) = v => end = d + Len(v)
<1>1. Len(path) \in Nat /\ d \in Nat
  BY LenProperties
<1>2. PICK n \in Nat : n = Len(v)
  BY LenProperties
<1>3. Found(path, Separator, d, end)
  BY <1>1, FoundIs
<1>4. /\ end \in 0 .. Len(path) /\ d =< end
      /\ end < Len(path) => path[end + 1] = Separator
  BY <1>3 DEF Found
<1>5. ASSUME Substr(path, d, end) = v
      PROVE  end = d + n /\ At(path, d, v) /\ Ends(path, d + n)
  <2>1. Len(v) = end - d /\ \A i \in 1 .. Len(v) : v[i] = path[d + i]
    BY <1>1, <1>4, <1>5, SubstrType
  <2>2. end = d + n
    BY <1>1, <1>2, <1>4, <2>1
  <2>. QED
    BY <1>2, <1>4, <2>1, <2>2 DEF At, Ends
<1>6. ASSUME At(path, d, v), Ends(path, d + n) PROVE Substr(path, d, end) = v
  <2>1. d + n \in d .. Len(path)
    BY <1>1, <1>2, <1>6 DEF At
  <2>2. \A i \in d + 1 .. d + n : path[i] # Separator
    <3>. SUFFICES ASSUME NEW i \in d + 1 .. d + n PROVE path[i] # Separator
      OBVIOUS
    <3>1. i - d \in 1 .. n /\ d + (i - d) = i
      BY <1>1
    <3>. QED
      BY <1>2, <1>6, <3>1 DEF At
  <2>3. end = d + n
    BY <1>1, <1>6, <2>1, <2>2, FoundOnce DEF Ends
  <2>. QED
    BY <1>1, <1>2, <1>6, <2>3, FragmentAt
<1>. QED
  BY <1>2, <1>5, <1>6

-----------------------------------------------------------------------------
(* What the constructor makes of a pattern, and how match goes through it. *)

\* c has m names; its fragments are what stands before the parameters and, if
\* the pattern goes on behind the last one, the rest.
Compiled(T, pattern, m, cuts, c) ==
    /\ Cuts(pattern, cuts, m) /\ MarkerAt(pattern, cuts[m]) = Len(pattern)
    /\ c \in ScanStates(T) /\ Len(c.names) = m
    /\ Len(c.fragments) = m + IF cuts[m] < Len(pattern) THEN 1 ELSE 0
    /\ \A k \in 1 .. m : c.fragments[k] = Fragment(pattern, cuts, k)
    /\ cuts[m] < Len(pattern) => c.fragments[m + 1] = Substr(pattern, cuts[m], Len(pattern))

LEMMA CompileIs ==
    ASSUME NEW T, NEW pattern \in Seq(T)
    PROVE  \E m \in Nat : \E cuts \in [0 .. m -> Nat] :
              Compiled(T, pattern, m, cuts, Compile(pattern))
<1>1. Len(pattern) \in Nat
  BY LenProperties
<1>2. PICK m \in 0 .. Len(pattern) : \E cuts \in [0 .. m -> Nat] :
        /\ Cuts(pattern, cuts, m)
        /\ Scan(pattern) \in ScanStates(T)
        /\ CutUp(pattern, cuts, m, Scan(pattern))
        /\ MarkerAt(pattern, cuts[m]) = Len(pattern)
  BY ScanIs
<1>21. PICK cuts \in [0 .. m -> Nat] :
        /\ Cuts(pattern, cuts, m)
        /\ Scan(pattern) \in ScanStates(T)
        /\ CutUp(pattern, cuts, m, Scan(pattern))
        /\ MarkerAt(pattern, cuts[m]) = Len(pattern)
  BY <1>2
<1>3. PICK so : so = Scan(pattern)
  OBVIOUS
<1>4. /\ so \in ScanStates(T) /\ so.from = cuts[m]
      /\ Len(so.names) = m /\ Len(so.fragments) = m
      /\ \A k \in 1 .. m : so.fragments[k] = Fragment(pattern, cuts, k)
  BY <1>21, <1>3 DEF CutUp, Fragment
<1>5. m \in Nat /\ cuts[m] \in Nat
  BY <1>1, <1>2
<1>6. CASE cuts[m] >= Len(pattern)
  <2>1. Compile(pattern) = so
    BY <1>3, <1>4, <1>6 DEF Compile
  <2>2. ~(cuts[m] < Len(pattern))
    BY <1>1, <1>5, <1>6
  <2>3. Compiled(T, pattern, m, cuts, so)
    BY <1>21, <1>4, <1>5, <2>2 DEF Compiled
  <2>. QED
    BY <1>5, <2>1, <2>3
<1>7. CASE cuts[m] < Len(pattern)
  <2>1. PICK rest : rest = Substr(pattern, cuts[m], Len(pattern))
    OBVIOUS
  <2>2. rest \in Seq(T)
    BY <1>1, <1>5, <2>1, SubstrType
  <2>3. so.fragments \in Seq(Seq(T))
    BY <1>4 DEF ScanStates
  <2>4. PICK more : more = Append(so.fragments, rest)
    OBVIOUS
  <2>5. /\ more \in Seq(Seq(T)) /\ Len(more) = m + 1 /\ more[m + 1] = rest
        /\ \A k \in 1 .. m : more[k] = so.fragments[k]
    BY ONLY <1>4, <2>2, <2>3, <2>4, AppendProperties
  <2>6. PICK c : c = [so EXCEPT !.fragments = more]
    OBVIOUS
  <2>7. c \in ScanStates(T) /\ c.names = so.names /\ c.fragments = more
    BY <1>4, <2>5, <2>6 DEF ScanStates
  <2>8. Compile(pattern) = c
    <3>1. ~(cuts[m] >= Len(pattern))
      BY <1>1, <1>5, <1>7
    <3>. QED
      BY <1>3, <1>4, <2>1, <2>4, <2>6, <3>1 DEF Compile
  <2>9. Compiled(T, pattern, m, cuts, c)
    BY <1>21, <1>4, <1>7, <2>1, <2>5, <2>7 DEF Compiled
  <2>. QED
    BY <1>5, <2>8, <2>9
<1>8. cuts[m] >= Len(pattern) \/ cuts[m] < Len(pattern)
  BY ONLY <1>1, <1>5
<1>. QED
  BY ONLY <1>6, <1>7, <1>8

MatchStates(T) == [ok : BOOLEAN, at : Nat, captured : Seq(Seq(T))]

\* One fragment, in the terms of the path.
FragmentPassed(T, path, c, before, i, fragment, behind, end, next) ==
    /\ fragment \in Seq(T) /\ behind \in Nat /\ end \in 0 .. Len(path)
    /\ next \in MatchStates(T)
    /\ next.ok <=> before.ok /\ At(path, before.at, fragment)
    /\ next.ok /\ i > Len(c.names) =>
         next.at = behind /\ next.captured = before.captured
    /\ next.ok /\ ~(i > Len(c.names)) =>
         /\ next.at = end + 1
         /\ next.captured = Append(before.captured, Substr(path, behind, end))

LEMMA MatchFragmentIs ==
    ASSUME NEW T, NEW path \in Seq(T), NEW c \in ScanStates(T), NEW before \in MatchStates(T),
           NEW i \in 1 .. Len(c.fragments),
           NEW fragment, fragment = c.fragments[i],
           NEW behind, behind = before.at + Len(fragment),
           NEW end, end = FindFrom(path, Separator, behind),
           NEW next, next = MatchFragment(path, c, before, i)
    PROVE  FragmentPassed(T, path, c, before, i, fragment, behind, end, next)
<1>1. /\ c.fragments \in Seq(Seq(T)) /\ before.ok \in BOOLEAN /\ before.at \in Nat
      /\ before.captured \in Seq(Seq(T)) /\ Len(path) \in Nat
  BY LenProperties DEF ScanStates, MatchStates
<1>2. fragment \in Seq(T)
  BY <1>1, ElementOfSeq
<1>3. Len(fragment) \in Nat /\ behind \in Nat
  BY <1>1, <1>2, LenProperties
<1>4. end \in 0 .. Len(path)
  BY <1>1, <1>3, FoundIs DEF Found
<1>5. PICK value : value = Substr(path, behind, end)
  OBVIOUS
<1>6. value \in Seq(T)
  BY <1>3, <1>4, <1>5, SubstrType
<1>7. Append(before.captured, value) \in Seq(Seq(T)) /\ end + 1 \in Nat
  BY <1>1, <1>4, <1>6
<1>8. At(path, before.at, fragment) <=>
        ~(behind > Len(path)) /\ Substr(path, before.at, behind) = fragment
  <2>1. At(path, before.at, fragment) <=>
          before.at + Len(fragment) =< Len(path)
          /\ Substr(path, before.at, before.at + Len(fragment)) = fragment
    BY ONLY <1>1, <1>2, path \in Seq(T), FragmentAt
  <2>2. behind =< Len(path) <=> ~(behind > Len(path))
    BY <1>1, <1>3
  <2>. QED
    BY <2>1, <2>2
<1>9. next =
        IF ~(before.ok /\ At(path, before.at, fragment))
        THEN [before EXCEPT !.ok = FALSE]
        ELSE IF i > Len(c.names) THEN [before EXCEPT !.at = behind]
        ELSE [ok |-> TRUE, at |-> end + 1, captured |-> Append(before.captured, value)]
  BY <1>5, <1>8 DEF MatchFragment
<1>10. PICK longer : longer = Append(before.captured, value)
  OBVIOUS
<1>11. PICK here \in BOOLEAN : here = (before.ok /\ At(path, before.at, fragment))
  OBVIOUS
<1>12. PICK last \in BOOLEAN : last <=> i > Len(c.names)
  OBVIOUS
<1>13. next =
        IF ~here THEN [before EXCEPT !.ok = FALSE]
        ELSE IF last THEN [before EXCEPT !.at = behind]
        ELSE [ok |-> TRUE, at |-> end + 1, captured |-> longer]
  BY <1>9, <1>10, <1>11, <1>12
<1>14. next \in MatchStates(T)
  <2>1. longer \in Seq(Seq(T)) /\ end + 1 \in Nat
    BY <1>7, <1>10
  <2>2. CASE ~here
    BY ONLY <1>13, <2>2, before \in MatchStates(T) DEF MatchStates
  <2>3. CASE here /\ last
    BY ONLY <1>3, <1>13, <2>3, before \in MatchStates(T) DEF MatchStates
  <2>4. CASE here /\ ~last
    BY ONLY <1>13, <2>1, <2>4 DEF MatchStates
  <2>. QED
    BY <2>2, <2>3, <2>4
<1>15. /\ next.ok <=> here
       /\ next.ok /\ last => next.at = behind /\ next.captured = before.captured
       /\ next.ok /\ ~last => next.at = end + 1 /\ next.captured = longer
  <2>1. CASE ~here
    BY ONLY <1>13, <2>1, before \in MatchStates(T) DEF MatchStates
  <2>2. CASE here /\ last
    <3>1. before.ok
      BY <1>11, <2>2
    <3>. QED
      BY ONLY <1>13, <2>2, <3>1, before \in MatchStates(T) DEF MatchStates
  <2>3. CASE here /\ ~last
    BY ONLY <1>13, <2>3
  <2>. QED
    BY <2>1, <2>2, <2>3
<1>. QED
  BY <1>2, <1>3, <1>4, <1>5, <1>10, <1>11, <1>12, <1>14, <1>15 DEF FragmentPassed

\* What match has after i fragments.
Matched(T, path, c, G) ==
    /\ G \in [0 .. Len(c.fragments) -> MatchStates(T)]
    /\ G[0] = [ok |-> TRUE, at |-> 0, captured |-> <<>>]
    /\ \A i \in 1 .. Len(c.fragments) : G[i] = MatchFragment(path, c, G[i - 1], i)

MatchedTo(T, pattern, path, c, G) ==
    Matched(T, path, c, G) /\ MatchFragments(pattern, path) = G[Len(c.fragments)]

LEMMA MatchFragmentsIs ==
    ASSUME NEW T, NEW pattern, NEW path \in Seq(T), Compile(pattern) \in ScanStates(T),
           NEW c, c = Compile(pattern)
    PROVE  \E G : MatchedTo(T, pattern, path, c, G)
<1>. DEFINE n == Len(c.fragments)
            start == [ok |-> TRUE, at |-> 0, captured |-> <<>>]
            Matching(f) ==
              f = [i \in 0 .. n |-> IF i = 0 THEN start ELSE MatchFragment(path, c, f[i - 1], i)]
            step == [x \in (1 .. n) \X MatchStates(T) |-> MatchFragment(path, c, x[2], x[1])]
<1>1. c \in ScanStates(T) /\ n \in Nat
  <2>1. c.fragments \in Seq(Seq(T))
    BY DEF ScanStates
  <2>. QED
    BY <2>1, LenProperties
<1>2. start \in MatchStates(T)
  <2>1. << >> \in Seq(Seq(T))
    OBVIOUS
  <2>. QED
    BY <2>1 DEF MatchStates
<1>3. step \in [(1 .. n) \X MatchStates(T) -> MatchStates(T)]
  <2>1. ASSUME NEW i \in 1 .. n, NEW before \in MatchStates(T)
        PROVE  MatchFragment(path, c, before, i) \in MatchStates(T)
    BY <1>1, <2>1, MatchFragmentIs DEF FragmentPassed
  <2>2. \A x \in (1 .. n) \X MatchStates(T) : x[1] \in 1 .. n /\ x[2] \in MatchStates(T)
    OBVIOUS
  <2>3. \A x \in (1 .. n) \X MatchStates(T) :
           MatchFragment(path, c, x[2], x[1]) \in MatchStates(T)
    BY <2>1, <2>2
  <2>. QED
    BY <2>3
<1>. HIDE DEF n, start
<1>4. PICK G \in [0 .. n -> MatchStates(T)] : Steps(start, step, n, G)
  <2>. HIDE DEF step
  <2>1. n \in 0 .. n
    BY <1>1
  <2>. QED
    BY <1>1, <1>2, <1>3, <2>1, StepsExist
<1>5. G[0] = start /\ \A i \in 1 .. n : G[i] = MatchFragment(path, c, G[i - 1], i)
  <2>1. G[0] = start /\ \A i \in 1 .. n : G[i] = step[<<i, G[i - 1]>>]
    BY <1>4 DEF Steps
  <2>2. ASSUME NEW i \in 1 .. n PROVE step[<<i, G[i - 1]>>] = MatchFragment(path, c, G[i - 1], i)
    <3>1. i - 1 \in 0 .. n
      BY <1>1
    <3>2. G[i - 1] \in MatchStates(T)
      BY <3>1
    <3>. QED
      BY <3>2
  <2>. QED
    BY <2>1, <2>2
<1>. HIDE DEF step
<1>6. MatchFragments(pattern, path) = G[n]
  <2>. DEFINE f == CHOOSE h : Matching(h)
  <2>1. Matching(G)
    <3>1. ASSUME NEW i \in 0 .. n
          PROVE  G[i] = IF i = 0 THEN start ELSE MatchFragment(path, c, G[i - 1], i)
      <4>1. i # 0 => i \in 1 .. n
        BY <1>1
      <4>. QED
        BY <1>5, <4>1
    <3>2. G = [i \in 0 .. n |-> G[i]]
      OBVIOUS
    <3>3. [i \in 0 .. n |-> G[i]] =
          [i \in 0 .. n |-> IF i = 0 THEN start ELSE MatchFragment(path, c, G[i - 1], i)]
      BY <3>1, Zenon
    <3>. QED
      BY <3>2, <3>3, Zenon
  <2>2. Matching(f)
    BY <2>1, Zenon
  <2>3. MatchFragments(pattern, path) = f[n]
    BY Zenon DEF MatchFragments, n, start
  <2>. HIDE DEF f
  <2>4. Over(f, n) /\ Over(G, n)
    BY <2>1, <2>2 DEF Over
  <2>5. ASSUME NEW h, Matching(h)
        PROVE  h[0] = start /\ \A i \in 1 .. n : h[i] = MatchFragment(path, c, h[i - 1], i)
    <3>1. \A i \in 0 .. n : h[i] = IF i = 0 THEN start ELSE MatchFragment(path, c, h[i - 1], i)
      BY <2>5
    <3>2. 0 \in 0 .. n /\ \A i \in 1 .. n : i \in 0 .. n /\ i # 0
      BY <1>1
    <3>. QED
      BY <3>1, <3>2
  <2>. HIDE DEF Matching
  <2>6. f = G
    BY <1>1, <2>1, <2>2, <2>4, <2>5, SameSteps
  <2>. QED
    BY <2>3, <2>6
<1>. QED
  BY <1>5, <1>6 DEF MatchedTo, Matched, n, start

-----------------------------------------------------------------------------
(* Matching, against the pattern filled in.                                *)

\* These values have no separator in them.
Plain(v) == \A i \in 1 .. Len(v) : v[i] # Separator

\* The first k values have been captured.
Same(state, k, values) ==
    /\ state.ok
    /\ Len(state.captured) = k
    /\ \A j \in 1 .. k : state.captured[j] = values[j]

\* Behind k rounds: passed is what stands for the pattern up to the next
\* fragment, filled what stands for it up to the k-th parameter's end.
Reached(path, state, k, values, passed) ==
    /\ Same(state, k, values) => state.at = Len(passed)
    /\ Same(state, k, values) /\ state.at =< Len(path) <=> At(path, 0, passed)
Through(path, state, k, values, filled) ==
    /\ Same(state, k, values) <=> At(path, 0, filled) /\ Ends(path, Len(filled))
    /\ Same(state, k, values) => state.at = Len(filled) + 1

\* One round of match.
LEMMA RoundMatches ==
    ASSUME NEW T, NEW path \in Seq(T), NEW c \in ScanStates(T), NEW before \in MatchStates(T),
           NEW k \in Nat, k + 1 \in 1 .. Len(c.fragments), k + 1 =< Len(c.names),
           NEW fragment, fragment = c.fragments[k + 1],
           NEW next, next = MatchFragment(path, c, before, k + 1),
           NEW values, NEW v \in Seq(T), v = values[k + 1], Plain(v),
           NEW passed \in Seq(T),
           Reached(path, before, k, values, passed),
           NEW filled, filled = (passed \o fragment) \o v
    PROVE  Through(path, next, k + 1, values, filled)
<1>1. /\ Len(path) \in Nat /\ Len(passed) \in Nat /\ Len(v) \in Nat /\ before.at \in Nat
      /\ before.captured \in Seq(Seq(T)) /\ Len(c.names) \in Nat
  <2>1. c.names \in Seq(Seq(T))
    BY DEF ScanStates
  <2>. QED
    BY <2>1, LenProperties DEF MatchStates
<1>2. PICK behind : behind = before.at + Len(fragment)
  OBVIOUS
<1>3. PICK end : end = FindFrom(path, Separator, behind)
  OBVIOUS
<1>4. PICK value : value = Substr(path, behind, end)
  OBVIOUS
<1>5. /\ fragment \in Seq(T) /\ behind \in Nat /\ end \in 0 .. Len(path)
      /\ next.ok <=> before.ok /\ At(path, before.at, fragment)
      /\ next.ok => next.at = end + 1 /\ next.captured = Append(before.captured, value)
  <2>1. ~(k + 1 > Len(c.names))
    BY <1>1
  <2>. QED
    <3>1. FragmentPassed(T, path, c, before, k + 1, fragment, behind, end, next)
      BY <1>2, <1>3, MatchFragmentIs
    <3>. QED
      BY ONLY <1>4, <2>1, <3>1 DEF FragmentPassed
<1>6. Len(fragment) \in Nat /\ value \in Seq(T)
  BY <1>4, <1>5, LenProperties, SubstrType
<1>7. PICK both : both = passed \o fragment
  OBVIOUS
<1>8. both \in Seq(T) /\ Len(both) = Len(passed) + Len(fragment)
  BY ONLY <1>5, <1>7, passed \in Seq(T), ConcatProperties
<1>9. filled \in Seq(T) /\ Len(filled) = Len(both) + Len(v)
  BY ONLY <1>7, <1>8, v \in Seq(T), filled = (passed \o fragment) \o v, ConcatProperties
<1>10. At(path, 0, filled) <=>
         /\ At(path, 0, passed) /\ At(path, Len(passed), fragment)
         /\ At(path, Len(both), v)
  <2>1. At(path, 0, both) <=> At(path, 0, passed) /\ At(path, 0 + Len(passed), fragment)
    BY ONLY <1>5, <1>7, passed \in Seq(T), AtConcat
  <2>2. At(path, 0, filled) <=> At(path, 0, both) /\ At(path, 0 + Len(both), v)
    BY ONLY <1>7, <1>8, v \in Seq(T), filled = (passed \o fragment) \o v, AtConcat
  <2>3. 0 + Len(passed) = Len(passed) /\ 0 + Len(both) = Len(both)
    BY <1>1, <1>6, <1>8
  <2>. QED
    BY <2>1, <2>2, <2>3
<1>11. PICK longer : longer = Append(before.captured, value)
  OBVIOUS
<1>12. /\ Len(longer) = Len(before.captured) + 1
       /\ longer[Len(before.captured) + 1] = value
       /\ \A j \in 1 .. Len(before.captured) : longer[j] = before.captured[j]
  BY ONLY <1>1, <1>6, <1>11, AppendProperties
<1>13. ASSUME Same(before, k, values), At(path, before.at, fragment)
       PROVE  /\ At(path, 0, passed) /\ At(path, Len(passed), fragment)
              /\ before.at = Len(passed) /\ behind = Len(both) /\ behind \in 0 .. Len(path)
              /\ value = v <=> At(path, behind, v) /\ Ends(path, behind + Len(v))
              /\ value = v => end = behind + Len(v)
  <2>1. behind \in 0 .. Len(path) /\ before.at =< Len(path)
    <3>1. before.at + Len(fragment) =< Len(path)
      BY ONLY <1>13 DEF At
    <3>. QED
      BY ONLY <1>1, <1>2, <1>5, <1>6, <3>1
  <2>2. before.at = Len(passed) /\ behind = Len(both)
    BY <1>2, <1>8, <1>13 DEF Reached
  <2>3. /\ value = v <=> At(path, behind, v) /\ Ends(path, behind + Len(v))
        /\ value = v => end = behind + Len(v)
    BY <1>3, <1>4, <2>1, CaptureAt DEF Plain
  <2>4. At(path, 0, passed)
    BY <1>13, <2>1 DEF Reached
  <2>. QED
    BY <1>13, <2>1, <2>2, <2>3, <2>4
<1>14. ASSUME Same(next, k + 1, values)
       PROVE  At(path, 0, filled) /\ Ends(path, Len(filled)) /\ next.at = Len(filled) + 1
  <2>1. /\ before.ok /\ At(path, before.at, fragment)
        /\ next.at = end + 1 /\ next.captured = longer
    BY <1>5, <1>11, <1>14 DEF Same
  <2>2. Len(before.captured) = k
    <3>1. Len(before.captured) + 1 = k + 1
      BY <1>12, <1>14, <2>1 DEF Same
    <3>2. Len(before.captured) \in Nat
      BY <1>1, LenProperties
    <3>. QED
      BY ONLY <3>1, <3>2, k \in Nat
  <2>3. value = v
    <3>1. k + 1 \in 1 .. k + 1
      OBVIOUS
    <3>. QED
      BY <1>12, <1>14, <2>1, <2>2, <3>1 DEF Same
  <2>4. Same(before, k, values)
    <3>1. \A j \in 1 .. k : j \in 1 .. k + 1
      OBVIOUS
    <3>. QED
      BY <1>12, <1>14, <2>1, <2>2, <3>1 DEF Same
  <2>5. /\ At(path, 0, passed) /\ At(path, Len(passed), fragment) /\ behind = Len(both)
        /\ At(path, behind, v) /\ Ends(path, behind + Len(v)) /\ end = behind + Len(v)
    BY <1>13, <2>1, <2>3, <2>4
  <2>. QED
    BY <1>9, <1>10, <2>1, <2>5
<1>15. ASSUME At(path, 0, filled), Ends(path, Len(filled)) PROVE Same(next, k + 1, values)
  <2>1. At(path, 0, passed) /\ At(path, Len(passed), fragment) /\ At(path, Len(both), v)
    BY <1>10, <1>15
  <2>2. Same(before, k, values) /\ before.at = Len(passed)
    BY <2>1 DEF Reached
  <2>3. At(path, before.at, fragment)
    BY <2>1, <2>2
  <2>4. behind = Len(both) /\ value = v
    BY <1>9, <1>13, <1>15, <2>1, <2>2, <2>3
  <2>5. next.ok /\ next.captured = longer
    BY <1>5, <1>11, <2>2, <2>3 DEF Same
  <2>6. \A j \in 1 .. k + 1 : j \in 1 .. k \/ j = k + 1
    OBVIOUS
  <2>7. /\ Len(before.captured) = k
        /\ \A j \in 1 .. k : before.captured[j] = values[j]
    BY <2>2 DEF Same
  <2>. QED
    BY <1>12, <2>4, <2>5, <2>6, <2>7 DEF Same
<1>. QED
  BY <1>9, <1>14, <1>15 DEF Through

\* What match has after k rounds is the values, exactly if the path begins with
\* the pattern filled in with them up to the k-th parameter's end.
SoFar(path, cuts, G, values, F, k) ==
    IF k = 0 THEN Same(G[k], k, values) /\ G[k].at = 0
    ELSE Through(path, G[k], k, values, F[cuts[k] - 1])

LEMMA SoFarReached ==
    ASSUME NEW T, NEW pattern \in Seq(T), NEW path \in Seq(T), NEW m \in Nat, NEW cuts,
           Cuts(pattern, cuts, m), NEW G, NEW values, NEW F, Filled(T, pattern, values, F),
           NEW k \in 0 .. m, SoFar(path, cuts, G, values, F, k), cuts[k] =< Len(pattern)
    PROVE  F[cuts[k]] \in Seq(T) /\ Reached(path, G[k], k, values, F[cuts[k]])
<1>1. Len(pattern) \in Nat /\ Len(path) \in Nat
  BY LenProperties
<1>2. CutWell(pattern, cuts, k)
  BY <1>1, CutsWell
<1>3. cuts[k] \in 0 .. Len(pattern)
  BY <1>1, <1>2 DEF CutWell
<1>4. F[cuts[k]] \in Seq(T)
  BY <1>3 DEF Filled
<1>5. CASE k = 0
  <2>1. F[cuts[k]] = <<>>
    BY <1>5 DEF Cuts, Filled
  <2>2. Same(G[k], k, values) /\ G[k].at = 0
    BY <1>5 DEF SoFar
  <2>3. At(path, 0, <<>>) /\ Len(<<>>) = 0
    BY <1>1 DEF At
  <2>. QED
    BY <1>1, <1>4, <2>1, <2>2, <2>3 DEF Reached
<1>6. CASE k # 0
  <2>1. k \in 1 .. m /\ k > 0
    BY <1>6
  <2>2. PICK e : e = cuts[k] - 1
    OBVIOUS
  <2>3. e \in 1 .. Len(pattern) /\ e + 1 = cuts[k] /\ pattern[cuts[k]] = Separator
    BY <1>1, <1>2, <1>3, <2>1, <2>2 DEF CutWell
  <2>4. Separator \in T
    <3>1. cuts[k] \in 1 .. Len(pattern)
      BY <1>1, <1>3, <2>3
    <3>. QED
      BY <2>3, <3>1, ElementOfSeq
  <2>5. PICK E \in Seq(T) : E = F[e]
    <3>1. e \in 0 .. Len(pattern)
      BY <2>3
    <3>. QED
      BY <3>1 DEF Filled
  <2>6. PICK one : one = <<Separator>>
    OBVIOUS
  <2>61. one \in Seq(T) /\ Len(one) = 1 /\ one[1] = Separator
    BY ONLY <2>4, <2>6
  <2>7. F[cuts[k]] = E \o one
    <3>1. RoundDone(pattern, cuts, values, F, k)
      BY <2>1, CutsFilled
    <3>. QED
      BY ONLY <2>2, <2>5, <2>6, <3>1, cuts[k] =< Len(pattern) DEF RoundDone
  <2>8. Len(F[cuts[k]]) = Len(E) + 1
    <3>1. Len(E \o one) = Len(E) + Len(one)
      BY ONLY <2>61, E \in Seq(T), ConcatProperties
    <3>. QED
      BY ONLY <2>61, <2>7, <3>1
  <2>9. At(path, 0, F[cuts[k]]) <=> At(path, 0, E) /\ At(path, Len(E), one)
    <3>1. At(path, 0, E \o one) <=> At(path, 0, E) /\ At(path, 0 + Len(E), one)
      BY ONLY <2>61, E \in Seq(T), AtConcat
    <3>2. 0 + Len(E) = Len(E)
      BY LenProperties
    <3>. QED
      BY ONLY <2>7, <3>1, <3>2
  <2>10. At(path, Len(E), one) <=> Len(E) + 1 =< Len(path) /\ path[Len(E) + 1] = Separator
    <3>1. \A i \in 1 .. 1 : i = 1
      OBVIOUS
    <3>2. 1 \in 1 .. 1
      OBVIOUS
    <3>. QED
      BY ONLY <2>61, <3>1, <3>2 DEF At
  <2>11. /\ Same(G[k], k, values) <=> At(path, 0, E) /\ Ends(path, Len(E))
         /\ Same(G[k], k, values) => G[k].at = Len(E) + 1
    BY <1>6, <2>2, <2>5 DEF SoFar, Through
  <2>12. Len(E) \in Nat
    BY LenProperties
  <2>13. Ends(path, Len(E)) /\ Len(E) + 1 =< Len(path) <=>
           Len(E) + 1 =< Len(path) /\ path[Len(E) + 1] = Separator
    BY <1>1, <2>12 DEF Ends
  <2>. QED
    BY <1>4, <2>8, <2>9, <2>10, <2>11, <2>13 DEF Reached
<1>. QED
  BY <1>5, <1>6

LEMMA MatchedSoFar ==
    ASSUME NEW T, NEW pattern \in Seq(T), NEW path \in Seq(T), NEW m \in Nat, NEW cuts, NEW c,
           Compiled(T, pattern, m, cuts, c), NEW G, Matched(T, path, c, G), NEW values, NEW F,
           Filled(T, pattern, values, F),
           \A k \in 1 .. m : values[k] \in Seq(T) /\ Plain(values[k])
    PROVE  \A k \in 0 .. m : SoFar(path, cuts, G, values, F, k)
<1>. DEFINE D == {k \in Nat : k =< m => SoFar(path, cuts, G, values, F, k)}
<1>1. Len(pattern) \in Nat /\ Cuts(pattern, cuts, m)
  BY LenProperties DEF Compiled
<1>2. m =< Len(c.fragments) /\ Len(c.fragments) \in Nat /\ Len(c.names) = m
      /\ c \in ScanStates(T)
  BY DEF Compiled
<1>3. 0 \in D
  <2>1. G[0].ok /\ G[0].at = 0 /\ Len(G[0].captured) = 0
    BY DEF Matched
  <2>2. Same(G[0], 0, values)
    BY <2>1 DEF Same
  <2>. QED
    BY <2>1, <2>2 DEF SoFar
<1>4. ASSUME NEW k \in Nat, k \in D PROVE k + 1 \in D
  <2>. SUFFICES ASSUME k + 1 =< m PROVE SoFar(path, cuts, G, values, F, k + 1)
    OBVIOUS
  <2>1. /\ k \in 0 .. m /\ k + 1 \in 1 .. m /\ (k + 1) - 1 = k /\ k + 1 # 0
        /\ k + 1 \in 1 .. Len(c.fragments) /\ k \in 0 .. Len(c.fragments)
    BY <1>2
  <2>2. MarkerAt(pattern, cuts[k]) < Len(pattern)
    BY <1>1, <2>1 DEF Cuts
  <2>3. cuts[k] =< Len(pattern)
    <3>1. cuts[k] \in 0 .. Len(pattern) + 1
      BY <1>1, <2>1, CutsWell DEF CutWell
    <3>2. cuts[k] \in Nat
      BY <1>1, <3>1
    <3>3. cuts[k] < Len(pattern)
      BY <1>1, <2>2, <3>2, CutInOrder
    <3>. QED
      BY <1>1, <3>2, <3>3
  <2>4. F[cuts[k]] \in Seq(T) /\ Reached(path, G[k], k, values, F[cuts[k]])
    <3>1. SoFar(path, cuts, G, values, F, k)
      BY <1>4, <2>1
    <3>. QED
      BY <1>1, <2>1, <2>3, <3>1, SoFarReached
  <2>5. PICK passed \in Seq(T) : passed = F[cuts[k]]
    BY <2>4
  <2>6. PICK v \in Seq(T) : v = values[k + 1] /\ Plain(v)
    BY <2>1
  <2>7. PICK fragment : fragment = c.fragments[k + 1]
    OBVIOUS
  <2>8. PICK before \in MatchStates(T) : before = G[k]
    BY <2>1 DEF Matched
  <2>9. PICK next : next = G[k + 1]
    OBVIOUS
  <2>10. next = MatchFragment(path, c, before, k + 1)
    BY <2>1, <2>8, <2>9 DEF Matched
  <2>11. PICK filled : filled = (passed \o fragment) \o v
    OBVIOUS
  <2>12. F[cuts[k + 1] - 1] = filled
    <3>1. fragment = Fragment(pattern, cuts, k + 1)
      BY <2>1, <2>7 DEF Compiled
    <3>2. RoundDone(pattern, cuts, values, F, k + 1)
      BY <1>1, <2>1, CutsFilled
    <3>. QED
      BY ONLY <2>1, <2>5, <2>6, <2>11, <3>1, <3>2 DEF RoundDone
  <2>13. Reached(path, before, k, values, passed)
    BY <2>4, <2>5, <2>8
  <2>14. Through(path, next, k + 1, values, filled)
    <3>1. k + 1 =< Len(c.names)
      BY <1>2
    <3>. QED
      BY <1>2, <2>1, <2>6, <2>7, <2>10, <2>11, <2>13, <3>1, RoundMatches
  <2>. QED
    BY ONLY <2>1, <2>9, <2>12, <2>14 DEF SoFar
<1>. HIDE DEF D
<1>5. Nat \subseteq D
  BY <1>3, <1>4, Induction
<1>. QED
  BY <1>5 DEF D

\* What is captured has no separator in it and is a part of the path.
LEMMA CapturedPlain ==
    ASSUME NEW T, NEW pattern \in Seq(T), NEW path \in Seq(T), NEW m \in Nat, NEW cuts, NEW c,
           Compiled(T, pattern, m, cuts, c), NEW G, Matched(T, path, c, G)
    PROVE  \A k \in 0 .. m : G[k].ok =>
              /\ Len(G[k].captured) = k
              /\ \A j \in 1 .. k : Plain(G[k].captured[j]) /\ G[k].captured[j] \in Values(path)
<1>. DEFINE Fine(captured, k) ==
              /\ Len(captured) = k
              /\ \A j \in 1 .. k : Plain(captured[j]) /\ captured[j] \in Values(path)
            D == {k \in Nat : k =< m => (G[k].ok => Fine(G[k].captured, k))}
<1>1. /\ m =< Len(c.fragments) /\ Len(c.fragments) \in Nat /\ Len(c.names) = m
      /\ c \in ScanStates(T) /\ Len(path) \in Nat
  BY LenProperties DEF Compiled
<1>2. 0 \in D
  <2>1. Len(G[0].captured) = 0
    BY DEF Matched
  <2>. QED
    BY <2>1
<1>3. ASSUME NEW k \in Nat, k \in D PROVE k + 1 \in D
  <2>. SUFFICES ASSUME k + 1 =< m, G[k + 1].ok PROVE Fine(G[k + 1].captured, k + 1)
    OBVIOUS
  <2>1. /\ k =< m /\ k + 1 \in 1 .. Len(c.fragments) /\ k \in 0 .. Len(c.fragments)
        /\ (k + 1) - 1 = k /\ ~(k + 1 > Len(c.names))
    BY <1>1
  <2>2. PICK before \in MatchStates(T) : before = G[k]
    BY <2>1 DEF Matched
  <2>3. PICK next : next = G[k + 1] /\ next = MatchFragment(path, c, before, k + 1)
    BY <2>1, <2>2 DEF Matched
  <2>4. PICK fragment : fragment = c.fragments[k + 1]
    OBVIOUS
  <2>5. PICK behind : behind = before.at + Len(fragment)
    OBVIOUS
  <2>6. PICK end : end = FindFrom(path, Separator, behind)
    OBVIOUS
  <2>7. PICK value : value = Substr(path, behind, end)
    OBVIOUS
  <2>8. FragmentPassed(T, path, c, before, k + 1, fragment, behind, end, next)
    BY <1>1, <2>1, <2>3, <2>4, <2>5, <2>6, MatchFragmentIs
  <2>9. /\ behind \in Nat /\ end \in 0 .. Len(path) /\ before.ok
        /\ At(path, before.at, fragment) /\ next.captured = Append(before.captured, value)
    BY <2>1, <2>3, <2>7, <2>8 DEF FragmentPassed
  <2>10. behind \in 0 .. Len(path)
    <3>1. behind =< Len(path)
      BY <2>5, <2>9 DEF At
    <3>. QED
      BY <1>1, <2>9, <3>1
  <2>11. value \in Seq(T) /\ Plain(value)
    <3>1. /\ value \in Seq(T)
          /\ Len(value) = IF behind =< end THEN end - behind ELSE 0
          /\ \A i \in 1 .. Len(value) : value[i] = path[behind + i]
      BY ONLY <2>7, <2>9, path \in Seq(T), SubstrType
    <3>2. \A i \in behind + 1 .. end : path[i] # Separator
      BY <1>1, <2>6, <2>9, FoundIs DEF Found
    <3>3. \A i \in 1 .. Len(value) : behind + i \in behind + 1 .. end
      BY ONLY <2>9, <3>1, <1>1
    <3>. QED
      BY <3>1, <3>2, <3>3 DEF Plain
  <2>12. value \in Values(path)
    <3>1. behind \in 0 .. Len(path) /\ end \in 0 .. Len(path)
      BY <2>9, <2>10
    <3>2. Separator \notin ToSet(value)
      <4>1. ToSet(value) = {value[i] : i \in 1 .. Len(value)}
        BY <2>11 DEF ToSet
      <4>. QED
        BY <2>11, <4>1 DEF Plain
    <3>3. PICK at \in (0 .. Len(path)) \X (0 .. Len(path)) : at[1] = behind /\ at[2] = end
      <4>1. <<behind, end>> \in (0 .. Len(path)) \X (0 .. Len(path))
        BY ONLY <3>1
      <4>. QED
        BY <4>1
    <3>4. value = Substr(path, at[1], at[2])
      BY <2>7, <3>3
    <3>. QED
      BY ONLY <3>2, <3>4 DEF Values
  <2>13. Fine(before.captured, k)
    BY <1>3, <2>1, <2>2, <2>9
  <2>14. /\ Len(next.captured) = k + 1 /\ next.captured[k + 1] = value
         /\ \A j \in 1 .. k : next.captured[j] = before.captured[j]
    <3>1. before.captured \in Seq(Seq(T))
      BY DEF MatchStates
    <3>. QED
      BY ONLY <2>9, <2>11, <2>13, <3>1, AppendProperties
  <2>15. \A j \in 1 .. k + 1 : j \in 1 .. k \/ j = k + 1
    OBVIOUS
  <2>. QED
    BY <2>3, <2>11, <2>12, <2>13, <2>14, <2>15
<1>. HIDE DEF D
<1>4. Nat \subseteq D
  BY <1>2, <1>3, Induction
<1>. QED
  BY <1>4 DEF D

-----------------------------------------------------------------------------
(* The pattern's last parameter.                                           *)

LEMMA ParamsHaveNoSeparator ==
    ASSUME NEW pattern, NEW i \in Nat, InParam(pattern, i)
    PROVE  pattern[i] # Separator
<1>1. PICK j \in 1 .. i : \A k \in j .. i : pattern[k] # Separator
  BY DEF InParam
<1>2. i \in j .. i
  OBVIOUS
<1>. QED
  BY <1>1, <1>2

\* A pattern without its last sign, up to there.
LEMMA FrontFilled ==
    ASSUME NEW T, NEW pattern \in Seq(T), Len(pattern) > 1, NEW values,
           NEW F, Filled(T, pattern, values, F),
           NEW front, front = Front(pattern),
           \A k \in 1 .. Params(pattern, Len(pattern) - 1) : values[k] \in Seq(T),
           values = [k \in 1 .. Params(pattern, Len(pattern) - 1) |-> values[k]]
    PROVE  /\ front \in Seq(T) /\ Len(front) = Len(pattern) - 1
           /\ \A i \in 1 .. Len(pattern) - 1 : InParam(front, i) <=> InParam(pattern, i)
           /\ Fill(front, values) = F[Len(pattern) - 1]
<1>1. PICK n \in Nat : n = Len(pattern) - 1 /\ n \in 1 .. Len(pattern) /\ n + 1 = Len(pattern)
  BY LenProperties
<1>2. front \in Seq(T) /\ Len(front) = n /\ \A i \in 1 .. n : front[i] = pattern[i]
  <2>1. front = SubSeq(pattern, 1, n)
    BY <1>1 DEF Front
  <2>2. front = Substr(pattern, 0, n)
    <3>1. 0 + 1 = 1
      OBVIOUS
    <3>. QED
      BY ONLY <2>1, <3>1 DEF Substr
  <2>3. /\ front \in Seq(T)
        /\ Len(front) = IF 0 =< n THEN n - 0 ELSE 0
        /\ \A i \in 1 .. Len(front) : front[i] = pattern[0 + i]
    <3>1. n \in 0 .. Len(pattern) /\ 0 \in Nat
      BY ONLY <1>1
    <3>. QED
      BY ONLY <2>2, <3>1, pattern \in Seq(T), SubstrType
  <2>. QED
    BY ONLY <2>3, n \in Nat
<1>3. \A i \in 1 .. n : InParam(front, i) <=> InParam(pattern, i)
  <2>. TAKE i \in 1 .. n
  <2>1. \A j \in 1 .. i : front[j] = pattern[j] /\ \A k \in j .. i : front[k] = pattern[k]
    BY ONLY <1>2, n \in Nat, i \in 1 .. n
  <2>. QED
    BY ONLY <2>1 DEF InParam
<1>4. \A i \in 1 .. n : StartsParam(front, i) <=> StartsParam(pattern, i)
  <2>. TAKE i \in 1 .. n
  <2>1. i = 1 \/ i - 1 \in 1 .. n
    BY ONLY n \in Nat, i \in 1 .. n
  <2>. QED
    BY ONLY <1>3, <2>1, i \in 1 .. n DEF StartsParam
<1>5. \A i \in 0 .. n : Params(front, i) = Params(pattern, i)
  <2>. TAKE i \in 0 .. n
  <2>1. \A j \in 1 .. i : j \in 1 .. n
    BY ONLY n \in Nat, i \in 0 .. n
  <2>2. {j \in 1 .. i : StartsParam(front, j)} = {j \in 1 .. i : StartsParam(pattern, j)}
    BY ONLY <1>4, <2>1
  <2>. QED
    BY ONLY <2>2 DEF Params
<1>6. ValuesFor(T, front, values)
  <2>1. Params(front, Len(front)) = Params(pattern, Len(pattern) - 1)
    <3>1. n \in 0 .. n
      OBVIOUS
    <3>. QED
      BY <1>1, <1>2, <1>5, <3>1
  <2>. QED
    BY <2>1 DEF ValuesFor
<1>7. PICK H \in [0 .. Len(front) -> Seq(T)] :
        Filled(T, front, values, H) /\ Fill(front, values) = H[Len(front)]
  <2>1. front \in Seq(T)
    BY <1>2
  <2>. QED
    BY ONLY <1>6, <2>1, FillIs
<1>8. \A i \in 1 .. n : StandIn(front, values, i) = StandIn(pattern, values, i)
  <2>. TAKE i \in 1 .. n
  <2>1. i \in 0 .. n
    OBVIOUS
  <2>2. Params(front, i) = Params(pattern, i) /\ front[i] = pattern[i]
        /\ (InParam(front, i) <=> InParam(pattern, i))
        /\ (StartsParam(front, i) <=> StartsParam(pattern, i))
    BY <1>2, <1>3, <1>4, <1>5, <2>1
  <2>. QED
    BY ONLY <2>2 DEF StandIn
<1>. DEFINE D == {i \in Nat : i =< n => H[i] = F[i]}
<1>9. 0 \in D
  BY <1>7 DEF Filled
<1>10. ASSUME NEW i \in Nat, i \in D PROVE i + 1 \in D
  <2>. SUFFICES ASSUME i + 1 =< n PROVE H[i + 1] = F[i + 1]
    OBVIOUS
  <2>1. /\ i + 1 \in 1 .. n /\ (i + 1) - 1 = i /\ i + 1 \in 1 .. Len(pattern)
        /\ i + 1 \in 1 .. Len(front) /\ i =< n
    BY <1>1, <1>2
  <2>2. H[i + 1] = H[i] \o StandIn(front, values, i + 1)
    BY <1>7, <2>1 DEF Filled
  <2>3. F[i + 1] = F[i] \o StandIn(pattern, values, i + 1)
    BY <2>1 DEF Filled
  <2>. QED
    BY <1>8, <1>10, <2>1, <2>2, <2>3
<1>. HIDE DEF D
<1>11. n \in D
  BY <1>9, <1>10, Induction
<1>12. H[n] = F[n]
  BY <1>11 DEF D
<1>. QED
  BY <1>1, <1>2, <1>3, <1>7, <1>12

\* If nothing is left behind the last parameter, or only a separator, the core
\* ends with the parameter.
LEMMA CoreAtParam ==
    ASSUME NEW T, NEW pattern \in Seq(T), NEW m \in Nat \ {0}, NEW cuts,
           Cuts(pattern, cuts, m), MarkerAt(pattern, cuts[m]) = Len(pattern),
           cuts[m] >= Len(pattern),
           NEW values \in [1 .. m -> Seq(T)], NEW F, Filled(T, pattern, values, F)
    PROVE  /\ F[cuts[m] - 1] \in Seq(T)
           /\ Fill(Core(pattern), values) = F[cuts[m] - 1]
           /\ InParam(Core(pattern), Len(Core(pattern)))
<1>1. PICK n \in Nat : n = Len(pattern)
  BY LenProperties
<1>2. PICK e : e = cuts[m] - 1
  OBVIOUS
<1>3. CutWell(pattern, cuts, m)
  BY <1>1, CutsWell
<1>4. /\ cuts[m] \in 0 .. n + 1 /\ e \in 1 .. n /\ e + 1 = cuts[m]
      /\ Params(pattern, e) = m /\ InParam(pattern, e)
      /\ cuts[m] =< n => pattern[cuts[m]] = Separator
  BY <1>1, <1>2, <1>3 DEF CutWell
<1>5. values = [k \in 1 .. m |-> values[k]] /\ \A k \in 1 .. m : values[k] \in Seq(T)
  OBVIOUS
<1>6. F[e] \in Seq(T)
  <2>1. e \in 0 .. Len(pattern)
    BY <1>1, <1>4
  <2>. QED
    BY <2>1 DEF Filled
<1>7. CASE cuts[m] = n + 1
  <2>1. e = n
    BY <1>4, <1>7
  <2>2. pattern[n] # Separator
    BY <1>4, <2>1, ParamsHaveNoSeparator
  <2>3. Core(pattern) = pattern
    BY <1>1, <2>2 DEF Core
  <2>4. ValuesFor(T, pattern, values)
    BY <1>1, <1>4, <1>5, <2>1 DEF ValuesFor
  <2>5. PICK H : Filled(T, pattern, values, H) /\ Fill(pattern, values) = H[n]
    BY <1>1, <2>4, FillIs
  <2>6. H[n] = F[n]
    <3>1. Over(H, n) /\ Over(F, n)
      BY <1>1, <2>5 DEF Over, Filled
    <3>2. H[0] = F[0] /\ \A i \in 1 .. n : H[i - 1] = F[i - 1] => H[i] = F[i]
      BY <1>1, <2>5 DEF Filled
    <3>3. H = F
      BY <3>1, <3>2, SameSteps
    <3>. QED
      BY <3>3
  <2>. QED
    BY <1>1, <1>2, <1>4, <1>6, <2>1, <2>3, <2>5, <2>6
<1>8. CASE cuts[m] = n
  <2>1. e = n - 1 /\ n > 1 /\ pattern[n] = Separator /\ n - 1 \in 1 .. n - 1
    BY <1>4, <1>8
  <2>2. PICK front : front = Front(pattern)
    OBVIOUS
  <2>3. Core(pattern) = front
    BY <1>1, <1>4, <2>1, <2>2 DEF Core
  <2>4. /\ Len(front) = n - 1
        /\ \A i \in 1 .. n - 1 : InParam(front, i) <=> InParam(pattern, i)
        /\ Fill(front, values) = F[n - 1]
    BY <1>1, <1>4, <1>5, <2>1, <2>2, FrontFilled
  <2>. QED
    BY <1>2, <1>4, <1>6, <2>1, <2>3, <2>4
<1>9. cuts[m] = n + 1 \/ cuts[m] = n
  BY <1>1, <1>4
<1>. QED
  BY <1>7, <1>8, <1>9

\* If something is left, the core is the pattern and ends with no parameter.
LEMMA CoreAtRest ==
    ASSUME NEW T, NEW pattern \in Seq(T), NEW m \in Nat, NEW cuts,
           Cuts(pattern, cuts, m), MarkerAt(pattern, cuts[m]) = Len(pattern),
           cuts[m] < Len(pattern)
    PROVE  Core(pattern) = pattern /\ ~InParam(pattern, Len(pattern))
<1>1. PICK n \in Nat : n = Len(pattern)
  BY LenProperties
<1>2. CutWell(pattern, cuts, m)
  BY <1>1, CutsWell
<1>3. /\ cuts[m] \in 0 .. n /\ Free(pattern, cuts[m])
      /\ m > 0 => cuts[m] - 1 \in 1 .. n
  BY <1>1, <1>2 DEF CutWell
<1>4. \A i \in cuts[m] + 1 .. n : ~InParam(pattern, i)
  BY <1>1, CutsDone
<1>5. ~InParam(pattern, n)
  <2>1. n \in cuts[m] + 1 .. n
    BY <1>1, <1>3
  <2>. QED
    BY <1>4, <2>1
<1>6. n > 1 => ~InParam(pattern, n - 1)
  <2>. SUFFICES ASSUME n > 1 PROVE ~InParam(pattern, n - 1)
    OBVIOUS
  <2>1. n - 1 \in cuts[m] + 1 .. n \/ (n - 1 = cuts[m] /\ n - 1 # 0)
    BY <1>1, <1>3
  <2>2. n - 1 \in Nat
    OBVIOUS
  <2>3. n - 1 = cuts[m] /\ n - 1 # 0 => pattern[n - 1] = Separator
    BY <1>3 DEF Free
  <2>. QED
    BY <1>4, <2>1, <2>2, <2>3, ParamsHaveNoSeparator
<1>. QED
  BY <1>1, <1>5, <1>6 DEF Core

-----------------------------------------------------------------------------
(* What a handler is given.                                                *)

\* Match runs the handler with these values exactly if the path is the pattern
\* filled in with them.
MatchedWith(pattern, path, m, last, values) ==
    Same(last, m, values) /\ last.at >= Len(path) <=> Fits(pattern, path, values)

\* The rest of the pattern captures nothing.
NothingCaptured(before, last) == last.ok => before.ok /\ last.captured = before.captured

LEMMA MatchedRest ==
    ASSUME NEW T, NEW pattern \in Seq(T), NEW path \in Seq(T), NEW m \in Nat, NEW cuts, NEW c,
           Compiled(T, pattern, m, cuts, c), cuts[m] < Len(pattern),
           NEW G, Matched(T, path, c, G),
           NEW values \in [1 .. m -> Seq(T)], \A k \in 1 .. m : Plain(values[k])
    PROVE  /\ MatchedWith(pattern, path, m, G[Len(c.fragments)], values)
           /\ NothingCaptured(G[m], G[Len(c.fragments)])
<1>1. PICK n \in Nat : n = Len(pattern)
  BY LenProperties
<1>2. /\ Cuts(pattern, cuts, m) /\ MarkerAt(pattern, cuts[m]) = n /\ c \in ScanStates(T)
      /\ Len(c.names) = m /\ Len(c.fragments) = m + 1
      /\ c.fragments[m + 1] = Substr(pattern, cuts[m], n)
  BY <1>1 DEF Compiled
<1>3. cuts[m] \in 0 .. n /\ cuts[m] \in Nat /\ cuts[m] < n
  <2>1. CutWell(pattern, cuts, m)
    <3>1. m \in 0 .. m
      OBVIOUS
    <3>. QED
      BY <1>1, <1>2, <3>1, CutsWell
  <2>. QED
    BY <1>1, <2>1 DEF CutWell
<1>4. /\ Params(pattern, n) = m
      /\ \A i \in cuts[m] + 1 .. n : ~InParam(pattern, i)
  BY <1>1, <1>2, CutsDone
<1>5. Core(pattern) = pattern /\ ~InParam(pattern, n)
  BY <1>1, <1>2, CoreAtRest
<1>6. ValuesFor(T, pattern, values)
  BY <1>1, <1>4 DEF ValuesFor
<1>7. PICK F \in [0 .. Len(pattern) -> Seq(T)] :
        Filled(T, pattern, values, F) /\ Fill(pattern, values) = F[Len(pattern)]
  BY ONLY <1>6, pattern \in Seq(T), FillIs
<1>8. PICK whole \in Seq(T) : whole = F[n]
  BY <1>1
<1>9. PICK rest : rest = Substr(pattern, cuts[m], n)
  OBVIOUS
<1>10. Fits(pattern, path, values) <=> path = whole
  BY <1>1, <1>5, <1>7, <1>8 DEF Fits
<1>11. PICK state \in MatchStates(T) : state = G[m]
  <2>1. m \in 0 .. Len(c.fragments)
    BY <1>2
  <2>. QED
    BY <2>1 DEF Matched
<1>12. PICK passed \in Seq(T) : passed = F[cuts[m]] /\ Reached(path, state, m, values, passed)
  <2>1. m \in 0 .. m /\ cuts[m] =< Len(pattern)
    BY <1>1, <1>3
  <2>2. \A k \in 1 .. m : values[k] \in Seq(T) /\ Plain(values[k])
    OBVIOUS
  <2>3. SoFar(path, cuts, G, values, F, m)
    BY <1>7, <2>1, <2>2, MatchedSoFar
  <2>4. F[cuts[m]] \in Seq(T) /\ Reached(path, G[m], m, values, F[cuts[m]])
    BY <1>2, <1>7, <2>1, <2>3, SoFarReached
  <2>. QED
    BY <1>11, <2>4
<1>13. PICK last : last = G[Len(c.fragments)] /\ last = MatchFragment(path, c, state, m + 1)
  <2>1. m + 1 \in 1 .. Len(c.fragments) /\ (m + 1) - 1 = m /\ m + 1 = Len(c.fragments)
    BY <1>2
  <2>. QED
    BY <1>11, <2>1 DEF Matched
<1>14. PICK behind : behind = state.at + Len(rest)
  OBVIOUS
<1>15. PICK end : end = FindFrom(path, Separator, behind)
  OBVIOUS
<1>16. FragmentPassed(T, path, c, state, m + 1, rest, behind, end, last)
  <2>1. m + 1 \in 1 .. Len(c.fragments) /\ rest = c.fragments[m + 1]
    BY <1>2, <1>9
  <2>. QED
    BY <1>2, <1>13, <1>14, <1>15, <2>1, MatchFragmentIs
<1>17. /\ rest \in Seq(T) /\ behind \in Nat
       /\ last.ok <=> state.ok /\ At(path, state.at, rest)
       /\ last.ok => last.at = behind /\ last.captured = state.captured
  <2>1. m + 1 > Len(c.names)
    BY <1>2
  <2>. QED
    BY ONLY <1>16, <2>1 DEF FragmentPassed
<1>18. whole = passed \o rest
  <2>1. F[n] = F[cuts[m]] \o Substr(pattern, cuts[m], n)
    <3>1. PICK from \in Nat : from = cuts[m]
      BY <1>3
    <3>2. n \in from .. Len(pattern) /\ \A i \in from + 1 .. n : ~InParam(pattern, i)
      BY <1>1, <1>3, <1>4, <3>1
    <3>3. ASSUME NEW H, Filled(T, pattern, values, H)
          PROVE  H[n] = H[from] \o Substr(pattern, from, n)
      BY ONLY <3>2, <3>3, from \in Nat, pattern \in Seq(T), FilledLiteral
    <3>. QED
      BY ONLY <1>7, <3>1, <3>3
  <2>. QED
    BY ONLY <1>8, <1>9, <1>12, <2>1
<1>19. /\ Len(path) \in Nat /\ Len(passed) \in Nat /\ Len(rest) \in Nat /\ state.at \in Nat
       /\ Len(whole) = Len(passed) + Len(rest)
  <2>1. Len(path) \in Nat /\ Len(passed) \in Nat /\ Len(rest) \in Nat
    BY <1>17, LenProperties
  <2>2. state.at \in Nat
    BY DEF MatchStates
  <2>3. Len(whole) = Len(passed) + Len(rest)
    BY ONLY <1>17, <1>18, passed \in Seq(T), ConcatProperties
  <2>. QED
    BY <2>1, <2>2, <2>3
<1>20. At(path, 0, whole) <=> At(path, 0, passed) /\ At(path, Len(passed), rest)
  <2>1. At(path, 0, whole) <=> At(path, 0, passed) /\ At(path, 0 + Len(passed), rest)
    BY ONLY <1>17, <1>18, passed \in Seq(T), AtConcat
  <2>2. 0 + Len(passed) = Len(passed)
    BY <1>19
  <2>. QED
    BY ONLY <2>1, <2>2
<1>21. Same(last, m, values) <=> Same(state, m, values) /\ At(path, state.at, rest)
  BY ONLY <1>17 DEF Same
<1>22. At(path, state.at, rest) => state.at =< Len(path)
  <2>1. At(path, state.at, rest) => state.at + Len(rest) =< Len(path)
    BY DEF At
  <2>. QED
    BY ONLY <1>19, <2>1
<1>23. path = whole <=> At(path, 0, whole) /\ Len(path) =< Len(whole)
  BY ONLY path \in Seq(T), whole \in Seq(T), AtWhole
<1>24. ASSUME Same(last, m, values), last.at >= Len(path) PROVE path = whole
  <2>1. Same(state, m, values) /\ At(path, state.at, rest) /\ state.at = Len(passed)
        /\ At(path, 0, passed) /\ last.at = behind
    BY <1>12, <1>17, <1>21, <1>22, <1>24 DEF Reached, Same
  <2>2. Len(path) =< Len(whole)
    BY ONLY <1>14, <1>19, <1>24, <2>1
  <2>. QED
    BY <1>20, <1>23, <2>1, <2>2
<1>25. ASSUME path = whole PROVE Same(last, m, values) /\ last.at >= Len(path)
  <2>1. At(path, 0, passed) /\ At(path, Len(passed), rest) /\ Len(path) =< Len(whole)
    BY <1>20, <1>23, <1>25
  <2>2. Same(state, m, values) /\ state.at = Len(passed)
    BY <1>12, <2>1 DEF Reached
  <2>3. Same(last, m, values) /\ last.at = behind
    BY <1>17, <1>21, <2>1, <2>2 DEF Same
  <2>. QED
    BY ONLY <1>14, <1>19, <2>1, <2>2, <2>3
<1>. QED
  BY <1>10, <1>11, <1>13, <1>17, <1>24, <1>25 DEF MatchedWith, NothingCaptured

LEMMA MatchedParam ==
    ASSUME NEW T, NEW pattern \in Seq(T), NEW path \in Seq(T), Separator \in T,
           NEW m \in Nat \ {0}, NEW cuts, NEW c,
           Compiled(T, pattern, m, cuts, c), cuts[m] >= Len(pattern),
           NEW G, Matched(T, path, c, G),
           NEW values \in [1 .. m -> Seq(T)], \A k \in 1 .. m : Plain(values[k])
    PROVE  /\ Len(c.fragments) = m
           /\ MatchedWith(pattern, path, m, G[m], values)
<1>1. PICK n \in Nat : n = Len(pattern)
  BY LenProperties
<1>2. Cuts(pattern, cuts, m) /\ MarkerAt(pattern, cuts[m]) = n
  BY <1>1 DEF Compiled
<1>3. cuts[m] \in Nat
  <2>1. CutWell(pattern, cuts, m)
    <3>1. m \in 0 .. m
      OBVIOUS
    <3>. QED
      BY <1>1, <1>2, <3>1, CutsWell
  <2>. QED
    BY <1>1, <2>1 DEF CutWell
<1>4. Len(c.fragments) = m
  <2>1. ~(cuts[m] < Len(pattern))
    BY <1>1, <1>3
  <2>. QED
    BY <2>1 DEF Compiled
<1>5. ValuesFor(T, pattern, values)
  <2>1. Params(pattern, n) = m
    BY <1>1, <1>2, CutsDone
  <2>. QED
    BY <1>1, <2>1 DEF ValuesFor
<1>6. PICK F \in [0 .. Len(pattern) -> Seq(T)] :
        Filled(T, pattern, values, F) /\ Fill(pattern, values) = F[Len(pattern)]
  BY ONLY <1>5, pattern \in Seq(T), FillIs
<1>7. PICK E \in Seq(T) : /\ E = F[cuts[m] - 1]
                          /\ Fill(Core(pattern), values) = E
                          /\ InParam(Core(pattern), Len(Core(pattern)))
  BY <1>1, <1>2, <1>6, CoreAtParam
<1>8. Fits(pattern, path, values) <=> path = E \/ path = Append(E, Separator)
  BY <1>7 DEF Fits
<1>9. PICK last \in MatchStates(T) : last = G[m]
  <2>1. m \in 0 .. Len(c.fragments)
    BY <1>4
  <2>. QED
    BY <2>1 DEF Matched
<1>10. Through(path, last, m, values, E)
  <2>1. m \in 0 .. m /\ m # 0
    OBVIOUS
  <2>2. \A k \in 1 .. m : values[k] \in Seq(T) /\ Plain(values[k])
    OBVIOUS
  <2>3. SoFar(path, cuts, G, values, F, m)
    BY <1>6, <2>1, <2>2, MatchedSoFar
  <2>. QED
    BY <1>7, <1>9, <2>1, <2>3 DEF SoFar
<1>11. Len(path) \in Nat /\ Len(E) \in Nat /\ last.at \in Nat
  BY LenProperties DEF MatchStates
<1>12. PICK longer : longer = Append(E, Separator)
  OBVIOUS
<1>13. /\ longer \in Seq(T) /\ Len(longer) = Len(E) + 1 /\ longer[Len(E) + 1] = Separator
       /\ \A i \in 1 .. Len(E) : longer[i] = E[i]
  BY ONLY <1>12, E \in Seq(T), Separator \in T, AppendProperties
<1>14. path = E <=> At(path, 0, E) /\ Len(path) =< Len(E)
  BY ONLY path \in Seq(T), E \in Seq(T), AtWhole
<1>15. path = longer <=>
         At(path, 0, E) /\ Len(path) = Len(E) + 1 /\ path[Len(E) + 1] = Separator
  <2>0. At(path, 0, E) <=> Len(E) =< Len(path) /\ \A i \in 1 .. Len(E) : path[i] = E[i]
    BY <1>11 DEF At
  <2>1. ASSUME path = longer
        PROVE  At(path, 0, E) /\ Len(path) = Len(E) + 1 /\ path[Len(E) + 1] = Separator
    BY <1>11, <1>13, <2>0, <2>1
  <2>2. ASSUME At(path, 0, E), Len(path) = Len(E) + 1, path[Len(E) + 1] = Separator
        PROVE  path = longer
    <3>1. \A i \in 1 .. Len(path) : i \in 1 .. Len(E) \/ i = Len(E) + 1
      BY <1>11, <2>2
    <3>2. \A i \in 1 .. Len(path) : path[i] = longer[i]
      BY <1>13, <2>0, <2>2, <3>1
    <3>. QED
      BY <1>13, <2>2, <3>2, SeqEqual
  <2>. QED
    BY <2>1, <2>2
<1>16. At(path, 0, E) => Len(E) =< Len(path)
  <2>1. At(path, 0, E) => 0 + Len(E) =< Len(path)
    BY DEF At
  <2>. QED
    BY <1>11, <2>1
<1>17. ASSUME Same(last, m, values), last.at >= Len(path) PROVE path = E \/ path = longer
  <2>1. At(path, 0, E) /\ Ends(path, Len(E)) /\ last.at = Len(E) + 1
    BY <1>10, <1>17 DEF Through
  <2>2. Len(path) = Len(E) \/ (Len(path) = Len(E) + 1 /\ path[Len(E) + 1] = Separator)
    BY <1>11, <1>16, <1>17, <2>1 DEF Ends
  <2>. QED
    BY <1>11, <1>14, <1>15, <2>1, <2>2
<1>18. ASSUME path = E \/ path = longer PROVE Same(last, m, values) /\ last.at >= Len(path)
  <2>1. /\ At(path, 0, E) /\ Len(path) =< Len(E) + 1
        /\ Len(path) = Len(E) \/ path[Len(E) + 1] = Separator
    BY <1>11, <1>14, <1>15, <1>16, <1>18
  <2>2. Ends(path, Len(E))
    BY <2>1 DEF Ends
  <2>3. Same(last, m, values) /\ last.at = Len(E) + 1
    BY <1>10, <2>1, <2>2 DEF Through
  <2>. QED
    BY <1>11, <2>1, <2>3
<1>. QED
  BY <1>4, <1>8, <1>9, <1>12, <1>17, <1>18 DEF MatchedWith

LEMMA MatchedNothing ==
    ASSUME NEW T, NEW pattern \in Seq(T), NEW path \in Seq(T), NEW cuts, NEW c,
           Compiled(T, pattern, 0, cuts, c), cuts[0] >= Len(pattern),
           NEW G, Matched(T, path, c, G), NEW values \in [1 .. 0 -> Seq(T)]
    PROVE  Len(c.fragments) = 0 /\ MatchedWith(pattern, path, 0, G[0], values)
<1>1. PICK n \in Nat : n = Len(pattern)
  BY LenProperties
<1>2. cuts[0] = 0 /\ Cuts(pattern, cuts, 0) /\ MarkerAt(pattern, cuts[0]) = n
  BY <1>1 DEF Compiled, Cuts
<1>3. n = 0 /\ pattern = <<>>
  <2>1. n = 0
    BY <1>1, <1>2
  <2>. QED
    BY <1>1, <2>1, EmptySeq
<1>4. Len(c.fragments) = 0
  BY <1>1, <1>2, <1>3 DEF Compiled
<1>5. Core(pattern) = pattern /\ ~InParam(pattern, Len(pattern))
  BY <1>1, <1>3 DEF Core, InParam
<1>6. Params(pattern, Len(pattern)) = 0
  BY <1>1, <1>2, CutsDone
<1>7. ValuesFor(T, pattern, values)
  BY <1>6 DEF ValuesFor
<1>8. PICK F \in [0 .. Len(pattern) -> Seq(T)] :
        Filled(T, pattern, values, F) /\ Fill(pattern, values) = F[Len(pattern)]
  BY ONLY <1>7, pattern \in Seq(T), FillIs
<1>9. Fill(pattern, values) = <<>>
  BY <1>1, <1>3, <1>8 DEF Filled
<1>10. Fits(pattern, path, values) <=> path = <<>>
  BY <1>5, <1>9 DEF Fits
<1>11. Len(path) \in Nat /\ (Len(path) = 0 <=> path = <<>>)
  BY LenProperties, EmptySeq
<1>12. Same(G[0], 0, values) /\ G[0].at = 0
  <2>1. G[0].ok /\ G[0].at = 0 /\ Len(G[0].captured) = 0
    BY DEF Matched
  <2>. QED
    BY <2>1 DEF Same
<1>13. 0 >= Len(path) <=> path = <<>>
  BY <1>11
<1>. QED
  BY <1>4, <1>10, <1>12, <1>13 DEF MatchedWith

LEMMA ValuesPlain ==
    ASSUME NEW T, NEW path \in Seq(T), NEW v \in Values(path)
    PROVE  v \in Seq(T) /\ Plain(v)
<1>1. PICK at \in (0 .. Len(path)) \X (0 .. Len(path)) :
        v = Substr(path, at[1], at[2]) /\ Separator \notin ToSet(v)
  BY DEF Values
<1>2. at[1] \in Nat /\ at[2] \in 0 .. Len(path)
  BY LenProperties
<1>3. v \in Seq(T)
  BY <1>1, <1>2, SubstrType
<1>4. ToSet(v) = {v[i] : i \in 1 .. Len(v)}
  BY <1>3 DEF ToSet
<1>. QED
  BY <1>1, <1>3, <1>4 DEF Plain

\* CapturesExact for every pattern and every path.  A handler's path parameters
\* are exactly the values that make its pattern the path.
THEOREM CapturesAsMeant ==
    ASSUME NEW T, NEW pattern \in Seq(T), NEW path \in Seq(T), Separator \in T
    PROVE  CapturesFill(pattern, path)
<1>1. PICK m \in Nat : \E cuts \in [0 .. m -> Nat] :
        Compiled(T, pattern, m, cuts, Compile(pattern))
  BY CompileIs
<1>2. PICK cuts \in [0 .. m -> Nat] : Compiled(T, pattern, m, cuts, Compile(pattern))
  BY <1>1
<1>3. PICK c : c = Compile(pattern)
  OBVIOUS
<1>4. Compiled(T, pattern, m, cuts, c)
  BY <1>2, <1>3
<1>5. PICK G : Matched(T, path, c, G) /\ MatchFragments(pattern, path) = G[Len(c.fragments)]
  <2>1. Compile(pattern) \in ScanStates(T)
    BY <1>3, <1>4 DEF Compiled
  <2>. QED
    <3>1. \E G : MatchedTo(T, pattern, path, c, G)
      BY ONLY <1>3, <2>1, path \in Seq(T), MatchFragmentsIs
    <3>. QED
      BY ONLY <3>1 DEF MatchedTo
<1>6. /\ Len(pattern) \in Nat /\ cuts[m] \in Nat /\ Len(c.fragments) \in Nat /\ Len(path) \in Nat
      /\ Len(c.fragments) = m + IF cuts[m] < Len(pattern) THEN 1 ELSE 0
  BY <1>4, LenProperties DEF Compiled
<1>7. PICK last \in MatchStates(T) : last = G[Len(c.fragments)]
  BY <1>5, <1>6 DEF Matched
<1>8. ASSUME NEW values \in [1 .. m -> Seq(T)], \A k \in 1 .. m : Plain(values[k])
      PROVE  MatchedWith(pattern, path, m, last, values)
  <2>1. CASE cuts[m] < Len(pattern)
    BY ONLY <1>4, <1>5, <1>7, <1>8, <2>1, pattern \in Seq(T), path \in Seq(T), m \in Nat,
            values \in [1 .. m -> Seq(T)], MatchedRest
  <2>2. CASE cuts[m] >= Len(pattern) /\ m # 0
    <3>1. m \in Nat \ {0}
      BY <2>2
    <3>2. Len(c.fragments) = m /\ MatchedWith(pattern, path, m, G[m], values)
      BY ONLY <1>4, <1>5, <1>8, <2>2, <3>1, pattern \in Seq(T), path \in Seq(T), Separator \in T,
              values \in [1 .. m -> Seq(T)], MatchedParam
    <3>. QED
      BY ONLY <1>7, <3>2
  <2>3. CASE cuts[m] >= Len(pattern) /\ m = 0
    BY <1>4, <1>5, <1>7, <2>3, MatchedNothing
  <2>. QED
    BY <1>6, <2>1, <2>2, <2>3
<1>9. ASSUME last.ok
      PROVE  /\ last.captured \in [1 .. m -> Seq(T)]
             /\ Len(last.captured) = m
             /\ \A k \in 1 .. m : Plain(last.captured[k]) /\ last.captured[k] \in Values(path)
  <2>1. G[m].ok /\ last.captured = G[m].captured
    <3>1. CASE cuts[m] < Len(pattern)
      <4>1. PICK some \in [1 .. m -> Seq(T)] : \A k \in 1 .. m : Plain(some[k])
        <5>1. << >> \in Seq(T) /\ Plain(<< >>)
          BY DEF Plain
        <5>2. [k \in 1 .. m |-> << >>] \in [1 .. m -> Seq(T)]
          BY <5>1
        <5>. QED
          BY <5>1, <5>2
      <4>. QED
        <5>1. Matched(T, path, c, G)
          BY <1>5
        <5>2. NothingCaptured(G[m], G[Len(c.fragments)])
          BY ONLY <1>4, <3>1, <4>1, <5>1, pattern \in Seq(T), path \in Seq(T), m \in Nat,
                  some \in [1 .. m -> Seq(T)], MatchedRest
        <5>. QED
          BY ONLY <1>7, <1>9, <5>2 DEF NothingCaptured
    <3>2. CASE ~(cuts[m] < Len(pattern))
      BY <1>6, <1>7, <1>9, <3>2
    <3>. QED
      BY <3>1, <3>2
  <2>2. m \in 0 .. m
    OBVIOUS
  <2>3. /\ Len(last.captured) = m
        /\ \A k \in 1 .. m : Plain(last.captured[k]) /\ last.captured[k] \in Values(path)
    BY <1>4, <1>5, <2>1, <2>2, CapturedPlain
  <2>4. last.captured \in Seq(Seq(T))
    BY DEF MatchStates
  <2>5. last.captured \in [1 .. m -> Seq(T)]
    BY <2>3, <2>4, LenProperties
  <2>. QED
    BY <2>3, <2>5
<1>10. Params(pattern, Len(pattern)) = m
  BY <1>4, <1>6, CutsDone DEF Compiled
<1>11. PICK match : match = Match(pattern, path)
  OBVIOUS
<1>12. (match.ok <=> last.ok /\ last.at >= Len(path)) /\ match.captured = last.captured
  <2>1. match = [last EXCEPT !.ok = @ /\ last.at >= Len(path)]
    BY <1>5, <1>7, <1>11 DEF Match
  <2>. QED
    BY ONLY <2>1, last \in MatchStates(T) DEF MatchStates
<1>13. ASSUME match.ok
       PROVE  /\ match.captured \in [1 .. m -> Values(path)]
              /\ Fits(pattern, path, match.captured)
  <2>1. PICK values : values = match.captured
    OBVIOUS
  <2>2. /\ values \in [1 .. m -> Seq(T)] /\ Len(values) = m
        /\ \A k \in 1 .. m : Plain(values[k]) /\ values[k] \in Values(path)
    BY <1>9, <1>12, <1>13, <2>1
  <2>3. Same(last, m, values) /\ last.at >= Len(path)
    BY <1>12, <1>13, <2>1, <2>2 DEF Same
  <2>4. Fits(pattern, path, values)
    BY <1>8, <2>2, <2>3 DEF MatchedWith
  <2>5. values \in [1 .. m -> Values(path)]
    BY <2>2
  <2>. QED
    BY <2>1, <2>4, <2>5
<1>14. ASSUME NEW values \in [1 .. m -> Values(path)], Fits(pattern, path, values)
       PROVE  match.ok
  <2>1. \A k \in 1 .. m : values[k] \in Seq(T) /\ Plain(values[k])
    BY ValuesPlain
  <2>2. values \in [1 .. m -> Seq(T)]
    BY <2>1
  <2>3. Same(last, m, values) /\ last.at >= Len(path)
    BY <1>8, <1>14, <2>1, <2>2 DEF MatchedWith
  <2>. QED
    BY <1>12, <2>3 DEF Same
<1>15. PICK names, params : names = c.names /\ params = PathParamsOf(pattern, path)
  OBVIOUS
<1>16. ASSUME NEW i \in 1 .. m, i = FirstOf(names, names[i])
       PROVE  params[names[i]] = match.captured[i]
  <2>1. Len(names) = m /\ names \in Seq(Seq(T))
    BY <1>4, <1>15 DEF Compiled, ScanStates
  <2>2. names[i] \in ToSet(names)
    <3>1. DOMAIN names = 1 .. m
      BY ONLY <2>1, LenProperties
    <3>. QED
      BY ONLY <3>1, i \in 1 .. m, Zenon DEF ToSet
  <2>3. params = [name \in ToSet(names) |-> match.captured[FirstOf(names, name)]]
    BY ONLY <1>3, <1>11, <1>15, Zenon DEF PathParamsOf
  <2>. QED
    BY ONLY <1>16, <2>2, <2>3
<1>17. ASSUME match.ok
       PROVE  \E values \in [1 .. m -> Values(path)] :
                 /\ Fits(pattern, path, values)
                 /\ \A i \in DOMAIN values :
                      i = FirstOf(names, names[i]) => params[names[i]] = values[i]
  <2>1. PICK values \in [1 .. m -> Values(path)] :
          values = match.captured /\ Fits(pattern, path, values)
    BY <1>13, <1>17
  <2>2. DOMAIN values = 1 .. m
    OBVIOUS
  <2>3. \A i \in DOMAIN values : i = FirstOf(names, names[i]) => params[names[i]] = values[i]
    BY ONLY <1>16, <2>1, <2>2, Zenon
  <2>. QED
    BY ONLY <2>1, <2>3, Zenon
<1>18. match.ok <=> \E values \in [1 .. m -> Values(path)] : Fits(pattern, path, values)
  BY ONLY <1>14, <1>17
<1>. QED
  BY ONLY <1>3, <1>10, <1>11, <1>15, <1>17, <1>18 DEF CapturesFill

\* Every path and every pattern that a handler is registered for: CapturesExact
\* of the run.
THEOREM PathsMatched == MessagesSpec => []CapturesExact
<1>1. question \in Questions \cup {NoQuestion} => CapturesExact
  <2>. SUFFICES ASSUME question \in Questions \cup {NoQuestion}, question.of = "path"
                PROVE  CapturesFill(question.pattern, question.path)
    BY DEF CapturesExact
  <2>1. question \in PathQuestions
    BY Kinds
  <2>2. PICK pattern, path : pattern = question.pattern /\ path = question.path
    OBVIOUS
  <2>3. pattern \in Seq(ToSet(pattern)) /\ path \in Seq(ToSet(path))
    BY <2>1, <2>2, PathQuestionsAssumption
  <2>4. PICK T : T = ToSet(pattern) \cup ToSet(path) \cup {Separator}
    OBVIOUS
  <2>5. ToSet(pattern) \subseteq T /\ ToSet(path) \subseteq T /\ Separator \in T
    BY ONLY <2>4
  <2>6. pattern \in Seq(T) /\ path \in Seq(T)
    BY ONLY <2>3, <2>5, SeqWidens
  <2>. QED
    BY ONLY <2>2, <2>5, <2>6, CapturesAsMeant
<1>. QED
  BY <1>1, Asked, PTL

\* Every list of parameters that the client is asked to send: QuerySurvives of
\* the run.
THEOREM ParametersSurvive == MessagesSpec => []QuerySurvives
<1>1. question \in Questions \cup {NoQuestion} => QuerySurvives
  <2>. SUFFICES ASSUME question \in Questions \cup {NoQuestion}, question.of = "params"
                PROVE  ParamsSurvive(question.params)
    BY DEF QuerySurvives
  <2>1. question \in ParamsQuestions
    BY Kinds
  <2>2. PICK params : params = question.params
    OBVIOUS
  <2>3. params \in Seq(Seq(Chars) \X Seq(Chars))
    BY <2>1, <2>2, ParamsQuestionsAssumption
  <2>. QED
    BY ONLY <2>2, <2>3, ParametersAsMeant
<1>. QED
  BY <1>1, Asked, PTL
=============================================================================
