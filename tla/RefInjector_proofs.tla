-------------------------- MODULE RefInjector_proofs --------------------------
(***************************************************************************)
(* Proofs about RefInjector, for any status codes, any chunks and any      *)
(* number of them: the response stays the application's, the shim goes     *)
(* where it can work, and no stale length is sent.                         *)
(***************************************************************************)
EXTENDS RefInjector, TLAPS

\* The headers of a page, and of one that says nothing about its length.
Pages == {h \in SentHeaders : h.type = "html" /\ ~h.enc}
Growing == {h \in Pages : ~h.len}

\* Where the response stands, in each state of the injector:
\*  - a status that net/http would have sent and the injector did not is a 200
\*    it holds back, and then it is undecided;
\*  - it is undecided, or about to inject, only before the first chunk; if a
\*    status is out by then it is 200, and for an undecided one a flush sent it;
\*  - it has said it will inject only with the headers decide() sends.
Undecided ==
  /\ wire.status = 0 /\ plain.status # 0 =>
       inj.pending /\ inj.state = 0 /\ plain.status = OK
  /\ inj.pending => plain.status # 0
  /\ inj.state # 0 => wire.status # 0
  /\ inj.state # 2 => wire.body = <<>> /\ wire.status \in {0, OK}
  /\ inj.state = 0 /\ wire.status # 0 /\ ~done => "flushed first" \in odd
  /\ inj.state = 1 => \/ "flushed first" \in odd
                      \/ wire.head \in Growing

\* What the visitor has seen is what the application said, or the injector was
\* overruled; a page goes without a shim for one of the reasons decide() knows.
Sent ==
  /\ wire.body = plain.body
  /\ wire.status # 0 => plain.status # 0
  /\ wire.status # 0 /\ wire.status # plain.status => "overruled" \in odd
  /\ done => wire.status # 0
  /\ wire.shims \subseteq {1}
  /\ wire.shims # {} => /\ wire.body # <<>>
                        /\ wire.status = OK
                        /\ \/ "flushed first" \in odd
                           \/ wire.head \in Growing
  /\ wire.status = OK /\ wire.head \in Pages /\ inj.state = 2 =>
       \/ "flushed first" \in odd
       \/ wire.shims # {}
       \/ wire.body # <<>> /\ wire.body[1] \notin HeadChunk

IInv == TypeOK /\ Undecided /\ Sent

------------------------------------------------------------------------------
\* What announcing a status does to a response, field by field.
LEMMA AnnounceFields ==
  ASSUME NEW r \in Response, NEW code \in {OK} \cup Code, NEW head \in Headers
  PROVE  /\ Announce(r, code, head) \in Response
         /\ Announce(r, code, head).body = r.body
         /\ Announce(r, code, head).shims = r.shims
         /\ Announce(r, code, head).status # 0
         /\ r.status # 0 => Announce(r, code, head) = r
         /\ r.status = 0 => /\ Announce(r, code, head).status = code
                            /\ Announce(r, code, head).head = head
<1>1. CASE r.status # 0
  BY <1>1 DEF Announce
<1>2. CASE r.status = 0
  <2> DEFINE a == [r EXCEPT !.status = code, !.head = head]
  <2>1. code # 0
    BY InjectorAssumption DEF OK
  <2>2. /\ a \in Response /\ a.status = code /\ a.head = head
        /\ a.body = r.body /\ a.shims = r.shims
    BY DEF Response, Headers, SentHeaders
  <2>3. Announce(r, code, head) = a
    BY <1>2 DEF Announce
  <2> HIDE DEF a
  <2>4. QED
    BY <1>2, <2>1, <2>2, <2>3
<1>3. QED
  BY <1>1, <1>2 DEF Response

\* A flush announces 200, and sends the headers as they are.
LEMMA SendFields ==
  ASSUME NEW r \in Response, NEW head \in Headers
  PROVE  /\ Send(r, head) \in Response
         /\ Send(r, head).body = r.body
         /\ Send(r, head).shims = r.shims
         /\ Send(r, head).status = Announce(r, OK, head).status
         /\ Send(r, head).head = Announce(r, OK, head).head
         /\ Send(r, head).status # 0
         /\ r.status # 0 => /\ Send(r, head).status = r.status
                            /\ Send(r, head).head = r.head
         /\ r.status = 0 => /\ Send(r, head).status = OK
                            /\ Send(r, head).head = head
<1> DEFINE a == Announce(r, OK, head)
<1>1. /\ a \in Response /\ a.body = r.body /\ a.shims = r.shims /\ a.status # 0
      /\ r.status # 0 => a = r
      /\ r.status = 0 => a.status = OK /\ a.head = head
  BY AnnounceFields
<1> HIDE DEF a
<1>2. QED
  BY <1>1 DEF Send, Response, a

\* What net/http finds out makes no page of what was none for the injector.
LEMMA SniffedFields ==
  ASSUME NEW head \in SentHeaders, NEW chunk
  PROVE  /\ Sniffed(head, chunk) \in SentHeaders
         /\ Sniffed(head, chunk) \in Pages <=> head \in Pages
         /\ Sniffed(head, chunk) \in Growing <=> head \in Growing
BY DEF Sniffed, SentHeaders, Pages, Growing

\* What writing a chunk does to a response, field by field.
LEMMA PutFields ==
  ASSUME NEW r \in Response, NEW chunk \in Chunk, NEW head \in Headers,
         NEW shim \in BOOLEAN, Len(r.body) < MaxChunks
  PROVE  /\ Put(r, chunk, head, shim) \in Response
         /\ Put(r, chunk, head, shim).body = Append(r.body, chunk)
         /\ Put(r, chunk, head, shim).shims =
              r.shims \cup (IF shim THEN {Len(r.body) + 1} ELSE {})
         /\ Put(r, chunk, head, shim).status # 0
         /\ r.status # 0 =>
              /\ Put(r, chunk, head, shim).status = r.status
              /\ Put(r, chunk, head, shim).head \in Pages <=> r.head \in Pages
              /\ Put(r, chunk, head, shim).head \in Growing <=> r.head \in Growing
         /\ r.status = 0 => Put(r, chunk, head, shim).status = OK
<1> DEFINE announced == Announce(r, OK, head)
           sent == IF r.out THEN announced.head ELSE Sniffed(announced.head, chunk)
<1>1. /\ announced \in Response
      /\ announced.body = r.body /\ announced.shims = r.shims
      /\ announced.status # 0
      /\ r.status # 0 => announced = r
      /\ r.status = 0 => announced.status = OK
  BY AnnounceFields
<1>2. Len(r.body) + 1 \in 1 .. MaxChunks
  BY InjectorAssumption DEF Response
<1>3. Append(r.body, chunk) \in Seq(Chunk)
  BY DEF Response
<1>4. announced.head \in SentHeaders
  BY <1>1 DEF Response
<1> HIDE DEF announced
<1>5. /\ sent \in SentHeaders
      /\ sent \in Pages <=> announced.head \in Pages
      /\ sent \in Growing <=> announced.head \in Growing
  BY <1>4, SniffedFields
<1>6. Put(r, chunk, head, shim) =
        [announced EXCEPT !.head = sent, !.out = TRUE,
                          !.body = Append(announced.body, chunk),
                          !.shims = IF shim THEN announced.shims \cup {Len(r.body) + 1}
                                    ELSE announced.shims]
  BY DEF Put, announced
<1> HIDE DEF sent
<1> DEFINE p == Put(r, chunk, head, shim)
           shims == IF shim THEN announced.shims \cup {Len(r.body) + 1} ELSE announced.shims
<1>7. shims \in SUBSET (1 .. MaxChunks)
  BY <1>1, <1>2 DEF Response
<1>8. /\ p \in Response /\ p.head = sent /\ p.body = Append(announced.body, chunk)
      /\ p.shims = shims /\ p.status = announced.status
  BY <1>1, <1>3, <1>5, <1>6, <1>7 DEF Response
<1> HIDE DEF p
<1>9. p.shims = r.shims \cup (IF shim THEN {Len(r.body) + 1} ELSE {})
  BY <1>1, <1>8
<1>10. r.status # 0 => (p.head \in Pages <=> r.head \in Pages)
  BY <1>1, <1>5, <1>8
<1>11. r.status # 0 => (p.head \in Growing <=> r.head \in Growing)
  BY <1>1, <1>5, <1>8
<1>12. QED
  BY <1>1, <1>8, <1>9, <1>10, <1>11 DEF p

------------------------------------------------------------------------------
\* The three parts of the invariant hold when a response starts.
LEMMA InitIInv == Init => IInv
<1> SUFFICES ASSUME Init PROVE IInv
  OBVIOUS
<1>1. Nothing \in Response /\ NoHeaders \in Headers
  BY DEF Nothing, Response, NoHeaders, Headers, SentHeaders
<1>2. /\ Nothing.status = 0 /\ Nothing.body = <<>> /\ Nothing.shims = {}
      /\ inj \in [state : 0 .. 2, pending : BOOLEAN]
      /\ inj.state = 0 /\ inj.pending = FALSE
  BY DEF Nothing, Init
<1>3. TypeOK
  BY <1>1, <1>2 DEF Init, TypeOK
<1>4. Undecided
  BY <1>2 DEF Init, Undecided
<1>5. Sent
  BY <1>2 DEF Init, Sent, OK
<1>6. QED
  BY <1>3, <1>4, <1>5 DEF IInv

\* The headers decide() sends are headers, without a length if it injects, and
\* those of no page if it does not.
LEMMA SentHeadFields ==
  ASSUME header \in Headers
  PROVE  /\ SentHead \in Headers /\ SentHead \in SentHeaders
         /\ Injects \in BOOLEAN
         /\ Injects => SentHead \in Growing
         /\ ~Injects => SentHead \notin Pages
BY DEF SentHead, Injects, Headers, SentHeaders, Pages, Growing

\* The application sets headers.
LEMMA SetHeadersStep ==
  ASSUME IInv, NEW head \in Headers, SetHeaders(head)
  PROVE  IInv'
BY DEF SetHeaders, IInv, TypeOK, Undecided, Sent

\* WriteHeader keeps the invariant.
LEMMA WriteHeaderStep ==
  ASSUME IInv, NEW code \in Code, WriteHeader(code)
  PROVE  IInv'
<1> USE DEF IInv
<1>0. OK \in {OK} \cup Code /\ code \in {OK} \cup Code /\ code # 0
  BY InjectorAssumption
<1>1. /\ plain' \in Response
      /\ plain'.body = plain.body
      /\ plain'.status # 0
      /\ plain.status # 0 => plain' = plain
      /\ plain.status = 0 => plain'.status = code
  BY <1>0, AnnounceFields DEF WriteHeader, TypeOK
<1>2. odd \subseteq odd' /\ odd' \subseteq OddCalls
  BY DEF WriteHeader, Overruling, OddCalls, TypeOK
<1>3. header' = header /\ done' = done /\ ~done
  BY DEF WriteHeader
<1>4. CASE inj.state = 0 /\ code = OK
  <2>1. wire' = wire /\ inj' = [inj EXCEPT !.pending = TRUE]
    BY <1>4 DEF WriteHeader
  <2>2. /\ inj' \in [state : 0 .. 2, pending : BOOLEAN]
        /\ inj'.state = 0 /\ inj'.pending
    BY <1>4, <2>1 DEF TypeOK
  <2> QED
    BY <1>1, <1>2, <1>3, <1>4, <2>1, <2>2 DEF TypeOK, Undecided, Sent
<1>5. CASE inj.state # 0 \/ code # OK
  <2>1. wire' = Announce(wire, code, header)
    BY <1>5 DEF WriteHeader
  <2>2. /\ wire' \in Response
        /\ wire'.body = wire.body
        /\ wire'.shims = wire.shims
        /\ wire'.status # 0
        /\ wire.status # 0 => wire' = wire
        /\ wire.status = 0 => wire'.status = code
    BY <1>0, <2>1, AnnounceFields DEF TypeOK
  <2>3. /\ inj' \in [state : 0 .. 2, pending : BOOLEAN]
        /\ inj'.state = (IF inj.state = 0 THEN 2 ELSE inj.state)
        /\ inj'.pending = inj.pending
    BY <1>5 DEF WriteHeader, TypeOK
  <2>4. inj.state = 0 /\ inj.pending => "overruled" \in odd'
    BY <1>5 DEF WriteHeader, Overruling
  <2>5. wire.status # 0 \/ inj.state = 0
    BY DEF Undecided
  <2>6. TypeOK'
    BY <1>1, <1>2, <1>3, <2>2, <2>3, <2>4, <2>5, <1>5 DEF TypeOK, Undecided
  <2>7. Undecided'
    <3>1. wire'.status = 0 /\ plain'.status # 0 =>
            inj'.pending /\ inj'.state = 0 /\ plain'.status = OK
      BY <2>2
    <3>2. inj'.pending => plain'.status # 0
      BY <1>1
    <3>3. inj'.state # 0 => wire'.status # 0
      BY <2>2
    <3>4. inj'.state # 2 => wire'.body = <<>> /\ wire'.status \in {0, OK}
      BY <2>2, <2>3 DEF Undecided
    <3>5. ~(inj'.state = 0 /\ wire'.status # 0 /\ ~done')
      BY <2>3
    <3>6. inj'.state = 1 =>
            \/ "flushed first" \in odd'
            \/ wire'.head \in Growing
      <4>1. inj'.state = 1 => inj.state = 1 /\ wire' = wire
        BY <2>2, <2>3, <2>5
      <4> QED
        BY <4>1, <1>2 DEF Undecided
    <3> QED
      BY <3>1, <3>2, <3>3, <3>4, <3>5, <3>6 DEF Undecided
  <2>8. Sent'
    <3>1. CASE wire.status = 0
      <4>1. inj.state = 0 /\ wire'.status = code /\ code # OK
        BY <1>5, <2>2, <2>5, <3>1
      <4>2. wire.shims = {}
        BY <3>1 DEF Sent, OK
      <4>3. code # plain'.status => "overruled" \in odd'
        BY <1>1, <2>4, <3>1, <4>1 DEF Undecided
      <4> QED
        BY <1>1, <1>2, <1>3, <2>2, <4>1, <4>2, <4>3 DEF Sent
    <3>2. CASE wire.status # 0
      <4>1. wire' = wire /\ plain' = plain /\ done' = done
        BY <1>1, <1>3, <2>2, <3>2 DEF Sent
      <4>2. inj'.state = 2 => inj.state = 2 \/ "flushed first" \in odd
        BY <1>3, <2>3, <3>2 DEF Undecided
      <4> QED
        BY <1>2, <4>1, <4>2 DEF Sent
    <3> QED
      BY <3>1, <3>2
  <2> QED
    BY <2>6, <2>7, <2>8
<1> QED
  BY <1>4, <1>5

\* The first Write decides, the later ones only append.
LEMMA WriteStep ==
  ASSUME IInv, NEW chunk \in Chunk, Write(chunk)
  PROVE  IInv'
<1> USE DEF IInv
<1> DEFINE announced == IF inj.state = 0 THEN Announce(wire, OK, SentHead) ELSE wire
           shim == /\ IF inj.state = 0 THEN Injects ELSE inj.state = 1
                   /\ chunk \in HeadChunk
<1>1. /\ OK \in {OK} \cup Code /\ header \in Headers /\ FALSE \in BOOLEAN
      /\ wire \in Response /\ plain \in Response
  BY DEF TypeOK
<1>2. wire.body = plain.body /\ Len(wire.body) < MaxChunks /\ Len(plain.body) < MaxChunks
  BY DEF Sent, Write
<1>3. /\ plain' \in Response
      /\ plain'.body = Append(plain.body, chunk)
      /\ plain'.status # 0
      /\ plain.status # 0 => plain'.status = plain.status
      /\ plain.status = 0 => plain'.status = OK
  <2>1. plain' = Put(plain, chunk, header, FALSE)
    BY DEF Write
  <2>2. QED
    BY <1>1, <1>2, <2>1, PutFields
<1>4. /\ announced \in Response
      /\ announced.body = wire.body
      /\ announced.shims = wire.shims
      /\ announced.status # 0
      /\ wire.status # 0 => announced = wire
      /\ wire.status = 0 => /\ inj.state = 0
                            /\ announced.status = OK /\ announced.head = SentHead
  <2>1. CASE inj.state = 0
    BY <1>1, <2>1, SentHeadFields, AnnounceFields
  <2>2. CASE inj.state # 0
    BY <1>1, <2>2 DEF Undecided
  <2>3. QED
    BY <2>1, <2>2
<1>5. shim \in BOOLEAN
  BY <1>1, SentHeadFields
<1>6. wire' = Put(announced, chunk, header, shim)
  BY DEF Write
<1>7. shim => (inj.state = 1 \/ (inj.state = 0 /\ Injects))
  OBVIOUS
<1>8. inj.state # 2 /\ chunk \in HeadChunk /\ ~shim => inj.state = 0 /\ ~Injects
  BY DEF TypeOK
<1> HIDE DEF announced, shim
<1>9. /\ wire' \in Response
      /\ wire'.body = Append(wire.body, chunk)
      /\ wire'.shims = wire.shims \cup (IF shim THEN {Len(wire.body) + 1} ELSE {})
      /\ wire'.status = announced.status
      /\ wire'.head \in Pages <=> announced.head \in Pages
      /\ wire'.head \in Growing <=> announced.head \in Growing
  <2>1. Len(announced.body) < MaxChunks
    BY <1>2, <1>4
  <2>2. QED
    BY <1>1, <1>4, <1>5, <1>6, <2>1, PutFields
<1>10. /\ inj' \in [state : 0 .. 2, pending : BOOLEAN]
       /\ inj'.state = 2 /\ inj'.state # 0 /\ inj'.state # 1 /\ ~inj'.pending
       /\ header' \in Headers /\ done' = done /\ ~done /\ odd' = odd
  BY <1>1, SentHeadFields DEF Write
<1>11. TypeOK'
  BY <1>3, <1>9, <1>10 DEF TypeOK
<1>12. Undecided'
  <2>1. wire'.status # 0
    BY <1>4, <1>9
  <2>2. QED
    BY <2>1, <1>10 DEF Undecided
<1>13. wire'.status # plain'.status => "overruled" \in odd
  BY <1>3, <1>4, <1>9 DEF Sent, Undecided
<1>14. wire'.body # <<>> /\ wire'.body = plain'.body
  <2>1. wire.body \in Seq(Chunk)
    BY <1>1 DEF Response
  <2>2. QED
    BY <1>2, <1>3, <1>9, <2>1
\* A chunk that gets the shim is the first of a page.
<1>15. CASE shim
  <2>1. inj.state # 2 /\ (inj.state = 1 \/ Injects)
    BY <1>7, <1>15
  <2>2. wire.body = <<>> /\ Len(wire.body) + 1 = 1 /\ wire.status \in {0, OK}
    <3>1. wire.body = <<>> /\ wire.status \in {0, OK}
      BY <2>1 DEF Undecided
    <3>2. QED
      BY <3>1
  <2>3. wire.shims = {}
    BY <2>2 DEF Sent
  <2>4. wire'.shims = {1}
    BY <1>9, <1>15, <2>2, <2>3
  <2>5. wire'.status = OK
    BY <1>4, <1>9, <2>2
  <2>6. "flushed first" \in odd \/ wire'.head \in Growing
    <3>1. CASE wire.status = 0
      BY <1>1, <1>4, <1>7, <1>9, <1>15, <2>1, <3>1, SentHeadFields DEF Undecided
    <3>2. CASE wire.status # 0
      <4>1. wire'.head \in Growing <=> wire.head \in Growing
        BY <1>4, <1>9, <3>2
      <4>2. "flushed first" \in odd \/ wire.head \in Growing
        <5>1. inj.state = 0 \/ inj.state = 1
          BY <1>7, <1>15
        <5>2. QED
          BY <1>10, <3>2, <5>1 DEF Undecided
      <4>3. QED
        BY <4>1, <4>2
    <3>3. QED
      BY <3>1, <3>2
  <2>7. Sent'
    BY <1>3, <1>10, <1>13, <1>14, <2>4, <2>5, <2>6 DEF Sent
  <2>8. QED
    BY <1>11, <1>12, <2>7
\* One that does not get it follows another, or has no place for it.
<1>16. CASE ~shim
  <2>1. wire'.shims = wire.shims
    BY <1>9, <1>16
  <2>2. wire'.shims # {} => /\ wire'.status = wire.status
                            /\ wire'.head \in Growing <=> wire.head \in Growing
    <3>1. wire.shims # {} => wire.status = OK
      BY DEF Sent
    <3>2. OK # 0
      BY DEF OK
    <3>3. QED
      BY <1>4, <1>9, <2>1, <3>1, <3>2
  <2>3. wire'.shims # {} => /\ wire'.status = OK
                            /\ "flushed first" \in odd \/ wire'.head \in Growing
    BY <2>1, <2>2 DEF Sent
  <2>4. wire'.status = OK /\ wire'.head \in Pages =>
          \/ "flushed first" \in odd
          \/ wire'.shims # {}
          \/ wire'.body[1] \notin HeadChunk
    <3>1. CASE inj.state = 2
      <4>1. /\ wire'.status = wire.status
            /\ wire'.head \in Pages <=> wire.head \in Pages
        BY <1>4, <1>9, <3>1
      <4>2. wire.body \in Seq(Chunk)
        BY <1>1 DEF Response
      <4>3. wire.body # <<>> => wire'.body[1] = wire.body[1]
        BY <1>9, <4>2
      <4>4. QED
        BY <2>1, <3>1, <4>1, <4>3 DEF Sent
    <3>2. CASE inj.state # 2
      <4>1. wire.body \in Seq(Chunk) /\ wire.body = <<>>
        BY <1>1, <3>2 DEF Response, Undecided
      <4>2. wire'.body[1] = chunk
        BY <1>9, <4>1
      <4>3. chunk \in HeadChunk => inj.state = 0 /\ ~Injects
        BY <1>8, <1>16, <3>2
      <4>4. chunk \in HeadChunk /\ wire.status = 0 => wire'.head \notin Pages
        BY <1>1, <1>4, <1>9, <4>3, SentHeadFields
      <4>5. chunk \in HeadChunk /\ wire.status # 0 => "flushed first" \in odd
        BY <1>10, <4>3 DEF Undecided
      <4>6. QED
        BY <4>2, <4>4, <4>5
    <3>3. QED
      BY <3>1, <3>2
  <2>5. wire'.shims \subseteq {1}
    BY <2>1 DEF Sent
  <2>6. Sent'
    BY <1>3, <1>10, <1>13, <1>14, <2>3, <2>4, <2>5 DEF Sent
  <2>7. QED
    BY <1>11, <1>12, <2>6
<1>17. QED
  BY <1>15, <1>16

\* Flush keeps the invariant: it decides on a status that is held back.
LEMMA FlushStep ==
  ASSUME IInv, Flush
  PROVE  IInv'
<1> USE DEF IInv
<1>1. /\ OK \in {OK} \cup Code /\ OK # 0 /\ header \in Headers
      /\ wire \in Response /\ plain \in Response
  BY DEF TypeOK, OK
<1>2. /\ plain' \in Response
      /\ plain'.body = plain.body
      /\ plain'.status # 0
      /\ plain.status # 0 => plain'.status = plain.status
      /\ plain.status = 0 => plain'.status = OK
  BY <1>1, SendFields DEF Flush
<1>3. odd \subseteq odd' /\ odd' \subseteq OddCalls /\ ~done /\ done' = done
  BY DEF Flush, FlushingFirst, OddCalls, TypeOK
<1>4. plain.status = 0 => "flushed first" \in odd'
  BY DEF Flush, FlushingFirst
<1>5. CASE inj.state = 0 /\ inj.pending
  <2>1. /\ wire' = Send(wire, SentHead)
        /\ inj' = [state |-> IF Injects THEN 1 ELSE 2, pending |-> FALSE]
        /\ header' = SentHead
    BY <1>5 DEF Flush
  <2>2. /\ wire' \in Response
        /\ wire'.body = wire.body /\ wire'.shims = wire.shims
        /\ wire'.status # 0
        /\ wire.status # 0 => wire'.status = wire.status /\ wire'.head = wire.head
        /\ wire.status = 0 => wire'.status = OK /\ wire'.head = SentHead
    BY <1>1, <2>1, SentHeadFields, SendFields
  <2>3. /\ inj' \in [state : 0 .. 2, pending : BOOLEAN]
        /\ ~inj'.pending
        /\ Injects => inj'.state = 1 /\ inj'.state # 2
        /\ ~Injects => inj'.state = 2 /\ inj'.state # 1
        /\ inj'.state # 0
    BY <2>1
  <2>4. wire.body = <<>> /\ wire'.status = OK /\ wire.shims = {}
    <3>0. inj.state # 2
      BY <1>5
    <3>1. wire.body = <<>> /\ wire.status \in {0, OK}
      BY <3>0 DEF Undecided
    <3>2. QED
      BY <2>2, <3>1 DEF Sent
  <2>5. wire.status = 0 => plain'.status = OK
    BY <1>2, <1>5 DEF Undecided
  <2>6. wire.status # 0 => "flushed first" \in odd'
    BY <1>3, <1>5 DEF Undecided
  <2>7. \/ "flushed first" \in odd'
        \/ Injects /\ wire'.head \in Growing
        \/ ~Injects /\ wire'.head \notin Pages
    BY <1>1, <2>2, <2>6, SentHeadFields
  <2>8. TypeOK'
    BY <1>1, <1>2, <1>3, <2>1, <2>2, <2>3, SentHeadFields DEF TypeOK
  <2>9. Undecided'
    BY <1>2, <1>3, <2>2, <2>3, <2>4, <2>7 DEF Undecided
  <2>10. wire'.status # plain'.status => "overruled" \in odd'
    BY <1>2, <1>3, <2>2, <2>4, <2>5 DEF Sent
  <2>11. Sent'
    BY <1>2, <1>3, <2>2, <2>3, <2>4, <2>7, <2>10 DEF Sent
  <2>12. QED
    BY <2>8, <2>9, <2>11
<1>6. CASE ~(inj.state = 0 /\ inj.pending)
  <2>1. wire' = Send(wire, header) /\ inj' = inj /\ header' = header
    BY <1>6 DEF Flush
  <2>2. /\ wire' \in Response
        /\ wire'.body = wire.body /\ wire'.shims = wire.shims
        /\ wire'.status # 0
        /\ wire.status # 0 => wire'.status = wire.status /\ wire'.head = wire.head
        /\ wire.status = 0 => wire'.status = OK
    BY <1>1, <2>1, SendFields
  <2>3. wire.status = 0 => plain.status = 0
    BY <1>6 DEF Undecided
  <2>4. TypeOK'
    BY <1>1, <1>2, <1>3, <1>4, <1>6, <2>1, <2>2, <2>3 DEF TypeOK
  <2>5. CASE wire.status = 0
    <3>0. inj.state = 0
      BY <2>5 DEF Undecided
    <3>1a. inj.state # 2
      BY <3>0
    <3>1. /\ "flushed first" \in odd'
          /\ wire.shims = {} /\ wire.body = <<>>
          /\ plain'.status = OK /\ wire'.status = OK
      BY <1>1, <1>2, <1>4, <2>2, <2>3, <2>5, <3>1a DEF Undecided, Sent
    <3>2. Undecided'
      BY <1>2, <2>1, <2>2, <3>0, <3>1a, <3>1 DEF Undecided
    <3>3. Sent'
      BY <1>1, <1>2, <1>3, <2>1, <2>2, <3>1a, <3>1 DEF Sent
    <3>4. QED
      BY <2>4, <3>2, <3>3
  <2>6. CASE wire.status # 0
    <3>1. /\ wire'.status = wire.status /\ wire'.head = wire.head
          /\ wire'.body = wire.body /\ wire'.shims = wire.shims
          /\ plain'.status = plain.status /\ plain'.body = plain.body
      BY <1>2, <2>2, <2>6 DEF Sent
    <3>2. QED
      BY <1>3, <2>1, <2>4, <3>1 DEF Undecided, Sent
  <2>7. QED
    BY <2>5, <2>6
<1>7. QED
  BY <1>5, <1>6

\* Return keeps the invariant: net/http sends what is still held back.
LEMMA ReturnStep ==
  ASSUME IInv, Return
  PROVE  IInv'
<1> USE DEF IInv
<1>1. /\ OK \in {OK} \cup Code /\ OK # 0 /\ header \in Headers
      /\ wire \in Response /\ plain \in Response
  BY DEF TypeOK, OK
<1>2. /\ plain' \in Response /\ plain'.body = plain.body /\ plain'.status # 0
      /\ plain.status # 0 => plain' = plain
      /\ plain.status = 0 => plain'.status = OK
  BY <1>1, AnnounceFields DEF Return
<1>3. /\ wire' \in Response
      /\ wire'.body = wire.body /\ wire'.shims = wire.shims
      /\ wire'.status # 0
      /\ wire.status # 0 => wire' = wire
      /\ wire.status = 0 => wire'.status = OK
  BY <1>1, AnnounceFields DEF Return
<1>4. ~done /\ done' /\ UNCHANGED <<header, inj, odd>>
  BY DEF Return
<1>5. TypeOK'
  BY <1>2, <1>3, <1>4 DEF TypeOK, Return
<1>6. CASE wire.status = 0
  <2>1. plain'.status = OK /\ wire'.status = OK /\ wire.shims = {}
    BY <1>1, <1>2, <1>3, <1>6 DEF Undecided, Sent
  <2>2. inj.state = 0 /\ inj.state # 2 /\ inj.state # 1
    <3>1. inj.state = 0
      BY <1>6 DEF Undecided
    <3>2. QED
      BY <3>1
  <2>3. Undecided'
    BY <1>2, <1>3, <1>4, <2>1, <2>2 DEF Undecided
  <2>4. Sent'
    BY <1>1, <1>2, <1>3, <1>4, <2>1, <2>2 DEF Sent
  <2>5. QED
    BY <1>5, <2>3, <2>4
<1>7. CASE wire.status # 0
  <2>1. wire' = wire /\ plain' = plain
    BY <1>2, <1>3, <1>7 DEF Sent
  <2>2. QED
    BY <1>4, <1>5, <1>7, <2>1 DEF Undecided, Sent
<1>8. QED
  BY <1>6, <1>7

------------------------------------------------------------------------------
\* The invariant holds of every response.
THEOREM InjectorInvariant == Spec => []IInv
<1>1. IInv /\ [Next]_ivars => IInv'
  <2> SUFFICES ASSUME IInv, [Next]_ivars PROVE IInv'
    OBVIOUS
  <2>1. CASE UNCHANGED ivars
    BY <2>1 DEF ivars, IInv, TypeOK, Undecided, Sent
  <2>2. ASSUME NEW head \in Headers, SetHeaders(head) PROVE IInv'
    BY <2>2, SetHeadersStep
  <2>3. ASSUME NEW code \in Code, WriteHeader(code) PROVE IInv'
    BY <2>3, WriteHeaderStep
  <2>4. ASSUME NEW chunk \in Chunk, Write(chunk) PROVE IInv'
    BY <2>4, WriteStep
  <2>5. CASE Flush
    BY <2>5, FlushStep
  <2>6. CASE Return
    BY <2>6, ReturnStep
  <2>7. QED
    BY <2>1, <2>2, <2>3, <2>4, <2>5, <2>6 DEF Next
<1>2. QED
  BY <1>1, InitIInv, PTL DEF Spec

\* The state keeps its types, and a 200 is held back only while nothing is
\* sent.
THEOREM InjectorTypeCorrect == Spec => []TypeOK
<1>1. IInv => TypeOK
  BY DEF IInv
<1>2. QED
  BY <1>1, InjectorInvariant, PTL

\* The visitor gets the status and the body the application sent, and a page is
\* changed once, at its first chunk, and only if it is a 200 HTML page.
THEOREM SameResponseHolds == Spec => []SameResponse
<1>1. IInv => SameResponse
  BY DEF IInv, Sent, SameResponse, Growing, Pages
<1>2. QED
  BY <1>1, InjectorInvariant, PTL

\* A page the application declares as HTML and whose first chunk has the head
\* carries the shim, in whatever order the application calls.
THEOREM ShimWhenHTMLHolds == Spec => []ShimWhenHTML
<1>1. IInv => ShimWhenHTML
  <2> SUFFICES ASSUME IInv, HasPlace
               PROVE  wire.shims # {} \/ "flushed first" \in odd
    BY DEF ShimWhenHTML
  <2>1. wire.head \in Pages
    BY DEF IInv, TypeOK, Response, Pages, HasPlace
  <2>2. inj.state = 2
    BY DEF IInv, Undecided, HasPlace
  <2>3. QED
    BY <2>1, <2>2 DEF IInv, Sent, HasPlace
<1>2. QED
  BY <1>1, InjectorInvariant, PTL

\* A response the shim made longer states no length, unless a flush sent it
\* before.
THEOREM LengthHonestHolds == Spec => []LengthHonest
<1>1. IInv => LengthHonest
  BY DEF IInv, Sent, LengthHonest, Growing
<1>2. QED
  BY <1>1, InjectorInvariant, PTL
==============================================================================
