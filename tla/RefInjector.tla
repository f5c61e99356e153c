----------------------------- MODULE RefInjector -----------------------------
(***************************************************************************)
(* refInjector: the http.ResponseWriter HTTPMiddleware hands to the        *)
(* application after a challenge, which puts the document.referrer shim    *)
(* into the first HTML page.  The application sets headers, announces a    *)
(* status, writes and flushes in the order it likes; next to what the      *)
(* injector sends (wire) the module keeps what the same calls would have   *)
(* sent without it (plain).                                                *)
(***************************************************************************)
EXTENDS Naturals, Sequences

CONSTANTS
  Code,        \* BOUND: status codes the application announces
  Chunk,       \* BOUND: chunks it writes, none empty
  HeadChunk,   \* those headInsertPoint finds an opening <head> tag in
  HTMLChunk,   \* those net/http takes for HTML when it has to find out
  MaxChunks    \* BOUND: chunks per response

OK == 200

ASSUME InjectorAssumption ==
  /\ Code \subseteq 200 .. 599 \ {204, 304}  \* they have a body
  /\ HeadChunk \cup HTMLChunk \subseteq Chunk
  /\ MaxChunks \in Nat

\* Header fields that matter: what Content-Type is, whether there is a
\* Content-Encoding and a Content-Length.
Headers == [type : {"html", "other", "unset"}, enc : BOOLEAN, len : BOOLEAN]

\* As they are sent: "sniffed" is a text/html that net/http found out.
SentHeaders == [type : {"html", "other", "unset", "sniffed"},
                enc : BOOLEAN, len : BOOLEAN]

\* A response: its status line and headers once they are announced (status 0:
\* they are not), whether they have left, the chunks of the body and where the
\* shim stands.
Response == [status : {0, OK} \cup Code, head : SentHeaders, out : BOOLEAN,
             body : Seq(Chunk), shims : SUBSET (1 .. MaxChunks)]

VARIABLES
  header,  \* the header map, shared by the application and the injector
  inj,     \* the injector: state 0 undecided, 1 inject, 2 pass through
  wire,    \* the response as sent
  plain,   \* the response without the injector
  odd,     \* what it did that the injector has no answer to, of OddCalls
  done     \* has the application returned

ivars == <<header, inj, wire, plain, odd, done>>

\* It flushed before it announced or wrote anything; it announced another
\* status while a 200 was held back.
OddCalls == {"flushed first", "overruled"}

NoHeaders == [type |-> "unset", enc |-> FALSE, len |-> FALSE]
Nothing == [status |-> 0, head |-> NoHeaders, out |-> FALSE, body |-> <<>>,
            shims |-> {}]

TypeOK ==
  /\ header \in Headers
  /\ inj \in [state : 0 .. 2, pending : BOOLEAN]
  /\ wire \in Response
  /\ plain \in Response
  /\ odd \subseteq OddCalls
  /\ done \in BOOLEAN
  /\ inj.pending /\ ~done /\ odd = {} => inj.state = 0 /\ wire.status = 0

Init ==
  /\ header = NoHeaders
  /\ inj = [state |-> 0, pending |-> FALSE]
  /\ wire = Nothing
  /\ plain = Nothing
  /\ odd = {}
  /\ done = FALSE

------------------------------------------------------------------------------
(* net/http's own ResponseWriter *)

\* The first status counts, with the headers of that moment.
Announce(r, code, head) ==
  IF r.status # 0 THEN r ELSE [r EXCEPT !.status = code, !.head = head]

\* The headers of a response whose first chunk is written: a type that is not
\* set is found out from the body, unless it is encoded.
Sniffed(head, chunk) ==
  IF head.type = "unset" /\ ~head.enc
  THEN [head EXCEPT !.type = IF chunk \in HTMLChunk THEN "sniffed" ELSE "other"]
  ELSE head

\* A write announces 200 if nothing was announced, and sends the headers if
\* they have not left.
Put(r, chunk, head, shim) ==
  LET announced == Announce(r, OK, head)
      at == Len(r.body) + 1
  IN  [announced EXCEPT !.head = IF r.out THEN @ ELSE Sniffed(@, chunk),
                        !.out = TRUE,
                        !.body = Append(@, chunk),
                        !.shims = IF shim THEN @ \cup {at} ELSE @]

\* A flush does so without a body to look at.
Send(r, head) == [Announce(r, OK, head) EXCEPT !.out = TRUE]

------------------------------------------------------------------------------
\* decide(): is this page to be changed.
Injects == header.type = "html" /\ ~header.enc

\* MUTANT of SentHead: Content-Length stays.
SentHeadUnchanged == header

\* The headers decide() sends.
SentHead == IF Injects THEN [header EXCEPT !.len = FALSE] ELSE header

SetHeaders(head) ==
  /\ ~done
  /\ header' = head
  /\ UNCHANGED <<inj, wire, plain, odd, done>>

Overruling(code) ==
  IF inj.pending /\ inj.state = 0 /\ code # OK THEN {"overruled"} ELSE {}

\* MUTANT of WriteHeader: a status other than 200 is held back, too.
WriteHeaderHoldsAll(code) ==
  /\ ~done
  /\ odd' = odd \cup Overruling(code)
  /\ plain' = Announce(plain, code, header)
  /\ IF inj.state = 0
     THEN inj' = [inj EXCEPT !.pending = TRUE] /\ wire' = wire
     ELSE wire' = Announce(wire, code, header) /\ inj' = inj
  /\ UNCHANGED <<header, done>>

\* WriteHeader: a 200 is held back until the first Write, other codes go
\* straight through and end the matter.
WriteHeader(code) ==
  /\ ~done
  /\ odd' = odd \cup Overruling(code)
  /\ plain' = Announce(plain, code, header)
  /\ \/ /\ inj.state # 0
        /\ wire' = Announce(wire, code, header)
        /\ inj' = inj
     \/ /\ inj.state = 0 /\ code # OK
        /\ wire' = Announce(wire, code, header)
        /\ inj' = [inj EXCEPT !.state = 2]
     \/ /\ inj.state = 0 /\ code = OK
        /\ wire' = wire
        /\ inj' = [inj EXCEPT !.pending = TRUE]
  /\ UNCHANGED <<header, done>>

\* Write: the first one decides; the first chunk of a page gets the shim if it
\* has a head, later chunks never.
Write(chunk) ==
  /\ ~done
  /\ Len(wire.body) < MaxChunks
  /\ plain' = Put(plain, chunk, header, FALSE)
  /\ LET injecting == IF inj.state = 0 THEN Injects ELSE inj.state = 1
         announced == IF inj.state = 0 THEN Announce(wire, OK, SentHead) ELSE wire
     IN  /\ wire' = Put(announced, chunk, header, injecting /\ chunk \in HeadChunk)
         /\ inj' = [state |-> 2, pending |-> FALSE]
         /\ header' = IF inj.state = 0 THEN SentHead ELSE header
  /\ UNCHANGED <<odd, done>>

FlushingFirst == IF plain.status = 0 THEN {"flushed first"} ELSE {}

\* MUTANT of Flush: a flush before the first chunk gives the shim up.
FlushGivesUp ==
  /\ ~done
  /\ odd' = odd \cup FlushingFirst
  /\ plain' = Send(plain, header)
  /\ wire' = Send(wire, header)
  /\ inj' = [state |-> 2, pending |-> FALSE]
  /\ UNCHANGED <<header, done>>

\* Flush: a status that is held back is decided on first; net/http announces
\* 200 when it is flushed without one.
Flush ==
  /\ ~done
  /\ odd' = odd \cup FlushingFirst
  /\ plain' = Send(plain, header)
  /\ IF inj.state = 0 /\ inj.pending
     THEN /\ wire' = Send(wire, SentHead)
          /\ inj' = [state |-> IF Injects THEN 1 ELSE 2, pending |-> FALSE]
          /\ header' = SentHead
     ELSE /\ wire' = Send(wire, header)
          /\ UNCHANGED <<inj, header>>
  /\ UNCHANGED done

\* The application returns: net/http announces 200 if nobody did, also when
\* the injector still holds one back.
Return ==
  /\ ~done
  /\ done' = TRUE
  /\ wire' = Announce(wire, OK, header)
  /\ plain' = Announce(plain, OK, header)
  /\ UNCHANGED <<header, inj, odd>>

Next == \/ \E head \in Headers : SetHeaders(head)
        \/ \E code \in Code : WriteHeader(code)
        \/ \E chunk \in Chunk : Write(chunk)
        \/ Flush
        \/ Return

Spec == Init /\ [][Next]_ivars

------------------------------------------------------------------------------
(* Properties *)

\* "Anything that is not a plain 200 HTML page passes through untouched", and
\* such a page is changed once, at the head: the visitor gets the status and
\* the body the application sent.  (A status that overrules a 200 that was held
\* back is sent, where net/http would have kept the first; and who flushes first
\* has sent other headers than those the injector decides by.)
SameResponse ==
  /\ wire.body = plain.body
  /\ done /\ wire.status # plain.status => "overruled" \in odd
  /\ wire.shims # {} => /\ wire.shims = {1}
                        /\ wire.status = OK
                        /\ \/ wire.head.type = "html" /\ ~wire.head.enc
                           \/ "flushed first" \in odd

\* The page sent as the first after a challenge is one the shim belongs in: a 200
\* the application says is HTML, not encoded, with the head in its first chunk.
HasPlace ==
  /\ wire.status = OK /\ wire.head.type = "html" /\ ~wire.head.enc
  /\ wire.body # <<>> /\ wire.body[1] \in HeadChunk

\* The first page after a challenge carries the shim if the application says it
\* is HTML and its first chunk has the head, however the application orders its
\* calls.  (After a flush that came first it may go missing; and a page of which
\* only net/http finds out that it is HTML has none.)
ShimWhenHTML == HasPlace => wire.shims # {} \/ "flushed first" \in odd

\* "The body is about to grow": a response that grew does not state the
\* length it had before, unless a flush had sent the length first.
LengthHonest ==
  wire.shims # {} /\ wire.head.len => "flushed first" \in odd
==============================================================================
