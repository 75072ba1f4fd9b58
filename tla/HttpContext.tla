---------------------------- MODULE HttpContext -----------------------------
(* muduo/net/http/HttpContext.cc: the parser that keeps its state in the    *)
(* context of the connection between two segments of the stream.            *)
(*                                                                          *)
(* The stream is a sequence of tokens: a request line, a header, CR, LF, a  *)
(* byte of a body, each with the number of its request.  CR and LF are      *)
(* tokens of their own, so that a segment may end between them.  Every turn *)
(* of the loop in parseRequest is a step.                                   *)
EXTENDS Integers, Sequences, SequencesExt

CONSTANTS
    BodyLen         \* the length of the body of a POST

ASSUME BodyAssumption == BodyLen \in Nat

VARIABLES
    buffer,         \* inputBuffer_ of the connection
    state,          \* state_
    request,        \* httpRequest_
    parsing         \* "no", "loop" inside parseRequest, "failed" when it
                    \* returned false, "complete" when it left kGotAll

contextVars == <<state, request>>
parserVars == <<buffer, contextVars, parsing>>

CRLF == <<<<"cr", 0>>, <<"lf", 0>>>>

\* What request number k looks like on the wire.
Wire(k, kind) ==
    <<<<IF kind \in {"post", "badLine"} THEN kind ELSE "get", k>>>> \o CRLF
    \o <<<<CASE kind = "post" -> "length" [] kind = "badHeader" -> "noColon"
             [] OTHER -> "header", k>>>> \o CRLF
    \o CRLF
    \o (IF kind = "post" THEN [i \in 1..BodyLen |-> <<"body", k>>] ELSE <<>>)

(* path_, method_, whether content-length is in header_, and whose body is  *)
(* in body_.                                                                *)
NewRequest == [path |-> 0, method |-> "kInvalid", length |-> 0, body |-> <<>>]

\* Mutant: header_ is not swapped either.
Fresh_KeepsHeader(r) == [NewRequest EXCEPT !.body = r.body, !.length = r.length]

\* What reset() leaves of a request: swap exchanges every field but body_.
Fresh(r) == [NewRequest EXCEPT !.body = r.body]

-----------------------------------------------------------------------------
\* Mutant: the search stops one byte early.
FindCRLF_Late ==
    LET at == {i \in 1..(Len(buffer) - 2) : SubSeq(buffer, i, i + 1) = CRLF} IN
      IF at = {} THEN 0 ELSE CHOOSE i \in at : \A j \in at : i <= j

\* findCRLF: the position of the first CRLF of the buffer, 0 if there is none.
FindCRLF ==
    LET at == {i \in 1..(Len(buffer) - 1) : SubSeq(buffer, i, i + 1) = CRLF} IN
      IF at = {} THEN 0 ELSE CHOOSE i \in at : \A j \in at : i <= j

\* buffer->retrieve(2+crlf-buffer->peek()).
Retrieve == SubSeq(buffer, FindCRLF + 2, Len(buffer))

\* The loop ends and parseRequest returns ok.
Finish(ok, s, r) ==
    /\ parsing' = IF ~ok THEN "failed" ELSE IF s = "kGotAll" THEN "complete" ELSE "no"
    /\ state' = s
    /\ request' = r

GoOn(s, r) ==
    /\ state' = s
    /\ request' = r
    /\ UNCHANGED parsing

(* A malformed line stays in the buffer, and what it left in the request    *)
(* is overwritten by nothing but the same line again.                       *)
ParseRequestLine ==
    /\ parsing = "loop" /\ state = "kExpectRequestLine" /\ FindCRLF # 0
    /\ LET line == Head(buffer)
           method == CASE line[1] = "get" -> "kGet" [] line[1] = "post" -> "kPost"
                       [] OTHER -> "kInvalid"
       IN IF method # "kInvalid"
            THEN /\ GoOn("kExpectHeaders",
                         [request EXCEPT !.path = line[2], !.method = method])
                 /\ buffer' = Retrieve
            ELSE /\ Finish(FALSE, state, request)
                 /\ UNCHANGED buffer

\* A header line: addHeader, or a line without a colon, which is retrieved too.
ParseHeader ==
    /\ parsing = "loop" /\ state = "kExpectHeaders" /\ FindCRLF > 1
    /\ CASE Head(buffer)[1] = "length" -> GoOn(state, [request EXCEPT !.length = BodyLen])
         [] Head(buffer)[1] = "header" -> GoOn(state, request)
         [] OTHER -> Finish(FALSE, state, request)
    /\ buffer' = Retrieve

\* The empty line.
ParseBlank ==
    /\ parsing = "loop" /\ state = "kExpectHeaders" /\ FindCRLF = 1
    /\ IF request.method = "kPost" THEN GoOn("kExpectBody", request)
                                   ELSE Finish(TRUE, "kGotAll", request)
    /\ buffer' = Retrieve

\* No CRLF: the rest of the line comes with a later segment.
ParseIncomplete ==
    /\ parsing = "loop" /\ FindCRLF = 0
    /\ state \in {"kExpectRequestLine", "kExpectHeaders"}
    /\ Finish(TRUE, state, request)
    /\ UNCHANGED buffer

(* parseRequestBody: only a buffer that holds exactly the body is accepted. *)
(* With fewer bytes it reports a failure; with more it does nothing.        *)
ParseRequestBody ==
    /\ parsing = "loop" /\ state = "kExpectBody"
    /\ \/ /\ request.length < Len(buffer)
          /\ Finish(TRUE, state, request)
          /\ UNCHANGED buffer
       \/ /\ request.length = Len(buffer)
          /\ Finish(TRUE, "kGotAll", [request EXCEPT !.body = buffer])
          /\ buffer' = <<>>
       \/ /\ request.length > Len(buffer)
          /\ Finish(FALSE, state, request)
          /\ UNCHANGED buffer

ParseStep ==
    ParseRequestLine \/ ParseHeader \/ ParseBlank \/ ParseIncomplete \/ ParseRequestBody
=============================================================================
