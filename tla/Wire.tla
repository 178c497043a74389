-------------------------------- MODULE Wire --------------------------------
(***************************************************************************)
(* What one side writes and what the other reads of it.  An exchange is a  *)
(* request encoded by a client, parsed and decoded by the daemon, answered *)
(* and decoded again; a lookup is a select's answer cut to the caller's    *)
(* buffer and read; a literal is quoted and read by the SQL parser; a token*)
(* is minted, possibly altered on the way, and verified.                   *)
(*                                                                         *)
(* The sets of inputs are constants: they hold what a caller of these      *)
(* functions can pass, the awkward texts included.                         *)
(***************************************************************************)
EXTENDS Text

CONSTANTS Requests, Responses,   \* bcl_request_t and bcl_response_t values
          Frames,                \* frames written by some other peer
          Tables,                \* [names, rows] of a select's answer
          Caps,                  \* sizes of the buffers an answer is read into
          Texts,                 \* texts to quote
          Claims, Secrets, Times, \* tokens
          Name                   \* the name this session logged in with

VARIABLES pc, msg, bytes, got

wvars == <<pc, msg, bytes, got>>

Nothing == [op |-> "none"]

WireInit == pc = "idle" /\ msg = Nothing /\ bytes = <<>> /\ got = {}

is_admin_op(op) == op \in {"CREATE", "ADMIN_NEXT_ID", "OPEN", "CLOSE", "PUBLISH",
                           "ADMIN_RESULTS", "ADMIN_CHECK"}
is_voter_op(op) == op \in {"JOIN", "CAST", "UPDATE", "RESULTS", "CHECK"}

(* bcl_send by way of send_via_session or send_via_ctl: a request that does not
   encode is not sent. *)
SendRequest(r) ==
    /\ pc = "idle"
    /\ msg' = r
    /\ \/ bcl_encode_request(r) = {} /\ pc' = "unsent" /\ UNCHANGED <<bytes, got>>
       \/ \E b \in bcl_encode_request(r) : pc' = "asked" /\ bytes' = b /\ UNCHANGED got

(* The request the handler of a channel passes on: only that channel's
   operations, and on a session under the name that logged in. *)
admitted(local, q) ==
    IF local THEN {x \in {q} : is_admin_op(x.op)}
    ELSE {[x EXCEPT !.cert = Name] : x \in {y \in {q} : is_voter_op(y.op)}}

(* handle_request on a session and handle_conn on the control socket: parse,
   decode, and refuse with 400 what either refuses or the channel is not for. *)
ReceiveRequest ==
    /\ pc = "asked"
    /\ LET decoded == UNION {bcl_decode_request(h) : h \in htttp_parse_request(bytes)}
       IN got' = UNION {admitted(is_admin_op(msg.op), q) : q \in decoded}
    /\ pc' = "heard"
    /\ UNCHANGED <<msg, bytes>>

(* The rest of handle_request, and handle_ctl_req: an answer that does not
   encode is not sent. *)
SendResponse(r) ==
    /\ pc = "heard" /\ got # {}
    /\ LET op == (CHOOSE q \in got : TRUE).op IN
       /\ msg' = [op |-> op, resp |-> r]
       /\ \/ bcl_encode_response(op, r) = {} /\ pc' = "silent" /\ bytes' = <<>>
          \/ \E b \in bcl_encode_response(op, r) : pc' = "answered" /\ bytes' = b
    /\ got' = {}

ReceiveResponse ==
    /\ pc = "answered"
    /\ got' = UNION {bcl_decode_response(h) : h \in htttp_parse_response(bytes)}
    /\ pc' = "told"
    /\ UNCHANGED <<msg, bytes>>

(* A frame of another peer: a request or a response, or neither. *)
Foreign(f) ==
    /\ pc = "idle"
    /\ bytes' = f
    /\ got' = htttp_parse_request(f) \cup htttp_parse_response(f)
    /\ pc' = "parsed" /\ msg' = Nothing

Lookup(t, cap) ==
    /\ pc = "idle"
    /\ msg' = [op |-> "lookup", table |-> t]
    /\ bytes' = db_wire_body(answer_text(t.names, t.rows), cap)
    /\ pc' = "looking" /\ got' = {}

ReadRows ==
    /\ pc = "looking"
    /\ got' = db_rows(bytes)
    /\ pc' = "looked"
    /\ UNCHANGED <<msg, bytes>>

Quote(s, cap) ==
    /\ pc = "idle"
    /\ msg' = [op |-> "quote", text |-> s, cap |-> cap]
    /\ bytes' = db_quote(s, cap)
    /\ got' = literal(bytes')
    /\ pc' = "quoted"

Mint(c, k) ==
    /\ pc = "idle"
    /\ \E t \in token_mint(c, k) : bytes' = t
    /\ msg' = [op |-> "token", claims |-> c, key |-> k, altered |-> FALSE]
    /\ pc' = "minted" /\ got' = {}

(* One byte of the claims changes, or is lost. *)
Alter(i, b) ==
    /\ pc = "minted" /\ ~msg.altered
    /\ i \in 1..Len(bytes.text)
    /\ bytes' = [bytes EXCEPT !.text = IF b = "none" THEN RemoveAt(@, i) ELSE ReplaceAt(@, i, b)]
    /\ bytes' # bytes
    /\ msg' = [msg EXCEPT !.altered = TRUE]
    /\ UNCHANGED <<pc, got>>

Verify(k, now) ==
    /\ pc = "minted"
    /\ got' = token_verify(bytes, k, now)
    /\ msg' = [msg EXCEPT !.op = "token"] @@ [under |-> k, at |-> now]
    /\ pc' = "verified" /\ UNCHANGED bytes

WireNext ==
    \/ \E r \in Requests : SendRequest(r)
    \/ ReceiveRequest
    \/ \E r \in Responses : SendResponse(r)
    \/ ReceiveResponse
    \/ \E f \in Frames : Foreign(f)
    \/ \E t \in Tables, cap \in Caps : Lookup(t, cap)
    \/ ReadRows
    \/ \E s \in Texts, cap \in Caps : Quote(s, cap)
    \/ \E c \in Claims, k \in Secrets : Mint(c, k)
    \/ \E i \in 1..TokenMax, b \in {"none", "7", "LF", "x"} : Alter(i, b)
    \/ \E k \in Secrets, now \in Times : Verify(k, now)

WireSpec == WireInit /\ [][WireNext]_wvars
=============================================================================
