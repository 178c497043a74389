------------------------------- MODULE Codec -------------------------------
(***************************************************************************)
(* src/libballotclient/codec.c: the bytes of a bcl_request_t and of a      *)
(* bcl_response_t.  The method names the operation, the path the election, *)
(* a header the caller, and the body holds "key=value" lines.              *)
(*                                                                         *)
(* A field of a struct is a sequence of bytes no longer than its array     *)
(* less the NUL; an array with a count is a sequence.  The bytes are those *)
(* of module Htttp.                                                        *)
(***************************************************************************)
EXTENDS Htttp

CONSTANTS Size,                    \* [id, title, option, cert, time, hash, nonce, key, val |-> bytes with the NUL]
          BodyMax,                 \* CODEC_BODY_MAX
          CiphertextMax,           \* BB_CIPHERTEXT_MAX, in bytes
          MaxOptions, MaxVoters,   \* BB_MAX_OPTIONS, BB_MAX_VOTERS
          FrameMax                 \* HTTTP_MAX_FRAME

ASSUME CodecAssumption ==
    {BodyMax, CiphertextMax, MaxOptions, MaxVoters, FrameMax} \subseteq Nat

PathOps == {"OPEN", "CLOSE", "PUBLISH", "JOIN", "RESULTS", "ADMIN_RESULTS"}
BallotOps == {"CAST", "UPDATE"}
CheckOps == {"CHECK", "ADMIN_CHECK"}
ResultOps == {"RESULTS", "ADMIN_RESULTS"}
Ops == PathOps \cup BallotOps \cup CheckOps \cup {"CREATE", "ADMIN_NEXT_ID"}

States == {"DRAFT", "OPEN", "CLOSED", "PUBLISHED"}

(* The results with a wire name; BB_ERR_RETRY has none. *)
HttpStatus == [BB_OK |-> 200,
    BB_ERR_CONFIG_TITLE |-> 400, BB_ERR_CONFIG_OPTIONS |-> 400, BB_ERR_CONFIG_TIME |-> 400,
    BB_ERR_BAD_OPTION |-> 400, BB_ERR_DECRYPT |-> 400,
    BB_ERR_NOT_ELIGIBLE |-> 403, BB_ERR_CERT_INVALID |-> 403, BB_ERR_CERT_EXPIRED |-> 403,
    BB_ERR_NOT_FOUND |-> 404,
    BB_ERR_ILLEGAL_TRANSITION |-> 409, BB_ERR_NOT_OPEN |-> 409, BB_ERR_CLOSED |-> 409,
    BB_ERR_NOT_PUBLISHED |-> 409, BB_ERR_REPLAY |-> 409, BB_ERR_NOT_JOINED |-> 409,
    BB_ERR_CONFIG_ID_TAKEN |-> 409,
    BB_ERR_DB |-> 500, BB_ERR_NOT_IMPLEMENTED |-> 500]
ResultNames == DOMAIN HttpStatus

(* snprintf into a field of the given size. *)
cut(v, size) == SubSeq(v, 1, Min({Len(v), size - 1}))

(* The parts of s between the bytes b. *)
RECURSIVE split(_, _)
split(s, b) == LET c == scan(s, 1, Len(s) + 1, b) IN
               IF c > Len(s) THEN <<s>>
               ELSE <<SubSeq(s, 1, c - 1)>> \o split(SubSeq(s, c + 1, Len(s)), b)

(* atoi of a run of digits; anything else reads as zero here. *)
atoi(v) == Max({0} \cup parse_uint(v))

-----------------------------------------------------------------------------
(* Hex, for a ballot's payload: a byte is a number, its text two digits. *)
Nibbles == Digits \o <<"a", "b", "c", "d", "e", "f">>
nibble_of(b) == {n \in 0..15 : Nibbles[n + 1] = b \/ (b = "A" /\ n = 10)}

hex_encode(bytes) ==
    FlattenSeq([i \in 1..Len(bytes) |->
                  <<Nibbles[(bytes[i] \div 16) + 1], Nibbles[(bytes[i] % 16) + 1]>>])

hex_decode(hex) ==
    LET n == Len(hex) \div 2 IN
    IF \/ Len(hex) % 2 # 0 \/ n > CiphertextMax
       \/ \E i \in 1..Len(hex) : nibble_of(hex[i]) = {}
    THEN {}
    ELSE {[i \in 1..n |-> 16 * Max(nibble_of(hex[2*i - 1])) + Max(nibble_of(hex[2*i]))]}

-----------------------------------------------------------------------------
(* The body: lines written by body_append and read by body_for_each. *)

line(key, value) == [key |-> <<key>>, value |-> value]
repeated(key, values) == [i \in 1..Len(values) |-> line(key, values[i])]
text_of(lines) ==
    FlattenSeq([i \in 1..Len(lines) |-> lines[i].key \o <<"=">> \o lines[i].value \o <<"LF">>])

(* Mutant: a value may carry its own line break. *)
body_append_any(lines) == {b \in {text_of(lines)} : Len(b) < BodyMax}

(* All the appends of one body: refused when one value holds a line break, or
   when the text does not fit. *)
body_append(lines) ==
    {b \in {text_of(lines)} :
        /\ Len(b) < BodyMax
        /\ \A i \in 1..Len(lines) : {"CR", "LF"} \cap Range(lines[i].value) = {}}

(* The pairs body_for_each hands on: one CR before the line end is dropped, a
   line with no '=' or nothing before it is skipped, a long one is cut. *)
pair_of(l) ==
    LET bare == IF l # <<>> /\ Last(l) = "CR" THEN Front(l) ELSE l
        eq == scan(bare, 1, Len(bare) + 1, "=")
    IN IF eq = 1 \/ eq > Len(bare) THEN <<>>
       ELSE <<[key |-> cut(SubSeq(bare, 1, eq - 1), Size.key),
               value |-> cut(SubSeq(bare, eq + 1, Len(bare)), Size.val)]>>

RECURSIVE body_for_each(_)
body_for_each(body) ==
    LET nl == scan(body, 1, Len(body) + 1, "LF") IN
    IF body = <<>> THEN <<>>
    ELSE pair_of(SubSeq(body, 1, nl - 1)) \o body_for_each(SubSeq(body, nl + 1, Len(body)))

(* The values of a repeated key in order, and the last value of a single one. *)
values_of(pairs, key) ==
    LET mine == SelectSeq(pairs, LAMBDA p : p.key = <<key>>)
    IN [i \in 1..Len(mine) |-> mine[i].value]
last_of(pairs, key) ==
    LET vs == values_of(pairs, key) IN IF vs = <<>> THEN <<>> ELSE Last(vs)
(* An array filled from a repeated key: what comes after it is full is dropped. *)
array_of(pairs, key, size, max) ==
    LET vs == values_of(pairs, key)
    IN [i \in 1..Min({Len(vs), max}) |-> cut(vs[i], size)]

-----------------------------------------------------------------------------
(* Requests. *)

NoRequest == [op |-> "", cert |-> <<>>, id |-> <<>>, hash |-> <<>>, nonce |-> <<>>,
              payload |-> <<>>, title |-> <<>>, open_time |-> <<>>, close_time |-> <<>>,
              options |-> <<>>, eligible |-> <<>>]

optional(key, value) == IF value = <<>> THEN <<>> ELSE <<line(key, value)>>

request_lines(r) ==
    CASE r.op = "CREATE" ->
            optional("election_id", r.id)
            \o <<line("title", r.title), line("open_time", r.open_time),
                 line("close_time", r.close_time)>>
            \o repeated("option", r.options) \o repeated("eligible", r.eligible)
      [] r.op \in BallotOps ->
            <<line("nonce", r.nonce), line("payload", hex_encode(r.payload))>>
      [] r.op \in CheckOps -> <<line("hash", r.hash)>>
      [] OTHER -> <<>>

request_path(r) ==
    <<"/", "election">> \o
    CASE r.op = "CREATE" -> <<>>
      [] r.op = "ADMIN_NEXT_ID" -> <<"/", "next-id">>
      [] r.op \in PathOps -> <<"/">> \o r.id
      [] r.op \in BallotOps -> <<"/">> \o r.id \o <<"/", "ballot">>
      [] r.op \in CheckOps -> <<"/">> \o r.id \o <<"/", "check">>

bcl_encode_request(r) ==
    UNION {htttp_serialize_request([method |-> <<r.op>>, path |-> request_path(r),
                                    headers |-> hs, body |-> b], FrameMax)
           : b \in body_append(request_lines(r)),
             hs \in IF r.cert = <<>> THEN {<<>>}
                    ELSE htttp_header_set(<<>>, <<"Cert-Name">>, r.cert)}

(* sscanf "/election/%15[^/]": what follows the prefix up to the next slash. *)
path_election_id(path) ==
    LET slash == scan(path, 4, Len(path) + 1, "/") IN
    IF ~IsPrefix(<<"/", "election", "/">>, path) \/ slash <= 4 \/ Len(path) < 4 THEN {}
    ELSE {cut(SubSeq(path, 4, slash - 1), Size.id)}

(* The Cert-Name header, or nothing. *)
cert_of(h) == LET c == htttp_header_get(h.headers, <<"Cert-Name">>)
              IN IF c = {} THEN <<>> ELSE cut(CHOOSE v \in c : TRUE, Size.cert)

(* A body with several payload lines is out of scope: the last one is read. *)
bcl_decode_request(h) ==
    LET op == h.method[1]
        pairs == body_for_each(h.body)
        base == [NoRequest EXCEPT !.op = op, !.cert = cert_of(h)]
        at(id) == [base EXCEPT !.id = id]
        hash == cut(last_of(pairs, "hash"), Size.hash)
    IN CASE Len(h.method) # 1 \/ op \notin Ops -> {}
         [] op = "CREATE" ->
              {[base EXCEPT !.id = cut(last_of(pairs, "election_id"), Size.id),
                            !.title = cut(last_of(pairs, "title"), Size.title),
                            !.open_time = cut(last_of(pairs, "open_time"), Size.time),
                            !.close_time = cut(last_of(pairs, "close_time"), Size.time),
                            !.options = array_of(pairs, "option", Size.option, MaxOptions),
                            !.eligible = array_of(pairs, "eligible", Size.cert, MaxVoters)]}
         [] op = "ADMIN_NEXT_ID" -> {base}
         [] op \in PathOps -> {at(id) : id \in path_election_id(h.path)}
         [] op \in BallotOps ->
              {[at(id) EXCEPT !.nonce = cut(last_of(pairs, "nonce"), Size.nonce), !.payload = p] :
                  id \in path_election_id(h.path),
                  p \in IF values_of(pairs, "payload") = <<>> THEN {}
                        ELSE hex_decode(last_of(pairs, "payload"))}
         [] op \in CheckOps -> {[at(id) EXCEPT !.hash = hash] :
                                  id \in {i \in path_election_id(h.path) : hash # <<>>}}

-----------------------------------------------------------------------------
(* Responses.  A count is what the struct says, the arrays are what it holds:
   rows[1..hash_count] are the ballots a caller reads. *)

NoResponse == [status |-> "BB_OK", id |-> <<>>, title |-> <<>>, state |-> "DRAFT",
               open_time |-> <<>>, close_time |-> <<>>, prior |-> 0, prior_version |-> 0,
               options |-> <<>>, hash |-> <<>>, issued_at |-> <<>>,
               option_count |-> 0, tally |-> <<>>, names |-> <<>>,
               hash_count |-> 0, rows |-> <<>>,
               found |-> 0, found_option |-> 0, found_name |-> <<>>]

number(key, n) == line(key, decimal[n])
joined(ns) == FlattenSeq([i \in 1..Len(ns) |-> IF i = 1 THEN decimal[ns[1]]
                                               ELSE <<",">> \o decimal[ns[i]]])
row_text(r) == r.hash \o <<",">> \o joined(<<r.option, r.version, r.superseded>>)

response_lines(op, r) ==
    CASE op \in {"CREATE", "ADMIN_NEXT_ID"} -> optional("election_id", r.id)
      [] op \in {"OPEN", "CLOSE", "PUBLISH"} -> <<>>
      [] op = "JOIN" -> IF r.id = <<>> THEN <<>> ELSE
            <<line("election_id", r.id), line("title", r.title), line("state", <<r.state>>),
              line("open_time", r.open_time), line("close_time", r.close_time),
              number("has_prior_ballot", r.prior), number("prior_ballot_version", r.prior_version)>>
            \o repeated("option", r.options)
      [] op \in BallotOps -> IF r.hash = <<>> THEN <<>> ELSE
            <<line("hash", r.hash), line("issued_at", r.issued_at)>>
      [] op \in ResultOps ->
            <<line("election_id", r.id), line("title", r.title), number("tally_count", r.option_count)>>
            \o (IF r.option_count = 0 THEN <<>>
                ELSE <<line("tally", joined(r.tally))>> \o repeated("result_option", r.names))
            \o <<number("hash_count", r.hash_count)>>
            \o repeated("row", [i \in 1..r.hash_count |-> row_text(r.rows[i])])
      [] op \in CheckOps ->
            <<number("found", r.found)>>
            \o (IF r.found = 0 THEN <<>>
                ELSE <<number("found_option", r.found_option), line("found_option_name", r.found_name)>>)

bcl_encode_response(op, r) ==
    IF r.status \notin ResultNames THEN {}
    ELSE UNION {htttp_serialize_response([status |-> HttpStatus[r.status], headers |-> <<>>, body |-> b],
                                         FrameMax)
                : b \in body_append(<<line("status", <<r.status>>)>> \o response_lines(op, r))}

tally_of(v) == IF v = <<>> THEN <<>>
               ELSE LET ps == split(v, ",") IN [i \in 1..Min({Len(ps), MaxOptions}) |-> atoi(ps[i])]

(* sscanf "%64[^,],%d,%d,%d": all four, or no row. *)
row_of(v) ==
    LET ps == split(v, ",") IN
    IF Len(ps) < 4 \/ Len(ps[1]) \notin 1..(Size.hash - 1)
       \/ \E i \in 2..4 : parse_uint(ps[i]) = {}
    THEN <<>>
    ELSE <<[hash |-> ps[1], option |-> atoi(ps[2]), version |-> atoi(ps[3]), superseded |-> atoi(ps[4])]>>

(* Mutant: the array of rows is one entry short. *)
rows_of_short(pairs) ==
    LET vs == values_of(pairs, "row")
        all == FlattenSeq([i \in 1..Len(vs) |-> row_of(vs[i])])
    IN SubSeq(all, 1, Min({Len(all), MaxVoters - 1}))

rows_of(pairs) ==
    LET vs == values_of(pairs, "row")
        all == FlattenSeq([i \in 1..Len(vs) |-> row_of(vs[i])])
    IN SubSeq(all, 1, Min({Len(all), MaxVoters}))

(* The clamps at the end: no more ballots than rows came, and an option count
   past the array is replaced by the names that came. *)
clamp(r) ==
    [r EXCEPT !.hash_count = Min({r.hash_count, Len(r.rows)}),
              !.option_count = IF r.option_count > MaxOptions THEN Len(r.names) ELSE r.option_count]

last_in(pairs, key, names) ==
    LET good == SelectSeq(values_of(pairs, key), LAMBDA v : Len(v) = 1 /\ v[1] \in names)
    IN IF good = <<>> THEN {} ELSE {Last(good)[1]}

bcl_decode_response(h) ==
    LET pairs == body_for_each(h.body)
        text(key, size) == cut(last_of(pairs, key), size)
        int(key) == atoi(last_of(pairs, key))
    IN {clamp([status |-> st,
               id |-> text("election_id", Size.id), title |-> text("title", Size.title),
               state |-> IF last_in(pairs, "state", States) = {} THEN "DRAFT"
                         ELSE CHOOSE s \in last_in(pairs, "state", States) : TRUE,
               open_time |-> text("open_time", Size.time),
               close_time |-> text("close_time", Size.time),
               prior |-> int("has_prior_ballot"), prior_version |-> int("prior_ballot_version"),
               options |-> array_of(pairs, "option", Size.option, MaxOptions),
               hash |-> text("hash", Size.hash), issued_at |-> text("issued_at", Size.time),
               option_count |-> int("tally_count"), tally |-> tally_of(last_of(pairs, "tally")),
               names |-> array_of(pairs, "result_option", Size.option, MaxOptions),
               hash_count |-> int("hash_count"), rows |-> rows_of(pairs),
               found |-> int("found"), found_option |-> int("found_option"),
               found_name |-> text("found_option_name", Size.option)])
        : st \in last_in(pairs, "status", ResultNames)}
=============================================================================
