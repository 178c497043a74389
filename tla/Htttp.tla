------------------------------- MODULE Htttp -------------------------------
(***************************************************************************)
(* The message grammar of src/libhtttp/htttp.c: parsing one frame into a   *)
(* request or a response and writing one back.                             *)
(*                                                                         *)
(* A frame is a sequence of bytes.  A byte is a separator ("SP", "CR",     *)
(* "LF", ":", "=", "/", ","), a digit, or a letter; every fixed word of    *)
(* the protocol ("JOIN", "Content-Length", the version) counts as one      *)
(* letter, and the sizes of the fixed fields are constants, so that a      *)
(* field one byte too long is a short field here.  "HI" is a byte outside  *)
(* visible ASCII.                                                          *)
(*                                                                         *)
(* A parser or a serializer returns the set of its results: empty when it  *)
(* refuses, for every caller only compares the code with HTTTP_OK.         *)
(***************************************************************************)
EXTENDS Naturals, Sequences, SequencesExt, FiniteSetsExt

CONSTANTS MaxMethod, MaxPath,   \* sizes of the fixed fields, with the NUL
          MaxKey, MaxValue,
          MaxHeaders,           \* entries of the header array
          UintMax               \* the largest uint32_t

ASSUME SizesAssumption ==
    {MaxMethod, MaxPath, MaxKey, MaxValue, MaxHeaders, UintMax} \subseteq Nat

VersionWord == "HTTTP/1.0"
Digits == <<"0", "1", "2", "3", "4", "5", "6", "7", "8", "9">>
CRLF == <<"CR", "LF">>

(* ci_eq: header names match whatever their case. *)
lower(b) == CASE b = "Content-Length" -> "content-length"
              [] b = "Date" -> "date"
              [] b = "K" -> "k"
              [] OTHER -> b
ci_eq(s, t) == Len(s) = Len(t) /\ \A i \in 1..Len(s) : lower(s[i]) = lower(t[i])

(* The first position in from..to-1 that holds b, or to. *)
scan(buf, from, to, b) == Min({i \in from..(to - 1) : buf[i] = b} \cup {to})

(* The next line end: a bare line feed is none. *)
find_crlf(buf, from) ==
    {Min(I) : I \in {{i \in from..(Len(buf) - 1) : buf[i] = "CR" /\ buf[i + 1] = "LF"}}
                    \ {{}}}

(* The value of a run of digits, each checked against max before the multiply
   could wrap. *)
digits_value(s, max) ==
    LET digit(b) == CHOOSE d \in 0..9 : Digits[d + 1] = b
        step(acc, b) == {v * 10 + digit(b) :
                           v \in {w \in acc : b \in Range(Digits) /\ w <= (max - digit(b)) \div 10}}
    IN IF s = <<>> THEN {} ELSE FoldLeft(step, {0}, s)

parse_uint(s) == IF Len(s) > 32 THEN {} ELSE digits_value(s, UintMax)

decimal[n \in Nat] ==
    IF n < 10 THEN <<Digits[n + 1]>> ELSE Append(decimal[n \div 10], Digits[(n % 10) + 1])

htttp_header_get(headers, key) ==
    LET hits == {i \in 1..Len(headers) : ci_eq(headers[i].key, key)}
    IN {headers[Min(h)].value : h \in {hits} \ {{}}}

-----------------------------------------------------------------------------
(* Parsing. *)

(* The header lines from off up to the blank line: the pairs read so far and
   where the body starts. *)
RECURSIVE header_lines(_, _, _)
header_lines(buf, off, hs) ==
    UNION {LET colon == scan(buf, off, eol, ":") IN
           CASE eol = off -> {[headers |-> hs, body |-> off + 2]}
             [] eol # off /\ (colon = off \/ colon + 1 >= eol) -> {}
             [] OTHER ->
                IF \/ buf[colon + 1] # "SP"
                   \/ Len(hs) >= MaxHeaders
                   \/ colon - off >= MaxKey
                   \/ eol - colon - 2 >= MaxValue
                THEN {}
                ELSE header_lines(buf, eol + 2,
                        Append(hs, [key |-> SubSeq(buf, off, colon - 1),
                                    value |-> SubSeq(buf, colon + 2, eol - 1)]))
           : eol \in find_crlf(buf, off)}

(* The second half of parse_tail: with no Content-Length there may be nothing
   after the blank line, and with one exactly that many bytes. *)
body_of(headers, rest) ==
    LET declared == htttp_header_get(headers, <<"Content-Length">>)
        lengths == IF declared = {} THEN {0} ELSE UNION {parse_uint(v) : v \in declared}
    IN {rest : n \in lengths \cap {Len(rest)}}

parse_tail(buf, off) ==
    UNION {{[headers |-> t.headers, body |-> b] :
              b \in body_of(t.headers, SubSeq(buf, t.body, Len(buf)))}
           : t \in header_lines(buf, off, <<>>)}

htttp_parse_request(buf) ==
    UNION {LET sp1 == scan(buf, 1, eol, "SP")
               sp2 == scan(buf, sp1 + 1, eol, "SP")
           IN IF \/ sp1 = 1 \/ sp1 >= eol \/ sp1 - 1 >= MaxMethod
                 \/ sp2 = sp1 + 1 \/ sp2 >= eol \/ sp2 - sp1 - 1 >= MaxPath
                 \/ SubSeq(buf, sp2 + 1, eol - 1) # <<VersionWord>>
              THEN {}
              ELSE {[method |-> SubSeq(buf, 1, sp1 - 1), path |-> SubSeq(buf, sp1 + 1, sp2 - 1),
                     headers |-> t.headers, body |-> t.body] : t \in parse_tail(buf, eol + 2)}
           : eol \in find_crlf(buf, 1)}

htttp_parse_response(buf) ==
    UNION {LET sp1 == scan(buf, 3, eol, "SP")
           IN IF eol <= 2 \/ SubSeq(buf, 1, 2) # <<VersionWord, "SP">> \/ sp1 = 3 \/ sp1 >= eol
              THEN {}
              ELSE {[status |-> n, headers |-> t.headers, body |-> t.body] :
                      n \in parse_uint(SubSeq(buf, 3, sp1 - 1)) \cap (100..599),
                      t \in parse_tail(buf, eol + 2)}
           : eol \in find_crlf(buf, 1)}

-----------------------------------------------------------------------------
(* Writing. *)

valid_field(s, allow_space) ==
    \A i \in 1..Len(s) : s[i] \notin {"CR", "LF", "HI"} /\ (s[i] = "SP" => allow_space)

emit_header(h) == h.key \o <<":", "SP">> \o h.value \o CRLF

(* What emit_headers leaves for the library to regenerate. *)
regenerated(h, skip_date) == \/ ci_eq(h.key, <<"Content-Length">>)
                             \/ skip_date /\ ci_eq(h.key, <<"Date">>)

carried(headers, skip_date) ==
    LET keep(h) == ~regenerated(h, skip_date) IN SelectSeq(headers, keep)

headers_ok(headers, skip_date) ==
    /\ Len(headers) <= MaxHeaders
    /\ \A h \in Range(carried(headers, skip_date)) :
          h.key # <<>> /\ valid_field(h.key, FALSE) /\ valid_field(h.value, TRUE)

emit_headers(headers, skip_date) ==
    LET kept == carried(headers, skip_date)
    IN FlattenSeq([i \in 1..Len(kept) |-> emit_header(kept[i])])

emit_body(body) ==
    (IF body = <<>> THEN <<>>
     ELSE emit_header([key |-> <<"Content-Length">>, value |-> decimal[Len(body)]]))
    \o CRLF \o body

(* buf_append refuses what does not fit, so a message that is written whole is
   one that fits the caller's buffer. *)
within(bytes, cap) == {b \in {bytes} : Len(b) <= cap}

htttp_serialize_request(req, cap) ==
    IF \/ req.method = <<>> \/ req.path = <<>>
       \/ ~valid_field(req.method, FALSE) \/ ~valid_field(req.path, FALSE)
       \/ ~headers_ok(req.headers, FALSE)
    THEN {}
    ELSE within(req.method \o <<"SP">> \o req.path \o <<"SP", VersionWord>> \o CRLF
                \o emit_headers(req.headers, FALSE) \o emit_body(req.body), cap)

htttp_reason == {200, 201, 400, 401, 403, 404, 409, 413, 429, 500, 501}

htttp_serialize_response(res, cap) ==
    IF res.status \notin htttp_reason \/ ~headers_ok(res.headers, TRUE)
    THEN {}
    ELSE within(<<VersionWord, "SP">> \o decimal[res.status] \o <<"SP", "reason">> \o CRLF
                \o emit_header([key |-> <<"Date">>, value |-> <<"now">>])
                \o emit_headers(res.headers, TRUE) \o emit_body(res.body), cap)

htttp_header_set(headers, key, value) ==
    IF \/ key = <<>> \/ ~valid_field(key, FALSE) \/ ~valid_field(value, TRUE)
       \/ Len(headers) >= MaxHeaders \/ Len(key) >= MaxKey \/ Len(value) >= MaxValue
    THEN {}
    ELSE {Append(headers, [key |-> key, value |-> value])}
=============================================================================
