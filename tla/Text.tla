-------------------------------- MODULE Text --------------------------------
(***************************************************************************)
(* The other texts the parts exchange: the table SimpleDB prints for a     *)
(* select and what libtetrisdb reads of it (socket/rows.c), the literal    *)
(* db_quote writes into a statement (schema.c), and the token libtetrisauth*)
(* mints and verifies (lib/token.c).  Bytes are those of module Htttp; a   *)
(* tab is "TAB", a dash "-", a quote "'".                                  *)
(***************************************************************************)
EXTENDS Codec

CONSTANT LongMax,    \* LLONG_MAX
         TokenMax,   \* TOKEN_MAX_LEN
         NameMax     \* TOKEN_NAME_MAX

ASSUME TextAssumption == {LongMax, TokenMax, NameMax} \subseteq Nat

-----------------------------------------------------------------------------
(* A select's answer. *)

fields_text(fs, ended) ==
    FlattenSeq([i \in 1..Len(fs) |-> IF i < Len(fs) \/ ended THEN fs[i] \o <<"TAB">> ELSE fs[i]])

(* Query.execute: the names, the rule, a line a tuple, a blank line and the
   count; what the parser says before it is one line. *)
answer_text(names, rows) ==
    LET head == fields_text(names, TRUE)
        rule == [i \in 1..(Len(head) + 4 * Len(names)) |-> "-"]
        lines == [i \in 1..Len(rows) |-> fields_text(rows[i], FALSE) \o <<"LF">>]
    IN <<"Started", "LF">> \o head \o <<"LF">> \o rule \o <<"LF">> \o FlattenSeq(lines)
       \o <<"LF", "SP">> \o decimal[Len(rows)] \o <<"SP", "rows.">>

is_rule(l) == l # <<>> /\ Range(l) = {"-"}

(* The count in the line after the table: spaces, digits, " rows."  A count
   past an int is left out. *)
trailer(l) ==
    LET from == Min({i \in 1..Len(l) : l[i] # "SP"} \cup {Len(l) + 1})
        to == Min({i \in from..Len(l) : l[i] \notin Range(Digits)} \cup {Len(l) + 1})
    IN IF to = from \/ ~IsPrefix(<<"SP", "rows.">>, SubSeq(l, to, Len(l))) THEN {}
       ELSE digits_value(SubSeq(l, from, to - 1), LongMax)

(* Mutant: the table ends at the blank line, or where the body does. *)
db_rows_unchecked(body) ==
    LET lines == split(body, "LF")
        rule == Min({i \in 2..Len(lines) : is_rule(lines[i])} \cup {Len(lines)})
        blank == Min({i \in (rule + 1)..Len(lines) : lines[i] = <<>>} \cup {Len(lines) + 1})
    IN IF rule = Len(lines) THEN {}
       ELSE {[i \in 1..(blank - rule - 1) |-> split(lines[rule + i], "TAB")]}

(* db_row_count and db_row_fields over every row: the lines between the first
   rule that has a line above it and the blank line, if the line after that
   says there are as many.  No answer (-1) is {}. *)
db_rows(body) ==
    LET lines == split(body, "LF")
        rule == Min({i \in 2..Len(lines) : is_rule(lines[i])} \cup {Len(lines)})
        blank == Min({i \in (rule + 1)..(Len(lines) - 1) : lines[i] = <<>>} \cup {Len(lines)})
    IN IF blank = Len(lines) \/ trailer(lines[blank + 1]) # {blank - rule - 1} THEN {}
       ELSE {[i \in 1..(blank - rule - 1) |-> split(lines[rule + i], "TAB")]}

(* db_wire_response keeps what fits the caller's buffer and says nothing of the
   rest. *)
db_wire_body(text, cap) == cut(text, cap)

-----------------------------------------------------------------------------
(* A literal.  Each byte is taken only while it, doubled if it is a quote, and
   the closing quote fit. *)

quoted(b) == IF b = "'" THEN <<"'", "'">> ELSE <<b>>
doubled(src) == FlattenSeq([i \in 1..Len(src) |-> quoted(src[i])])

db_quote(src, cap) ==
    LET text(n) == <<"'">> \o doubled(SubSeq(src, 1, n))
        fits == {n \in 0..Len(src) : \A m \in 1..n : Len(text(m)) + 2 <= cap}
    IN IF cap < 3 THEN <<>> ELSE text(Max(fits)) \o <<"'">>

(* What the SQL reader makes of it: the text between the outer quotes.  Quotes
   inside must come in pairs, or the literal ends early; a pair stays a pair, so
   that o'brien is stored as o''brien (name.h says so).  The reader is the Zql
   library. *)
paired(body) ==
    \A i \in 1..Len(body) : \A j \in i..Len(body) :
        /\ \A k \in i..j : body[k] = "'"
        /\ i = 1 \/ body[i - 1] # "'"
        /\ j = Len(body) \/ body[j + 1] # "'"
        => (j - i + 1) % 2 = 0
literal(text) ==
    IF Len(text) < 2 \/ text[1] # "'" \/ Last(text) # "'" THEN {}
    ELSE {b \in {SubSeq(text, 2, Len(text) - 1)} : paired(b)}

-----------------------------------------------------------------------------
(* A token: four claims, each ended by a line feed, and a MAC over exactly
   those bytes.  The MAC is the pair of the key and what it covers. *)

is_name_ok(n) == Len(n) \in 1..NameMax /\ Range(n) \cap {"LF", "CR", "SP", "TAB", "HI", "'", "/", ":", "=", ","} = {}

claims_text(c) ==
    decimal[c.sub] \o <<"LF">> \o c.name \o <<"LF">> \o decimal[c.iat] \o <<"LF">>
    \o decimal[c.exp] \o <<"LF">>

token_mint(c, secret) ==
    {[text |-> claims_text(c), mac |-> [key |-> secret, over |-> claims_text(c)]] :
        x \in {n \in {c.name} : is_name_ok(n) /\ Len(claims_text(c)) + 64 < TokenMax}}

(* parse_pos_ll: as the digits of a header, but no leading zero. *)
parse_pos_ll(s) == IF Len(s) > 1 /\ s[1] = "0" THEN {} ELSE digits_value(s, LongMax)

token_verify(tok, secret, now) ==
    LET f == split(tok.text, "LF") IN
    IF \/ Len(tok.text) + 64 >= TokenMax
       \/ Len(f) # 5 \/ f[5] # <<>>
       \/ tok.mac # [key |-> secret, over |-> tok.text]
    THEN {}
    ELSE {c \in {[sub |-> s, name |-> f[2], iat |-> i, exp |-> e] :
                    s \in parse_pos_ll(f[1]), i \in parse_pos_ll(f[3]), e \in parse_pos_ll(f[4])}
          : is_name_ok(f[2]) /\ now < c.exp}
=============================================================================
