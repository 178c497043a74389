------------------------------ MODULE MC_Wire ------------------------------
(* Instances of module Wire.  Sizes are small so that a field one byte too
   long, a full array and an odd cut all happen. *)
EXTENDS WireProps

LoggedIn == <<"m">>

SmallSizes == [id |-> 4, title |-> 6, option |-> 4, cert |-> 3, time |-> 3, hash |-> 4,
               nonce |-> 4, key |-> 3, val |-> 12]

(* Texts with the separators of every layer in them. *)
Awkward == {<<>>, <<"a">>, <<"a", "=", "b">>, <<"a", "CR">>, <<"a", ":", "SP", ",">>,
            <<"a", "LF", "eligible", "=", "m">>, <<"/", "SP">>}
SmallIds == {<<>>, <<"e">>, <<"e", "f">>, <<"e", "SP">>, <<"LF">>}

PlainRequests ==
    {[NoRequest EXCEPT !.op = o, !.id = i, !.cert = c] :
        o \in PathOps, i \in SmallIds, c \in {<<>>, <<"v">>, <<"v", "SP">>, <<"CR">>}}
    \cup {[NoRequest EXCEPT !.op = o, !.id = i, !.cert = <<"v">>, !.nonce = n, !.payload = p] :
        o \in BallotOps, i \in SmallIds, n \in {<<"n">>, <<"n", "=">>}, p \in {<<>>, <<7>>, <<0, 255>>, <<1, 2, 3, 4, 5, 6>>}}
    \cup {[NoRequest EXCEPT !.op = "ADMIN_NEXT_ID"]}
    \cup {[NoRequest EXCEPT !.op = o, !.id = i, !.hash = h] :
        o \in CheckOps, i \in SmallIds, h \in {<<>>, <<"h">>, <<"h", "=", "h">>}}
    \cup {[NoRequest EXCEPT !.op = "CREATE", !.id = i, !.title = t, !.options = os, !.eligible = es,
                            !.close_time = <<"z">>] :
        i \in SmallIds, t \in Awkward, os \in {<<>>, <<<<"x">>, <<>>>>, <<<<"x", "=">>, <<"y">>>>},
        es \in {<<>>, <<<<"v">>>>, <<<<"v">>, <<"w">>>>}}

Row(h, o) == [hash |-> h, option |-> o, version |-> 1, superseded |-> 0]
SomeResponses ==
    {[NoResponse EXCEPT !.status = s] : s \in {"BB_ERR_DB", "BB_ERR_NOT_JOINED", "BB_ERR_RETRY"}}
    \cup {[NoResponse EXCEPT !.id = <<"e">>, !.title = t, !.state = st, !.options = os, !.prior = 1,
                             !.prior_version = 12, !.hash = <<"h">>, !.issued_at = <<"z">>] :
        t \in Awkward, st \in States, os \in {<<>>, <<<<"x">>, <<"y", "=">>>>}}
    \cup {[NoResponse EXCEPT !.id = <<"e">>, !.title = <<"t">>, !.option_count = Len(ns), !.names = ns,
                             !.tally = [i \in 1..Len(ns) |-> 9 + i], !.hash_count = Len(rs), !.rows = rs] :
        ns \in {<<>>, <<<<"x">>>>, <<<<"x">>, <<>>>>},
        rs \in {<<>>, <<Row(<<"h">>, 0)>>, <<Row(<<"h">>, 11), Row(<<"h", "i", "j">>, 2)>>}}
    \cup {[NoResponse EXCEPT !.found = f, !.found_option = 3, !.found_name = n] :
        f \in 0..1, n \in {<<"x">>, <<"=", "LF">>}}

(* Frames of another peer: two good ones with any one byte replaced or lost,
   and answers whose counts and rows disagree. *)
GoodRequest == <<"JOIN", "SP", "/", "e", "SP", VersionWord>> \o CRLF
               \o <<"K", ":", "SP", "v">> \o CRLF
               \o <<"Content-Length", ":", "SP", "2">> \o CRLF \o CRLF \o <<"a", "LF">>
GoodResponse == <<VersionWord, "SP", "4", "0", "9", "SP", "reason">> \o CRLF
               \o <<"Date", ":", "SP">> \o CRLF \o CRLF
Damaged(f) == {ReplaceAt(f, i, b) : i \in 1..Len(f), b \in {"SP", "CR", "LF", ":", "1", "Content-Length", "Date", "k", "HI"}}
              \cup {RemoveAt(f, i) : i \in 1..Len(f)}
              \cup {InsertAt(f, i, b) : i \in 1..Len(f), b \in {"SP", "CR", ":", "0"}}
Claiming ==
    UNION {htttp_serialize_response([status |-> 200, headers |-> <<>>,
              body |-> text_of(<<line("status", <<"BB_OK">>), number("tally_count", t),
                                 number("hash_count", h)>> \o repeated("row", rs))], FrameMax)
           : t \in {0, 2, 3, 9}, h \in {0, 1, 2, 3, 9},
             rs \in {<<>>, <<<<"h", ",", "1", ",", "1", ",", "0">>>>,
                     <<<<"h", ",", "1", ",", "1">>, <<"h", ",", "1", ",", "1", ",", "0">>>>,
                     <<<<"h", ",", "1", ",", "1", ",", "0">>, <<"i", ",", "1", ",", "1", ",", "0">>,
                       <<"j", ",", "1", ",", "1", ",", "0">>>>}}
SomeFrames == Damaged(GoodRequest) \cup Damaged(GoodResponse) \cup Claiming

SomeTables ==
    {[names |-> <<<<"n">>, <<"m">>>>, rows |-> rs] :
        rs \in {<<>>, <<<<<<"a">>, <<>>>>>>, <<<<<<"-">>, <<"-">>>>, <<<<>>, <<>>>>>>}}
    \cup {[names |-> <<<<"n">>>>, rows |-> rs] :
        rs \in {<<>>, <<<<<<"1">>>>, <<<<"2">>>>>>, <<<<<<>>>>>>, <<<<<<"1">>>>, <<<<>>>>, <<<<"-">>>>>>}}
SomeCaps == 0..40
SomeTexts == BoundedSeq({"a", "'"}, 4)
SomeClaims == [sub : {0, 7, 17}, name : {<<"v">>, <<"v", "7">>, <<"v", "SP">>}, iat : {1}, exp : {2, 30}]
SomeSecrets == {"k1", "k2"}
=============================================================================
