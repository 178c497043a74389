----------------------------- MODULE WireProps -----------------------------
(* The properties of the texts the parts exchange; see module Wire. *)
EXTENDS Wire

(* What a request needs to be understood: an election, a hash to check, and a
   payload whose digits fit one line of the body. *)
Complete(r) ==
    /\ r.op \notin {"CREATE", "ADMIN_NEXT_ID"} => r.id # <<>>
    /\ r.op \in CheckOps => r.hash # <<>>
    /\ 2 * Len(r.payload) < Size.val

(* RequestArrives: the daemon carries out exactly what the client put into a
   request, whatever separators the operator's or the voter's texts hold, or
   refuses it; a complete request is not refused; and on a session it does so
   for the name that logged in, whatever name the request carries.  An id with
   a slash is excluded (codec.c path_election_id reads it short). *)
RequestArrives ==
    pc = "heard" /\ "/" \notin Range(msg.id) =>
       /\ got \subseteq {IF is_admin_op(msg.op) THEN msg ELSE [msg EXCEPT !.cert = Name]}
       /\ Complete(msg) => got # {}

(* The fields of an answer that an operation's caller looks at. *)
View(op, r) ==
    CASE op \in {"CREATE", "ADMIN_NEXT_ID"} -> <<r.status, r.id>>
      [] op \in {"OPEN", "CLOSE", "PUBLISH"} -> <<r.status>>
      [] op = "JOIN" -> IF r.id = <<>> THEN <<r.status>>
                        ELSE <<r.status, r.id, r.title, r.state, r.open_time, r.close_time,
                               r.prior, r.prior_version, r.options>>
      [] op \in BallotOps -> IF r.hash = <<>> THEN <<r.status>> ELSE <<r.status, r.hash, r.issued_at>>
      [] op \in ResultOps -> <<r.status, r.id, r.title, r.option_count, r.tally, r.names,
                               SubSeq(r.rows, 1, r.hash_count)>>
      [] op \in CheckOps -> IF r.found = 0 THEN <<r.status, 0>>
                            ELSE <<r.status, r.found, r.found_option, r.found_name>>

(* AnswerArrives: an answer that was sent is decoded, and every field its
   operation's caller looks at holds what the daemon put there: the ballots of
   a result, its tally and its names among them.  Whatever counts some other
   answer claims, the ballots a caller reads are rows that came, and the options
   fit their array. *)
AnswerArrives ==
    /\ pc = "told" => /\ got # {}
                      /\ \A r \in got : View(msg.op, r) = View(msg.op, msg.resp)
    /\ pc = "parsed" => \A m \in got : "status" \in DOMAIN m =>
          \A r \in bcl_decode_response(m) :
             r.hash_count <= Len(r.rows) /\ Len(r.rows) <= MaxVoters /\ r.option_count <= MaxOptions

(* The parts of a message that writing it again must keep. *)
Kept(m) == [m EXCEPT !.headers = carried(m.headers, "status" \in DOMAIN m)]
Rewritten(m) ==
    IF "status" \in DOMAIN m THEN htttp_serialize_response(m, FrameMax)
    ELSE htttp_serialize_request(m, FrameMax)
Reread(m, b) == IF "status" \in DOMAIN m THEN htttp_parse_response(b) ELSE htttp_parse_request(b)

(* TextsExact: what each layer of text is read as, from what was written.
   A frame that parses means one message: if it can be written again at all,
   reading that gives the same method, path, body and headers
   (fuzz_htttp_request.c calls anything else two messages the parser cannot tell
   apart).
   Of a select's answer the rows read are the rows printed or none: an answer
   cut off by its buffer is never taken for a shorter table; a whole one is read,
   unless a row prints as a blank line.
   The SQL reader finds in a quoted text the text itself, each quote in it twice,
   or a beginning of the text when the buffer is short: never a broken literal,
   and never half of a doubled quote.  So a text without quotes is stored as it
   is, and one with quotes is not.
   A token verifies exactly when it is, byte for byte, one minted under that key
   and not yet expired, and yields the claims it was minted for. *)
TextsExact ==
    /\ pc = "parsed" => \A m \in got : \A b \in Rewritten(m) :
          LET again == Reread(m, b) IN again # {} /\ \A n \in again : Kept(n) = Kept(m)
    /\ pc = "looked" =>
          /\ got \subseteq {msg.table.rows}
          /\ (/\ bytes = answer_text(msg.table.names, msg.table.rows)
              /\ \A i \in 1..Len(msg.table.rows) : msg.table.rows[i] # <<<<>>>>) => got # {}
    /\ pc = "quoted" /\ msg.cap >= 3 =>
          /\ \E n \in 0..Len(msg.text) : got = {doubled(SubSeq(msg.text, 1, n))}
          /\ msg.cap >= 2 * Len(msg.text) + 3 => got = {doubled(msg.text)}
    /\ pc = "verified" =>
          got = {c \in {msg.claims} : ~msg.altered /\ msg.under = msg.key /\ msg.at < c.exp}
=============================================================================
