------------------------------ MODULE Session ------------------------------
(* libtetrissh: the handshake that gives a client and a session worker one  *)
(* key, and the frames they exchange under it.                              *)
(*                                                                          *)
(* What a side has written and the other has not read is a sequence of      *)
(* items, each a length and a body.  An item may be damaged on the way.  A   *)
(* changed length may be one the reader refuses ("over"), or one it accepts  *)
(* and reads past the item ("long") or not to its end ("short"): the reader  *)
(* is then inside an item and takes its bytes for a length.  Nonces, keys    *)
(* and signatures are terms; a side only ever compares them.                 *)
EXTENDS Integers, Sequences, FiniteSets, TLC

CONSTANTS
  None,
  MaxFrame,     \* SESSION_MAX_FRAME, in bytes
  Sizes,        \* payload sizes a caller may send
  Caps,         \* buffer sizes a caller may receive into
  MaxSends,     \* bound: frames a side sends
  MaxFaults     \* bound: damaged items, unreadable files

VARIABLES
  at,           \* each side's place in the handshake, or "up", "failed", "closed";
                \* "stuck": in read_bytes for more bytes than the other will write
  key,          \* the session key each side holds
  recv_dead,    \* the receiving half is out of step for good
  astray,       \* "now" if a side reads inside Head(chan), "was" after that, or "never"
  chan,         \* items on their way to a side
  sent,         \* payload sizes each side has put on the wire, in order
  got,          \* numbers of the frames each side has been handed
  lost,         \* numbers of the frames each side has consumed without handing out
  files,        \* the worker's private key and certificate, and the CA's word on it
  faults

vars == <<at, key, recv_dead, astray, chan, sent, got, lost, files, faults>>

Sides == {"client", "server"}
Other(s) == IF s = "client" THEN "server" ELSE "client"
Alive(s) == at[s] \notin {"failed", "closed"}

Init ==
  /\ at = [s \in Sides |-> "start"] /\ key = [s \in Sides |-> None]
  /\ recv_dead = [s \in Sides |-> FALSE] /\ astray = [s \in Sides |-> "never"]
  /\ chan = [s \in Sides |-> <<>>]
  /\ sent = [s \in Sides |-> <<>>] /\ got = [s \in Sides |-> <<>>] /\ lost = [s \in Sides |-> {}]
  /\ files \in [priv : {"k1"}, cert : {"k1", "k2"}, vouched : BOOLEAN] /\ faults = 0

Fault == faults < MaxFaults /\ faults' = faults + 1
traffic == <<recv_dead, sent, got, lost>>
Ended(s) == at[s] \in {"up", "failed", "closed"}

-----------------------------------------------------------------------------
(* The byte stream *)

Item(type, body) == [type |-> type, body |-> body, hurt |-> "no"]

\* send_all to a peer that is gone may fail; what is written is not read.
send_all(s, item) == IF Alive(Other(s)) THEN Append(chan[Other(s)], item) ELSE chan[Other(s)]
MayFail(s) == ~Alive(Other(s))

\* read_bytes finds the next item, or the end of the stream.
Waiting(s) == chan[s] # <<>>

EndOfStream(s) == ~Alive(Other(s))

\* A length or a body changes on the way.
Damage(s) ==
  /\ Fault
  /\ \E i \in DOMAIN chan[s], h \in {"over", "long", "short", "body"} :
       chan[s][i].hurt = "no" /\ chan' = [chan EXCEPT ![s][i].hurt = h]
  /\ UNCHANGED <<at, key, astray, traffic, files>>

Fail(s) == at' = [at EXCEPT ![s] = "failed"] /\ key' = [key EXCEPT ![s] = None]

-----------------------------------------------------------------------------
(* The handshake *)

sign_message_pss(priv, nonce) == [by |-> priv, of |-> nonce]
verify_message_pss(cert, sig, nonce) == sig = [by |-> cert, of |-> nonce]
rsa_encrypt_block(pub, k) == [for |-> pub, key |-> k]
rsa_decrypt_block(priv, c) == IF c.for = priv THEN c.key ELSE None

\* What an item says to its reader: a damaged body is a different term.
Read(item) == IF item.hurt = "body" THEN [for |-> None, by |-> None] ELSE item.body

\* A read that asks for more than the other will write ends with the stream only.
Stuck(s) ==
  /\ at[s] = "stuck" /\ EndOfStream(s)
  /\ Fail(s) /\ UNCHANGED <<chan, astray, traffic, files, faults>>

\* session_connect sends its nonce.
ConnectNonce ==
  /\ at["client"] = "start"
  /\ \/ /\ at' = [at EXCEPT !["client"] = "sig"] /\ UNCHANGED key
        /\ chan' = [chan EXCEPT !["server"] = send_all("client", Item("nonce", "n"))]
     \/ MayFail("client") /\ Fail("client") /\ UNCHANGED chan
  /\ UNCHANGED <<astray, traffic, files, faults>>

\* The signed nonce; its length is checked against TSSH_MAX_SIG_LEN.  After another
\* length than was sent the next bytes are no length of a certificate: most are
\* refused, and one that is accepted may ask for more than comes.
ConnectSig ==
  /\ at["client"] = "sig"
  /\ \/ /\ Waiting("client") /\ Head(chan["client"]).hurt \in {"no", "body"}
        /\ at' = [at EXCEPT !["client"] = "cert"] /\ UNCHANGED key
     \/ /\ EndOfStream("client") \/ (Waiting("client") /\ Head(chan["client"]).hurt \notin {"no", "body"})
        /\ Fail("client")
     \/ /\ Waiting("client") /\ Head(chan["client"]).hurt \in {"long", "short"}
        /\ at' = [at EXCEPT !["client"] = "stuck"] /\ UNCHANGED key
  /\ UNCHANGED <<chan, astray, traffic, files, faults>>

\* The authority vouches for the certificate and its key signed this nonce.
cert_ok(sig, cert) ==
  cert.body.vouched /\ verify_message_pss(cert.body.key, Read(sig), "n")

\* Both are checked, a fresh key is sent, and the client is up.  A damaged
\* certificate is refused, unless what changed or was cut off lies outside its
\* PEM block (the bytes cut off are then taken for a frame's length).
ConnectKey ==
  /\ at["client"] = "cert"
  /\ \/ /\ Len(chan["client"]) > 1
        /\ LET sig == chan["client"][1]
               cert == chan["client"][2]
           IN /\ cert_ok(sig, cert) /\ cert.hurt \in {"no", "body", "short"}
              /\ at' = [at EXCEPT !["client"] = "up"] /\ key' = [key EXCEPT !["client"] = "fresh"]
              /\ chan' = [chan EXCEPT
                   !["client"] = IF cert.hurt = "short" THEN Tail(@) ELSE Tail(Tail(@)),
                   !["server"] = send_all("client", Item("key", rsa_encrypt_block(cert.body.key, "fresh")))]
              /\ astray' = [astray EXCEPT !["client"] = IF cert.hurt = "short" THEN "now" ELSE @]
     \/ /\ \/ EndOfStream("client")
           \/ /\ Len(chan["client"]) > 1
              /\ \/ chan["client"][2].hurt \in {"over", "body", "short"}
                 \/ chan["client"][2].hurt = "no" /\ ~cert_ok(chan["client"][1], chan["client"][2])
        /\ Fail("client") /\ UNCHANGED <<chan, astray>>
     \/ /\ Len(chan["client"]) > 1 /\ chan["client"][2].hurt = "long"
        /\ at' = [at EXCEPT !["client"] = "stuck"] /\ UNCHANGED <<key, chan, astray>>
  /\ UNCHANGED <<traffic, files, faults>>

\* session_accept reads the nonce, at most TSSH_MAX_NONCE_LEN bytes, and sends it
\* back signed.  A shorter one leaves bytes that are read as the key's length.
AcceptNonce ==
  /\ at["server"] = "start"
  /\ \/ /\ Waiting("server")
        /\ LET nonce == Head(chan["server"]) IN
           /\ nonce.hurt \in {"no", "body", "short"}
           /\ at' = [at EXCEPT !["server"] = "cert"] /\ UNCHANGED key
           /\ chan' = [chan EXCEPT !["server"] = IF nonce.hurt = "short" THEN @ ELSE Tail(@),
                !["client"] = send_all("server", Item("sig", sign_message_pss(files.priv,
                                  IF nonce.hurt = "no" THEN nonce.body ELSE "other")))]
           /\ astray' = [astray EXCEPT !["server"] = IF nonce.hurt = "short" THEN "now" ELSE @]
     \/ /\ EndOfStream("server") \/ (Waiting("server") /\ Head(chan["server"]).hurt = "over")
        /\ Fail("server") /\ UNCHANGED <<chan, astray>>
     \/ /\ Waiting("server") /\ Head(chan["server"]).hurt = "long"
        /\ at' = [at EXCEPT !["server"] = "stuck"] /\ UNCHANGED <<key, chan, astray>>
  /\ UNCHANGED <<traffic, files, faults>>

\* The certificate is read from its file for every connection, and sent.
AcceptCert ==
  /\ at["server"] = "cert"
  /\ \/ /\ at' = [at EXCEPT !["server"] = "key"] /\ UNCHANGED <<key, faults>>
        /\ chan' = [chan EXCEPT !["client"] = send_all("server",
                      Item("cert", [key |-> files.cert, vouched |-> files.vouched]))]
     \/ (Fault \/ (MayFail("server") /\ UNCHANGED faults)) /\ Fail("server") /\ UNCHANGED chan
  /\ UNCHANGED <<astray, traffic, files>>

keyOf(item) ==
  IF item.hurt # "no" \/ item.type # "key" THEN None ELSE rsa_decrypt_block(files.priv, item.body)

\* The session key, exactly one RSA block, decrypted with the private key.  The
\* bytes a short nonce left may be too few for a length.
AcceptKey ==
  /\ at["server"] = "key"
  /\ \/ /\ Waiting("server") /\ keyOf(Head(chan["server"])) # None
        /\ at' = [at EXCEPT !["server"] = "up"]
        /\ key' = [key EXCEPT !["server"] = keyOf(Head(chan["server"]))]
        /\ chan' = [chan EXCEPT !["server"] = Tail(@)]
     \/ /\ EndOfStream("server") \/ (Waiting("server") /\ keyOf(Head(chan["server"])) = None)
        /\ Fail("server") /\ UNCHANGED chan
     \/ /\ astray["server"] = "now"
        /\ at' = [at EXCEPT !["server"] = "stuck"] /\ UNCHANGED <<key, chan>>
  /\ UNCHANGED <<astray, traffic, files, faults>>

-----------------------------------------------------------------------------
(* Frames *)

\* Initialisation vector, padded blocks, authentication code.
session_encrypt(n) == 16 + 16 * (n \div 16 + 1) + 32

Fits(n) == n <= MaxFrame /\ session_encrypt(n) <= MaxFrame

\* A payload too large is refused before anything is written.
session_send(s) ==
  /\ at[s] = "up" /\ Len(sent[s]) < MaxSends
  /\ \E n \in Sizes :
       /\ Fits(n)
       /\ sent' = [sent EXCEPT ![s] = Append(@, n)]
       /\ chan' = [chan EXCEPT ![Other(s)] =
                     send_all(s, Item("frame", [key |-> key[s], no |-> Len(sent[s]) + 1, size |-> n]))]
  /\ UNCHANGED <<at, key, recv_dead, astray, got, lost, files, faults>>

\* The code over the frame matches under this side's key.
session_decrypt(s, f) == f.hurt = "no" /\ f.body.key = key[s]

\* Mutant: a frame that was handed out stays in the stream.
restKeeps(s) == chan[s]

rest(s) == Tail(chan[s])

oversize(f) == f.hurt = "over" \/ session_encrypt(f.body.size) > MaxFrame

InStep(s) == astray[s] # "now" /\ Head(chan[s]).hurt \notin {"long", "short"}

\* session_recv: handed out, consumed without being handed out, or out of step.
session_recv(s) ==
  /\ at[s] = "up" /\ ~recv_dead[s] /\ Waiting(s) /\ InStep(s)
  /\ LET f == Head(chan[s]) IN
     \E cap \in Caps :
       IF oversize(f)
       THEN recv_dead' = [recv_dead EXCEPT ![s] = TRUE] /\ UNCHANGED <<chan, got, lost>>
       ELSE /\ chan' = [chan EXCEPT ![s] = rest(s)] /\ UNCHANGED recv_dead
            /\ IF session_decrypt(s, f) /\ f.body.size <= cap
               THEN got' = [got EXCEPT ![s] = Append(@, f.body.no)] /\ UNCHANGED lost
               ELSE lost' = [lost EXCEPT ![s] = @ \cup {f.body.no}] /\ UNCHANGED got
  /\ UNCHANGED <<at, key, astray, sent, files, faults>>

\* The numbers of the frames among the next k items.
numbers(s, k) == {chan[s][i].body.no : i \in {j \in 1..k : chan[s][j].type = "frame"}}

\* session_recv with a length that is not the next frame's: the bytes it takes
\* authenticate nothing and k items are behind it.  Frames that have not come yet
\* it waits for.  It may end between two items or inside one, or what it takes for
\* a length is refused.
Misread(s) ==
  /\ at[s] = "up" /\ ~recv_dead[s] /\ Waiting(s) /\ ~InStep(s)
  /\ \/ \E k \in 0..Len(chan[s]), inside \in BOOLEAN :
          /\ inside => k < Len(chan[s])
          /\ astray[s] # "now" /\ Head(chan[s]).hurt = "short" => k = 0 /\ inside
          /\ astray[s] # "now" /\ Head(chan[s]).hurt = "long" => k > 0
          /\ k = 0 => inside
          /\ chan' = [chan EXCEPT ![s] = SubSeq(@, k + 1, Len(@))]
          /\ astray' = [astray EXCEPT ![s] = IF inside THEN "now" ELSE "was"]
          /\ lost' = [lost EXCEPT ![s] = @ \cup numbers(s, k)]
          /\ UNCHANGED recv_dead
     \/ /\ astray[s] = "now"
        /\ recv_dead' = [recv_dead EXCEPT ![s] = TRUE] /\ UNCHANGED <<chan, astray, lost>>
  /\ UNCHANGED <<at, key, sent, got, files, faults>>

\* The end of the stream, or a dead receiving half, ends the session; either
\* side may also end it.
session_close(s) ==
  /\ at[s] = "up"
  /\ at' = [at EXCEPT ![s] = "closed"] /\ key' = [key EXCEPT ![s] = None]
  /\ chan' = [chan EXCEPT ![s] = <<>>]
  /\ UNCHANGED <<astray, traffic, files, faults>>

Handshake(s) ==
  \/ s = "client" /\ (ConnectNonce \/ ConnectSig \/ ConnectKey)
  \/ s = "server" /\ (AcceptNonce \/ AcceptCert \/ AcceptKey)
  \/ Stuck(s)

Next ==
  \/ \E s \in Sides : \/ Damage(s) \/ session_send(s) \/ session_recv(s) \/ Misread(s)
                      \/ session_close(s) \/ Stuck(s)
  \/ ConnectNonce \/ ConnectSig \/ ConnectKey \/ AcceptNonce \/ AcceptCert \/ AcceptKey

Spec == Init /\ [][Next]_vars /\ \A s \in Sides : WF_vars(Handshake(s))
=============================================================================
