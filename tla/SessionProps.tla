---------------------------- MODULE SessionProps ----------------------------
(* What the handshake and the frames promise.                               *)
EXTENDS Session

\* The channel is what its two ends take it for.  A client that is up holds a
\* key that only a worker with the certified private key can decrypt, and a worker
\* that is up was given that key; no key outlives its session (session_connect,
\* session_accept, session_close).  What a side is handed are frames the other
\* sent, in order, each once, whatever was damaged (session_recv).  As long as no
\* length was changed into another one the reader accepts, a frame that is missing
\* did not fit the caller's buffer or was damaged, and a damaged frame costs no
\* other; after such a length undamaged frames may be lost.  A frame that was sent
\* is never too large to be received (session_send).
ChannelSound ==
  /\ at["client"] = "up" => files.vouched /\ files.cert = files.priv
  /\ (\A s \in Sides : at[s] = "up") => key["client"] = key["server"]
  /\ \A s \in Sides :
       /\ (key[s] # None) = (at[s] = "up")
       /\ \A i, j \in DOMAIN got[s] : i < j => got[s][i] < got[s][j]
       /\ \A i \in DOMAIN got[s] : \A n \in 1..got[s][i] :
            n \in lost[s] \/ \E j \in DOMAIN got[s] : got[s][j] = n
       /\ astray[s] = "never" =>
            /\ Cardinality({n \in lost[s] : \A cap \in Caps : sent[Other(s)][n] <= cap}) <= faults
            /\ at[s] = "up" /\ recv_dead[s] => Waiting(s) /\ Head(chan[s]).hurt = "over"

\* The handshake ends on both sides, whatever is damaged and whoever gives up
\* first, with one exception: a length changed into a larger one that the reader
\* accepts leaves both ends reading, because neither has a timeout.  It too ends
\* as soon as one of them is gone (session_connect, session_accept).
HandshakeEnds ==
  <>[](\/ \A s \in Sides : Ended(s)
       \/ \E s \in Sides : at[s] = "stuck" /\ Alive(Other(s)) /\ faults > 0)
=============================================================================
