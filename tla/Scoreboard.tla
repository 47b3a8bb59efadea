----------------------------- MODULE Scoreboard -----------------------------
(***************************************************************************)
(* What rating each other promises, without rows, sessions or messages.  A *)
(* board holds who has given whom which score.  A request is to give a     *)
(* score or to take one's score back; it is carried out whole, in a single *)
(* step and on the scores of its own pair of users only, or not at all.    *)
(***************************************************************************)
CONSTANTS
  Users,
  Shown,     \* users who can be rated
  Scores, Clients

VARIABLES
  board,     \* the scores that are given
  asked      \* asked[c]: the request of client c that is not answered, if any

vars == <<board, asked>>

\* A request without a score takes the score back.
Request == [rater: Users, rated: Shown, score: {{}} \cup {{sc} : sc \in Scores}]

TypeOK ==
  /\ board \subseteq [rater: Users, rated: Shown, score: Scores]
  /\ asked \in [Clients -> {{}} \cup {{q} : q \in Request}]

Init == board = {} /\ asked = [c \in Clients |-> {}]

\* Nobody gives themselves a score.
Ask(c, q) ==
  /\ asked[c] = {}
  /\ q.score # {} => q.rater # q.rated
  /\ asked' = [asked EXCEPT ![c] = {q}]
  /\ UNCHANGED board

SamePair(x, y) == x.rater = y.rater /\ x.rated = y.rated

\* The score of the request takes the place of the one its pair had.
Grant(c) ==
  /\ \E q \in asked[c] :
       board' = {x \in board : ~SamePair(x, q)}
                  \cup {[rater |-> q.rater, rated |-> q.rated, score |-> sc] : sc \in q.score}
  /\ asked' = [asked EXCEPT ![c] = {}]

\* The request failed, had nothing to take back, or left its score to another.
Drop(c) ==
  /\ asked[c] # {}
  /\ asked' = [asked EXCEPT ![c] = {}]
  /\ UNCHANGED board

Next ==
  \E c \in Clients :
    (\E q \in Request : Ask(c, q)) \/ Grant(c) \/ Drop(c)

Spec == Init /\ [][Next]_vars

=============================================================================
