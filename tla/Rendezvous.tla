----------------------------- MODULE Rendezvous -----------------------------
(***************************************************************************)
(* What the messages of a tag promise: a send and the receivers of its     *)
(* level meet in a round.  A level is in one round at a time.  A receiver  *)
(* joins the round the level is in and leaves it with its message, or      *)
(* without one when it is awakened or gets a signal.  A message is posted  *)
(* in the level's round, if there is none yet, and stays until the last    *)
(* member has left.  A level goes on to the next round only when nobody    *)
(* is left in the old one without a message.                               *)
(***************************************************************************)
EXTENDS Integers

CONSTANTS Thread, Level, MAX_EPOCH

VARIABLES
    current,    \* current[l]: the round that level l is in
    members,    \* members[i]: the receivers that take part in round i
    arriving,   \* receivers that have not joined a round yet
    past,       \* past[t]: messages whose sends had ended when t arrived
    posted,     \* rounds that hold a message
    sending,    \* rounds whose message's send has not ended
    got         \* receivers that were given the message of their round

vars == <<current, members, arriving, past, posted, sending, got>>

Round == Level \X (0 .. MAX_EPOCH)
Now(l) == <<l, current[l]>>

Init ==
    /\ current = [l \in Level |-> 0]
    /\ members = [i \in Round |-> {}]
    /\ arriving = {} /\ past = [t \in Thread |-> {}]
    /\ posted = {} /\ sending = {} /\ got = {}

Arrive(t) ==
    /\ t \notin arriving /\ \A i \in Round : t \notin members[i]
    /\ arriving' = arriving \cup {t}
    /\ past' = [past EXCEPT ![t] = posted \ sending]
    /\ UNCHANGED <<current, members, posted, sending, got>>

GiveUp(t) ==
    /\ t \in arriving
    /\ arriving' = arriving \ {t} /\ past' = [past EXCEPT ![t] = {}]
    /\ UNCHANGED <<current, members, posted, sending, got>>

(* Nobody joins a round whose message was sent before it arrived. *)
Join(t, l) ==
    /\ t \in arriving /\ Now(l) \notin past[t]
    /\ arriving' = arriving \ {t} /\ past' = [past EXCEPT ![t] = {}]
    /\ members' = [members EXCEPT ![Now(l)] = @ \cup {t}]
    /\ UNCHANGED <<current, posted, sending, got>>

NextRound(l) ==
    /\ Now(l) \in posted \/ members[Now(l)] = {}
    /\ current' = [current EXCEPT ![l] = @ + 1]
    /\ UNCHANGED <<members, arriving, past, posted, sending, got>>

Post(l) ==
    /\ Now(l) \notin posted
    /\ posted' = posted \cup {Now(l)} /\ sending' = sending \cup {Now(l)}
    /\ UNCHANGED <<current, members, arriving, past, got>>

Sent(i) ==
    /\ sending' = sending \ {i}
    /\ UNCHANGED <<current, members, arriving, past, posted, got>>

Take(t, i) ==
    /\ t \in members[i] /\ i \in posted
    /\ got' = got \cup {t}
    /\ UNCHANGED <<current, members, arriving, past, posted, sending>>

Leave(t, i) ==
    /\ t \in members[i]
    /\ members' = [members EXCEPT ![i] = @ \ {t}] /\ got' = got \ {t}
    /\ UNCHANGED <<current, arriving, past, posted, sending>>

(* The message of a round is over; another one may be posted. *)
Clear(i) ==
    /\ i \in posted \ sending /\ members[i] = {}
    /\ posted' = posted \ {i}
    /\ past' = [t \in Thread |-> past[t] \ {i}]
    /\ UNCHANGED <<current, members, arriving, sending, got>>

Next ==
    \/ \E i \in Round : Sent(i) \/ Clear(i)
    \/ \E t \in Thread : Arrive(t) \/ GiveUp(t) \/ \E l \in Level : Join(t, l)
    \/ \E t \in Thread, i \in Round : Take(t, i) \/ Leave(t, i)
    \/ \E l \in Level : NextRound(l) \/ Post(l)

Spec == Init /\ [][Next]_vars
=============================================================================
