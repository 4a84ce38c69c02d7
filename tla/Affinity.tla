------------------------------ MODULE Affinity ------------------------------
(***************************************************************************)
(* What HAP promises about access tokens, without the mechanism.  A token  *)
(* is valid at the backend that issued it, its home.  HAP pins it there    *)
(* before the client is given it; the pin can be lost, never moved, and is *)
(* not found again.  Until it is lost, a request takes the token home only,*)
(* unless the request is a login, which takes whatever token its client    *)
(* sends along to each backend it tries.                                   *)
(***************************************************************************)
CONSTANTS
    Backends,
    Tokens,
    None  \* "not issued", "not pinned"

VARIABLES
    home,   \* the backend that issued each token
    pin,    \* where HAP keeps each token
    lost,   \* tokens whose pin was given up, aged out or never written
    given,  \* tokens the clients have
    sent    \* the hops under way: a token, the backend it goes to, and how

affinityVars == <<home, pin, lost, given, sent>>

Init ==
    /\ home = [t \in Tokens |-> None]
    /\ pin = [t \in Tokens |-> None]
    /\ lost = {} /\ given = {} /\ sent = {}

\* A backend answers a login, whose hop ends, with a token that nobody issued
\* before.
Issue(t, b) ==
    /\ home[t] = None
    /\ home' = [home EXCEPT ![t] = b]
    /\ sent' \subseteq sent
    /\ UNCHANGED <<pin, lost, given>>

\* HAP reads the answer and pins the token to the backend it came from.
Pin(t) ==
    /\ home[t] # None /\ t \notin lost
    /\ pin' = [pin EXCEPT ![t] = home[t]]
    /\ UNCHANGED <<home, lost, given, sent>>

\* The answer reaches the client, its token pinned by then or lost.
Give(t) ==
    /\ home[t] # None
    /\ pin[t] # None \/ t \in lost
    /\ given' = given \cup {t}
    /\ UNCHANGED <<home, pin, lost, sent>>

\* An ordinary request takes a token a client has to a backend: home, or
\* anywhere once the pin is lost.
Send(t, b) ==
    /\ t \in given
    /\ b = home[t] \/ t \in lost
    /\ sent' = sent \cup {<<t, b, "request">>}
    /\ UNCHANGED <<home, pin, lost, given>>

\* A login takes the token its client has to the backend it tries now, home or
\* not; its hop to the one it tried before, if any, is over.
Carry(t, b) ==
    /\ t \in given
    /\ <<t, b, "login">> \in sent'
    /\ sent' \subseteq sent \cup {<<t, b, "login">>}
    /\ UNCHANGED <<home, pin, lost, given>>

\* Requests end.
Answer ==
    /\ sent' \subseteq sent
    /\ UNCHANGED <<home, pin, lost, given>>

\* Pins are lost: a logout, a drop, an unpin, a TTL, a write that failed.  It
\* may be the end of a request as well.
Lose(T) ==
    /\ pin' = [t \in Tokens |-> IF t \in T THEN None ELSE pin[t]]
    /\ lost' = lost \cup T
    /\ sent' \subseteq sent
    /\ UNCHANGED <<home, given>>

Next ==
    \/ Answer
    \/ \E t \in Tokens, b \in Backends : Issue(t, b) \/ Send(t, b) \/ Carry(t, b)
    \/ \E t \in Tokens : Pin(t) \/ Give(t)
    \/ \E T \in SUBSET Tokens : Lose(T)

Spec == Init /\ [][Next]_affinityVars
=============================================================================
