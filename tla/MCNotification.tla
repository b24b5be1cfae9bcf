--------------------------- MODULE MCNotification ---------------------------
(***************************************************************************)
(* Instances of Notification for TLC.                                      *)
(***************************************************************************)
EXTENDS Notification, TLC

Symmetry == Permutations(Procs) \cup Permutations(Admins)

Body(mm, email, url) == [mm |-> mm, email |-> email, url |-> url]
Triggered == [type |-> "triggered", user |-> TRUE]

\* A notification of the user and the end of the escalation.
OneOfEach == <<Triggered, [type |-> "exhausted", user |-> FALSE]>>

\* What the two sections of the settings page send, and a URL that is refused.
SectionBodies ==
    {Body(TRUE, Keep, "hook"), Body(Keep, FALSE, Keep), Body(Keep, Keep, "refused")}

\* A list may name a channel twice.
TwiceEmail == [email |-> "a", channels |-> <<"email", "email">>]
OldContacts == {None, TwiceEmail}
NewContacts == {[email |-> "b", channels |-> <<"mattermost">>]}
=============================================================================
