----------------------------- MODULE OneShotGrant -----------------------------
(***************************************************************************)
(* What a grant promises.  A card is asked, and a human allows it or it is   *)
(* over.  An allowed card is committed once, to at most one call, and that   *)
(* call performs the action at most once.  A committed card is over only     *)
(* after the action, and a card that is over authorizes nothing more.        *)
(***************************************************************************)
EXTENDS Naturals

CONSTANTS Card, Call, NoCall

VARIABLES status,    \* per card
          holder,    \* the call a committed card was given to
          performed  \* times the action was performed under the card

Init == /\ status = [c \in Card |-> "absent"]
        /\ holder = [c \in Card |-> NoCall]
        /\ performed = [c \in Card |-> 0]

\* The step one card takes; the cards are independent of each other.
Move(c, from, to) ==
  /\ status[c] \in from /\ status'[c] = to
  /\ holder'[c] = holder[c] /\ performed'[c] = performed[c]

Ask(c)    == Move(c, {"absent"}, "asked")
Allow(c)  == Move(c, {"asked"}, "allowed")
Commit(c) == Move(c, {"allowed"}, "committed")
Refuse(c) == Move(c, {"asked", "allowed"}, "over")
Close(c)  == performed[c] = 1 /\ Move(c, {"committed"}, "over")

Give(c) == /\ status[c] = "committed" /\ holder[c] = NoCall
           /\ holder'[c] \in Call
           /\ status'[c] = status[c] /\ performed'[c] = performed[c]

Perform(c) == /\ status[c] = "committed" /\ holder[c] # NoCall
              /\ performed[c] = 0 /\ performed'[c] = 1
              /\ status'[c] = status[c] /\ holder'[c] = holder[c]

Rest(c) == /\ status'[c] = status[c] /\ holder'[c] = holder[c]
           /\ performed'[c] = performed[c]

Next == \A c \in Card :
          \/ Rest(c) \/ Ask(c) \/ Allow(c) \/ Commit(c) \/ Refuse(c)
          \/ Give(c) \/ Perform(c) \/ Close(c)

Spec == Init /\ [][Next]_<<status, holder, performed>>
==============================================================================
