------------------------------ MODULE Mailbox -------------------------------
(***************************************************************************)
(* What the notification queue promises for one message to one             *)
(* destination, whatever is removed, restarted, thrown away or raised      *)
(* again: it is asked for at most once, ever; once it is settled, sent or  *)
(* given up on, it stays that way; and once it is gone it does not come    *)
(* back.                                                                   *)
(***************************************************************************)
CONSTANT Messages

VARIABLE box

States == {"never", "queued", "sent", "failed", "gone"}

Init == box = [m \in Messages |-> "never"]

(* What may become of a message in one step. *)
Becomes(now, then) ==
  \/ then = now
  \/ now = "never"              /\ then = "queued"
  \/ now = "queued"             /\ then \in {"sent", "failed", "gone"}
  \/ now \in {"sent", "failed"} /\ then = "gone"

(* One message is asked for or settled; a destination or an old event takes *)
(* all its messages with it.                                                *)
Move ==
  /\ box' \in [Messages -> States]
  /\ \A m \in Messages : Becomes(box[m], box'[m])
  /\ \A m, n \in Messages :
       /\ box'[m] # box[m] /\ box'[n] # box[n] /\ m # n
       => box'[m] = "gone" /\ box'[n] = "gone"

Spec == Init /\ [][Move]_box
=============================================================================
