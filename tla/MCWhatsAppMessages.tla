------------------------ MODULE MCWhatsAppMessages ------------------------
(* A delivery holding one item more than is stored, one of its messages    *)
(* without a time, and the statuses of one sent message, a status of no    *)
(* rank among them.                                                        *)
EXTENDS WhatsAppMessages

CONSTANTS m1, m2, m3, o1

Message(m, t) == [kind |-> "message", id |-> m, sentAt |-> t]
Status(o, s)  == [kind |-> "status", wamid |-> o, status |-> s]

SmallDeliveries ==
  {<<Message(m1, 1), Message(m2, 0), Message(m3, 2)>>,
   <<Status(o1, "sent"), Status(o1, "warning")>>,
   <<Status(o1, "delivered")>>}

===========================================================================
