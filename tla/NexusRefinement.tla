-------------------------- MODULE NexusRefinement ---------------------------
(***************************************************************************)
(* The router implements EventRouting: the registries are read as sets of  *)
(* connections, and the list of sends still to be tried as the set of      *)
(* connections still to be served.                                         *)
(***************************************************************************)
EXTENDS Nexus

\* The channels of a slice of registrations.
Channels(regs) == {regs[k].chan : k \in 1 .. Len(regs)}

Owed ==
  {<<attempts[k].reg.chan, attempts[k].e>> :
     k \in {j \in 1 .. Len(attempts) : ~Echo(attempts[j])}}

Subscribed ==
  [c \in Chan |-> {t \in Topics : c \in Channels(messengerRegistry[t])}]

Peers == Channels(hubRegistry) \cup Channels(repeaterRegistry)

Routing == INSTANCE EventRouting WITH
  QueueCap <- IncomingCap, MailboxCap <- WriteCap,
  queue <- incomingChannel, owed <- Owed, subscribed <- Subscribed,
  peers <- Peers, mailbox <- writeChannel

\* The router does what EventRouting promises: whoever belongs to the audience
\* of an event at the moment it is taken from incomingChannel gets it, unless
\* their channel is full at their turn, and nobody else does, although the
\* sends are tried one by one while connections take events and others
\* register and deregister.
ImplementsRouting == Routing!Spec
=============================================================================
