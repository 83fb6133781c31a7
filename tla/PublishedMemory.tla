--------------------------- MODULE PublishedMemory ---------------------------
(* What the project memory promises to those who publish in it, whichever of  *)
(* its two stores is the authority: published knowledge is only ever added    *)
(* to, and an entry whose author was told that it is published stays.  Until  *)
(* the author is told, an outsider who rewrites the Git reference by hand may *)
(* still undo the publication.                                                *)
VARIABLES
  log,     \* the shared entries a reader can find, each with its id
  told     \* ids of the entries whose authors got an answer

PublishedInit == log = {} /\ told = {}

Append(e) ==
  /\ \A f \in log: f.id # e.id
  /\ log' = log \cup {e}
  /\ UNCHANGED told

Tell(e) ==
  /\ e \in log
  /\ told' = told \cup {e.id}
  /\ UNCHANGED log

Undo(e) ==
  /\ e \in log /\ e.id \notin told
  /\ log' = log \ {e}
  /\ UNCHANGED told

PublishedNext ==
  \/ \E e \in log': Append(e)
  \/ \E e \in log: Tell(e) \/ Undo(e)

PublishedSpec == PublishedInit /\ [][PublishedNext]_<<log, told>>
=============================================================================
