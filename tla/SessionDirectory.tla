-------------------------- MODULE SessionDirectory --------------------------
(***************************************************************************)
(* What the signaling server promises its clients, whatever sockets,       *)
(* timers and error paths do underneath: a code is either free or names    *)
(* one session, a session has exactly one host for as long as it lasts,    *)
(* viewers only ever sit beside a host, and a session ends as a whole when *)
(* its host goes.  SignalingServer.tla is shown to implement this.         *)
(***************************************************************************)
EXTENDS Naturals, FiniteSets

CONSTANTS Code,        \* session codes
          Member,      \* the peers that can take part
          MaxViewers   \* viewers per session; 0 is "no cap"

VARIABLES hosts,       \* code -> the set of hosts of its session
          viewers      \* code -> the viewers of its session

dirVars == <<hosts, viewers>>

Taken(m) == \E c \in Code : m \in hosts[c] \cup viewers[c]

DirInit == /\ hosts   = [c \in Code |-> {}]
           /\ viewers = [c \in Code |-> {}]

(***************************************************************************)
(* A host opens a session under a code that no live session uses.          *)
(***************************************************************************)
Open(c, m) ==
  /\ hosts[c] = {} /\ viewers[c] = {}
  /\ ~Taken(m)
  /\ hosts' = [hosts EXCEPT ![c] = {m}]
  /\ UNCHANGED viewers

(***************************************************************************)
(* A viewer takes a seat in a session that has a host.                     *)
(***************************************************************************)
Enter(c, m) ==
  /\ hosts[c] # {}
  /\ ~Taken(m)
  /\ MaxViewers > 0 => Cardinality(viewers[c]) < MaxViewers
  /\ viewers' = [viewers EXCEPT ![c] = @ \cup {m}]
  /\ UNCHANGED hosts

Leave(c, m) ==
  /\ m \in viewers[c]
  /\ viewers' = [viewers EXCEPT ![c] = @ \ {m}]
  /\ UNCHANGED hosts

(***************************************************************************)
(* The host goes, and everyone with it.                                    *)
(***************************************************************************)
End(c) ==
  /\ hosts[c] # {}
  /\ hosts'   = [hosts   EXCEPT ![c] = {}]
  /\ viewers' = [viewers EXCEPT ![c] = {}]

EndAll == /\ hosts'   = [c \in Code |-> {}]
          /\ viewers' = [c \in Code |-> {}]

DirNext ==
  \/ \E c \in Code, m \in Member : Open(c, m) \/ Enter(c, m) \/ Leave(c, m)
  \/ \E c \in Code : End(c)
  \/ EndAll

DirSpec == DirInit /\ [][DirNext]_dirVars
=============================================================================
