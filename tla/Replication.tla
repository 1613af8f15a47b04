------------------------------ MODULE Replication ------------------------------
(***************************************************************************)
(* The active/passive pair of qtrader/core/state_replication.py: a primary *)
(* publishes snapshots and sends heartbeats, the standby takes over when   *)
(* it has heard nothing for failover_threshold_s.  The class has no        *)
(* transport, no heartbeat loop and no polling of its own: who calls it    *)
(* when, and the network between the nodes, which loses, duplicates,       *)
(* reorders and corrupts messages and delivers each within MaxDelay ticks  *)
(* or never, are the environment.  Times are ticks of one clock.           *)
(***************************************************************************)
EXTENDS Integers, FiniteSets

CONSTANTS
  Node,
  First,          \* the node configured as PRIMARY
  Threshold,      \* failover_threshold_s
  Interval,       \* heartbeat_interval_s
  MaxDelay,       \* a message is delivered within so many ticks or lost
  MayCrash,       \* the first primary may crash
  MaxTime, MaxSnapshots

ASSUME ReplicationAssumption ==
  /\ First \in Node
  /\ Threshold \in Nat /\ Interval \in Nat \ {0} /\ MaxDelay \in Nat
  /\ MayCrash \in BOOLEAN
  /\ MaxTime \in Nat \ {0} /\ MaxSnapshots \in Nat

Unheard == 0        \* _last_peer_heartbeat before the first heartbeat
NoSnapshot == 0
Snapshot == 1 .. MaxSnapshots       \* also their checksums
Garbled == 0                        \* a body that was damaged under way
GarbledSum == MaxSnapshots + 1      \* a checksum that was

VARIABLES
  now,        \* time.time()
  localRole,  \* state.local_role
  heard,      \* _last_peer_heartbeat
  beat,       \* when a node sent its last heartbeat
  accepted,   \* history: the bodies receive_state() has answered True to
  synced,     \* state.last_sync_checksum
  net,        \* messages under way
  genuine,    \* snapshots some primary has published
  crashed,
  missed      \* history: a heartbeat to a live node was lost or came too late

pairVars == <<now, localRole, heard, beat, accepted, synced, net, genuine, crashed, missed>>

Message == [kind : {"heartbeat"}, to : Node, sent : 1 .. MaxTime]
      \cup [kind : {"state"}, to : Node, sent : 1 .. MaxTime,
            body : Snapshot \cup {Garbled}, checksum : Snapshot \cup {GarbledSum}]

PairInit ==
  /\ now = 1
  /\ localRole = [n \in Node |-> IF n = First THEN "PRIMARY" ELSE "STANDBY"]
  /\ heard = [n \in Node |-> Unheard]
  /\ beat = [n \in Node |-> 1]
  /\ accepted = [n \in Node |-> {}]
  /\ synced = [n \in Node |-> NoSnapshot]
  /\ net = {}
  /\ genuine = {}
  /\ crashed = {} /\ missed = FALSE

Up(n) == n \notin crashed
Peers(n) == Node \ {n}

-----------------------------------------------------------------------------
(* Mutant: the checksum is the one of the snapshot before. *)
DigestPrevious(s) == s - 1

(* The first 16 digits of the SHA-256 tell bodies apart. *)
Digest(s) == s

(* publish_state() of a state that has changed since the last one; the      *)
(* caller gives body and checksum to the transport.                         *)
PublishState(n) ==
  /\ Up(n) /\ localRole[n] = "PRIMARY"
  /\ Cardinality(genuine) < MaxSnapshots
  /\ LET s == Cardinality(genuine) + 1
     IN /\ genuine' = genuine \cup {s}
        /\ net' = net \cup {[kind |-> "state", to |-> m, sent |-> now,
                             body |-> s, checksum |-> Digest(s)] : m \in Peers(n)}
  /\ UNCHANGED <<now, localRole, heard, beat, accepted, synced, crashed, missed>>

(* A heartbeat of a primary; send_heartbeat() itself only logs. *)
SendHeartbeat(n) ==
  /\ Up(n) /\ localRole[n] = "PRIMARY"
  /\ beat[n] # now
  /\ beat' = [beat EXCEPT ![n] = now]
  /\ net' = net \cup {[kind |-> "heartbeat", to |-> m, sent |-> now] : m \in Peers(n)}
  /\ UNCHANGED <<now, localRole, heard, accepted, synced, genuine, crashed, missed>>

(* Mutant: the checksum is not compared. *)
VerifiedNever(m) == m.checksum # NoSnapshot

(* What receive_state() accepts: the body matches its checksum. *)
Verified(m) == Digest(m.body) = m.checksum

(* Nothing of the body is kept, and no version is looked at.  A message may *)
(* be delivered again.                                                      *)
ReceiveState(n, m) ==
  /\ Up(n) /\ m \in net /\ m.to = n /\ m.kind = "state"
  /\ IF Verified(m)
     THEN /\ synced' = [synced EXCEPT ![n] = m.checksum]
          /\ accepted' = [accepted EXCEPT ![n] = @ \cup {m.body}]
          /\ heard' = [heard EXCEPT ![n] = now]
     ELSE UNCHANGED <<synced, accepted, heard>>
  /\ \/ net' = net \ {m}
     \/ net' = net
  /\ UNCHANGED <<now, localRole, beat, genuine, crashed, missed>>

ReceiveHeartbeat(n, m) ==
  /\ Up(n) /\ m \in net /\ m.to = n /\ m.kind = "heartbeat"
  /\ heard' = [heard EXCEPT ![n] = now]
  /\ net' = net \ {m}
  /\ UNCHANGED <<now, localRole, beat, accepted, synced, genuine, crashed, missed>>

(* Mutant: any gap between heartbeats counts. *)
SilentHasty(n) == heard[n] > Unheard /\ now - heard[n] > 0

(* check_failover_needed() *)
Silent(n) == heard[n] > Unheard /\ now - heard[n] > Threshold

FailoverNeeded(n) == localRole[n] # "PRIMARY" /\ Silent(n)

(* A caller that polls: execute_failover() tells the old primary nothing. *)
Failover(n) ==
  /\ Up(n) /\ FailoverNeeded(n)
  /\ localRole' = [localRole EXCEPT ![n] = "PRIMARY"]
  /\ heard' = [heard EXCEPT ![n] = now]
  /\ UNCHANGED <<now, beat, accepted, synced, net, genuine, crashed, missed>>

-----------------------------------------------------------------------------
(* The network and the clock. *)

IsHeartbeat(m) == m.kind = "heartbeat" /\ Up(m.to)

Lose(m) ==
  /\ m \in net
  /\ net' = net \ {m}
  /\ missed' = (missed \/ IsHeartbeat(m))
  /\ UNCHANGED <<now, localRole, heard, beat, accepted, synced, genuine, crashed>>

Corrupt(m) ==
  /\ m \in net /\ m.kind = "state"
  /\ \E damaged \in {[m EXCEPT !.body = Garbled], [m EXCEPT !.checksum = GarbledSum]} :
       net' = (net \ {m}) \cup {damaged}
  /\ UNCHANGED <<now, localRole, heard, beat, accepted, synced, genuine, crashed, missed>>

(* A live primary is never late with its heartbeat.                         *)
Punctual == \A n \in Node : Up(n) /\ localRole[n] = "PRIMARY" => now - beat[n] < Interval

(* The clock goes on; a message that is too old by then is lost.            *)
Tick ==
  /\ now < MaxTime
  /\ Punctual
  /\ now' = now + 1
  /\ net' = {m \in net : now < m.sent + MaxDelay}
  /\ missed' = (missed \/ \E m \in net \ net' : IsHeartbeat(m))
  /\ UNCHANGED <<localRole, heard, beat, accepted, synced, genuine, crashed>>

Crash(n) ==
  /\ MayCrash /\ n = First /\ Up(n)
  /\ crashed' = crashed \cup {n}
  /\ UNCHANGED <<now, localRole, heard, beat, accepted, synced, net, genuine, missed>>

-----------------------------------------------------------------------------
PairNext ==
  \/ \E n \in Node : \/ PublishState(n) \/ SendHeartbeat(n) \/ Failover(n) \/ Crash(n)
                     \/ \E m \in net : ReceiveState(n, m) \/ ReceiveHeartbeat(n, m)
  \/ \E m \in net : Lose(m) \/ Corrupt(m)
  \/ Tick

PairSpec == PairInit /\ [][PairNext]_pairVars

-----------------------------------------------------------------------------
(* Type invariant. *)
PairTypeOK ==
  /\ now \in 1 .. MaxTime
  /\ localRole \in [Node -> {"PRIMARY", "STANDBY"}]
  /\ heard \in [Node -> 0 .. now]
  /\ beat \in [Node -> 1 .. now]
  /\ accepted \in [Node -> SUBSET (Snapshot \cup {Garbled})]
  /\ synced \in [Node -> Snapshot \cup {NoSnapshot}]
  /\ net \subseteq Message
  /\ genuine \subseteq Snapshot
  /\ crashed \subseteq {First} /\ missed \in BOOLEAN

(* state_replication.py:48, "Checksum verification to prevent state         *)
(* corruption": whatever the network damages, repeats or delivers late, a   *)
(* body that receive_state() answers True to (state_replication.py:120-151) *)
(* is one a primary has published, and the checksum a node reports is that  *)
(* of such a body.                                                          *)
AcceptedGenuine ==
  \A n \in Node : /\ accepted[n] \subseteq genuine
                  /\ synced[n] # NoSnapshot => \E s \in accepted[n] : synced[n] = Digest(s)

(* As long as a live primary beats in time and its heartbeats arrive, no    *)
(* standby takes over beside it (state_replication.py:162-176).             *)
TakeoverOnlyAfterCrash ==
  ~missed => \A n \in Node : localRole[n] = "PRIMARY" /\ n # First => First \in crashed
================================================================================
