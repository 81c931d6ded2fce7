----------------------------- MODULE Discovery -----------------------------
(***************************************************************************)
(* Visibility and discovery of one device: which peers it lists as online, *)
(* from their UDP beacons.                                                 *)
(*                                                                         *)
(* visibility.json and discovered_peers.json are read, changed and         *)
(* replaced without a lock by the discovery listener, the beacon           *)
(* broadcaster, --scan-peers and --set-visibility.  A datagram may be lost *)
(* or be overtaken by a later one.  Times are ages: how long ago a beacon  *)
(* was handled, how much of EVERYONE is left.  Reading the clock and a     *)
(* file is one step.  A peer has one name and one address.                 *)
(*                                                                         *)
(* The specification's names begin with Discovery, so that a module can    *)
(* extend this one and PeersStore, the other state file.                   *)
(***************************************************************************)
EXTENDS Naturals

CONSTANTS
  Sender,        \* the peers: devices that may send beacons
  Paired,        \* peers with a record in paired_peers.json
  Trusted,       \* peers in trusted_peers.json
  Local,         \* peers whose address is private
  Open,          \* peers whose own visibility is EVERYONE
  MaxAge,        \* 15 s
  EveryoneTime,  \* 600 s
  Nothing

Mode == {"OFF", "KNOWN", "EVERYONE"}
Datagram == [from : Sender, mode : Mode]

ASSUME DiscoveryAssumption ==
  /\ Paired \subseteq Sender /\ Trusted \subseteq Sender
  /\ Local \subseteq Sender /\ Open \subseteq Sender
  /\ Nothing \notin Datagram
  /\ MaxAge \in Nat \ {0} /\ EveryoneTime \in Nat \ {0}

VARIABLES
  vis,    \* visibility.json
  list,   \* discovered_peers.json: how long ago each peer was seen
  task,   \* what each process is doing
  up,     \* the peers that beacon
  net,    \* datagrams on their way
  heard   \* history: how long ago the last beacon of a peer was received

discoveryVars == <<vis, list, task, up, net, heard>>

\* Older than MaxAge; a standby entry (last_seen_secs = 0) is that old.
Old == MaxAge + 1

\* Not in the list; never heard of.
Absent == MaxAge + 2

Ages == [Sender -> 0 .. Absent]
Nobody == [p \in Sender |-> Absent]

Process == {"listener", "broadcaster", "scan", "user"}

\* What a process is at, where it goes on after get_visibility, the datagram
\* it handles, the visibility it was told and the list it has read.
Task == [at : {"idle", "lower", "filter", "load", "prune", "save", "remove"},
         then : {"idle", "filter", "load", "prune"},
         about : Datagram \cup {Nothing},
         mode : Mode,
         copy : Ages]

DiscoveryTypeOK ==
  /\ vis \in [mode : Mode, left : 0 .. EveryoneTime]
  /\ list \in Ages
  /\ task \in [Process -> Task]
  /\ up \in [Sender -> BOOLEAN]
  /\ net \subseteq Datagram
  /\ heard \in Ages

Idle == [at |-> "idle", then |-> "idle", about |-> Nothing, mode |-> "OFF", copy |-> Nobody]

DiscoveryInit ==
  /\ vis = [mode |-> "KNOWN", left |-> 0]
  /\ list = Nobody
  /\ task = [x \in Process |-> Idle]
  /\ up \in [Sender -> BOOLEAN]
  /\ net = {}
  /\ heard = Nobody

At(x, place) == task[x].at = place
Goes(x, place) == task' = [task EXCEPT ![x].at = place]
Done(x) == task' = [task EXCEPT ![x] = Idle]

----------------------------------------------------------------------------
(* get_visibility and set_visibility                                       *)

Expired(v) == v.mode = "EVERYONE" /\ v.left = 0

Told(v) == IF Expired(v) THEN "KNOWN" ELSE v.mode

\* Process x reads the file, handling d, and goes on at place; an EVERYONE
\* that has run out is replaced first, in a step of its own.  To prune, it
\* does not matter what the visibility is.
Looks(x, d, place) ==
  task' = [task EXCEPT ![x] =
             [at |-> IF Expired(vis) THEN "lower" ELSE place,
              then |-> IF Expired(vis) THEN place ELSE "idle",
              about |-> d,
              mode |-> IF place = "prune" THEN "OFF" ELSE Told(vis),
              copy |-> Nobody]]

Chosen(mode) == [mode |-> mode, left |-> IF mode = "EVERYONE" THEN EveryoneTime ELSE 0]

Lower(x) ==
  /\ At(x, "lower")
  /\ vis' = Chosen("KNOWN")
  /\ task' = [task EXCEPT ![x] = [@ EXCEPT !.at = task[x].then, !.then = "idle"]]
  /\ UNCHANGED <<list, up, net, heard>>

\* --set-visibility: OFF also removes the list of peers, after the mode is set.
SetVisibility(mode) ==
  /\ At("user", "idle")
  /\ vis' = Chosen(mode)
  /\ IF mode = "OFF" THEN Goes("user", "remove") ELSE UNCHANGED task
  /\ UNCHANGED <<list, up, net, heard>>

RemoveList ==
  /\ At("user", "remove")
  /\ list' = Nobody
  /\ Done("user")
  /\ UNCHANGED <<vis, up, net, heard>>

----------------------------------------------------------------------------
(* get_discovered_peers and its callers                                    *)

\* Mutant of Standby: a paired peer that is offline is listed as just seen.
StandbyNow(p) == IF p \in Paired THEN 0 ELSE Absent

\* A paired peer that is not online is listed as standby.
Standby(p) == IF p \in Paired THEN Old ELSE Absent

\* is_peer_trusted
Trustworthy(p) == p \in Paired \cup Trusted

\* The peers get_discovered_peers makes of list l for visibility mode.
Listed(l, mode) ==
  [p \in Sender |->
     CASE mode = "OFF" -> Absent
       [] /\ mode # "OFF"
          /\ l[p] <= MaxAge
          /\ mode = "KNOWN" => Trustworthy(p) \/ p \in Local -> l[p]
       [] OTHER -> Standby(p)]

\* The list is read, after the visibility.
ReadList(x) ==
  /\ At(x, "load")
  /\ task' = [task EXCEPT ![x] = [@ EXCEPT !.at = "save", !.copy = Listed(list, task[x].mode)]]
  /\ UNCHANGED <<vis, list, up, net, heard>>

\* The listener receives a datagram; one that says OFF is not filtered.
Receive(d) ==
  /\ At("listener", "idle")
  /\ d \in net
  /\ net' = net \ {d}
  /\ Looks("listener", d, IF d.mode = "OFF" THEN "load" ELSE "filter")
  /\ heard' = IF d.mode = "OFF" THEN heard ELSE [heard EXCEPT ![d.from] = 0]
  /\ UNCHANGED <<vis, list, up>>

\* Mutant of Ignored: the paired peers are forgotten.
IgnoredPaired(d, mode) ==
  \/ mode = "OFF"
  \/ mode = "KNOWN" /\ d.from \notin Local \cup Open

\* Whose beacons are of no interest.
Ignored(d, mode) ==
  \/ mode = "OFF"
  \/ mode = "KNOWN" /\ d.from \notin Paired \cup Local \cup Open

Filter ==
  /\ At("listener", "filter")
  /\ IF Ignored(task["listener"].about, task["listener"].mode)
     THEN Done("listener")
     ELSE Looks("listener", task["listener"].about, "load")
  /\ UNCHANGED <<vis, list, up, net, heard>>

\* Mutant of Update: the time is read when the list is saved.
UpdateNow ==
  LET d == task["listener"].about
      copy == task["listener"].copy
  IN /\ At("listener", "save")
     /\ d # Nothing
     /\ d.mode # "OFF"
     /\ list' = [copy EXCEPT ![d.from] = 0]
     /\ Done("listener")
     /\ UNCHANGED <<vis, up, net, heard>>

\* The sender is entered as seen when its beacon was received.
Update ==
  LET d == task["listener"].about
      copy == task["listener"].copy
  IN /\ At("listener", "save")
     /\ d # Nothing
     /\ d.mode # "OFF"
     /\ list' = [copy EXCEPT ![d.from] = heard[d.from]]
     /\ Done("listener")
     /\ UNCHANGED <<vis, up, net, heard>>

\* The sender of OFF is removed; the list is saved if it was there.
Depart ==
  LET d == task["listener"].about
      copy == task["listener"].copy
  IN /\ At("listener", "save")
     /\ d # Nothing
     /\ d.mode = "OFF"
     /\ list' = IF copy[d.from] = Absent THEN list ELSE [copy EXCEPT ![d.from] = Absent]
     /\ Done("listener")
     /\ UNCHANGED <<vis, up, net, heard>>

\* The broadcaster starts a round, --scan-peers is called.  Sending the
\* beacons, and looking at the visibility once more for that, is left out.
Broadcast ==
  /\ At("broadcaster", "idle")
  /\ Looks("broadcaster", Nothing, "prune")
  /\ UNCHANGED <<vis, list, up, net, heard>>

Scan ==
  /\ At("scan", "idle")
  /\ Looks("scan", Nothing, "load")
  /\ UNCHANGED <<vis, list, up, net, heard>>

\* --scan-peers saves what it has read.
SaveScan ==
  /\ At("scan", "save")
  /\ list' = task["scan"].copy
  /\ Done("scan")
  /\ UNCHANGED <<vis, up, net, heard>>

----------------------------------------------------------------------------
(* prune_expired_discovered_peers                                          *)

\* The listener prunes when no datagram has come for a second.
Quiet ==
  /\ At("listener", "idle")
  /\ Goes("listener", "prune")
  /\ UNCHANGED <<vis, list, up, net, heard>>

Pruned(l) == [p \in Sender |-> IF l[p] <= MaxAge THEN l[p] ELSE Absent]

Prune(x) ==
  /\ At(x, "prune")
  /\ IF Pruned(list) = list
     THEN Done(x)
     ELSE task' = [task EXCEPT ![x] = [@ EXCEPT !.at = "save", !.copy = Pruned(list)]]
  /\ UNCHANGED <<vis, list, up, net, heard>>

SavePruned(x) ==
  /\ At(x, "save")
  /\ x = "listener" => task[x].about = Nothing
  /\ list' = task[x].copy
  /\ Done(x)
  /\ UNCHANGED <<vis, up, net, heard>>

----------------------------------------------------------------------------
(* The peers and the network; time                                         *)

\* A beacon that is lost changes nothing.
Beacon(p) ==
  /\ up[p]
  /\ net' = net \cup {[from |-> p, mode |-> IF p \in Open THEN "EVERYONE" ELSE "KNOWN"]}
  /\ UNCHANGED <<vis, list, task, up, heard>>

\* The OFF may be lost; or the peer just disappears.
TurnOff(p) ==
  /\ up[p]
  /\ up' = [up EXCEPT ![p] = FALSE]
  /\ net' \in {net, net \cup {[from |-> p, mode |-> "OFF"]}}
  /\ UNCHANGED <<vis, list, task, heard>>

TurnOn(p) ==
  /\ ~up[p]
  /\ up' = [up EXCEPT ![p] = TRUE]
  /\ UNCHANGED <<vis, list, task, net, heard>>

Older(l) == [p \in Sender |-> IF l[p] < Old THEN l[p] + 1 ELSE l[p]]

\* Handling a datagram takes less than MaxAge.
Tick ==
  /\ LET d == task["listener"].about
     IN d # Nothing => d.mode = "OFF" \/ heard[d.from] < MaxAge
  /\ vis' = [vis EXCEPT !.left = IF @ > 0 THEN @ - 1 ELSE 0]
  /\ list' = Older(list)
  /\ task' = [x \in Process |-> [task[x] EXCEPT !.copy = Older(@)]]
  /\ heard' = Older(heard)
  /\ UNCHANGED <<up, net>>

----------------------------------------------------------------------------

Listener == Lower("listener") \/ Filter \/ ReadList("listener")
              \/ Update \/ Depart \/ Prune("listener") \/ SavePruned("listener")

Broadcaster == Broadcast \/ Lower("broadcaster") \/ Prune("broadcaster") \/ SavePruned("broadcaster")

Scanner == Lower("scan") \/ ReadList("scan") \/ SaveScan

DiscoveryNext ==
  \/ \E mode \in Mode : SetVisibility(mode)
  \/ RemoveList
  \/ \E d \in net : Receive(d)
  \/ Quiet
  \/ Listener
  \/ Broadcaster
  \/ Scan
  \/ Scanner
  \/ \E p \in Sender : Beacon(p) \/ TurnOff(p) \/ TurnOn(p)
  \/ Tick

\* The threads of the daemon and the commands run, time passes, a peer that
\* is up keeps sending beacons, some of them arrive and are received.
DiscoveryFairness ==
  /\ WF_discoveryVars(Listener) /\ WF_discoveryVars(Broadcaster) /\ WF_discoveryVars(Scanner) /\ WF_discoveryVars(RemoveList)
  /\ WF_discoveryVars(Tick)
  /\ \A p \in Sender :
       /\ WF_discoveryVars(Beacon(p))
       /\ SF_discoveryVars(\E d \in net : d.from = p /\ d.mode # "OFF" /\ Receive(d))

DiscoverySpec == DiscoveryInit /\ [][DiscoveryNext]_discoveryVars /\ DiscoveryFairness

----------------------------------------------------------------------------
(* Properties                                                              *)

\* The peer is listed as online.
Shown(p) == Listed(list, Told(vis))[p] <= MaxAge

\* No peer is shown as seen more recently than its last beacon was received,
\* whichever stale lists the processes write back (main.rs:2178-2353, 2463-2477).
Fresh == \A p \in Sender : Shown(p) => heard[p] <= list[p]

\* A peer that is paired or has a private address, and keeps sending
\* beacons to a device that is not OFF, is shown again and again, though
\* concurrent saves may each time overwrite its entry (main.rs:2329-2352).
Found ==
  \A p \in Paired \cup Local :
    <>[](up[p] /\ vis.mode # "OFF") => []<>Shown(p)

\* A peer that sends no more beacons disappears for good, even if its OFF is
\* lost, overtaken by an earlier beacon, or undone by a stale save
\* (main.rs:2193-2208, 2299-2308, 2463-2477).
Gone == \A p \in Sender : <>[](~up[p]) => <>[](~Shown(p))
=============================================================================
