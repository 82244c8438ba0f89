---------------------------------- MODULE Bt -----------------------------------
(***************************************************************************)
(* transport/bt: the queue of addresses to advertise to, the callbacks of a   *)
(* connection, and the HID sink's thread, which looks at the connection and   *)
(* then sends.  There is one connection at a time (CONFIG_BT_MAX_CONN).  The  *)
(* callbacks run to their end before the work queue runs advertising_run.     *)
(***************************************************************************)
EXTENDS Naturals, SequencesExt

CONSTANTS Peers,     \* the hosts there are
          Anyone,       \* BT_ADDR_LE_ANY
          None,      \* NULL, or no advertising
          MaxPaired  \* CONFIG_BT_MAX_PAIRED
ASSUME BtAssumption == Anyone \notin Peers /\ None \notin Peers \cup {Anyone} /\ MaxPaired \in Nat \ {0}

VARIABLES public_adv_requested, bonds_queue,
          adv_work,       \* advertising_run is submitted
          current_client, security_level,
          bonds,          \* the bonds in the settings, the oldest first
          adv,            \* whom the controller advertises to
          link,           \* the controller's connection: peer and whether it is encrypted
          sink,           \* the HID thread: available() has said yes
          on,             \* the transport has been initialised
          asked,          \* history: boot_options.bt_public_adv
          served,         \* history: a connection since the start has ended secured
          tried,          \* history: addresses advertised to since adv_init
          failed,         \* history: a start of advertising or a connection has failed
          gone            \* history: a disconnection since available() said yes
stack   == <<bonds, adv, link>>
history == <<asked, served, tried, failed, gone>>
btVars  == <<public_adv_requested, bonds_queue, adv_work, current_client, security_level, stack,
             sink, on, history>>

NoLink == [peer |-> None, secured |-> FALSE]

BtTypeOK ==
    /\ bonds_queue \in Seq(Peers \cup {Anyone}) /\ Len(bonds_queue) <= MaxPaired
    /\ public_adv_requested \in BOOLEAN /\ adv_work \in BOOLEAN
    /\ current_client \in Peers \cup {None} /\ security_level \in {"L1", "L2"}
    /\ bonds \in Seq(Peers) /\ Len(bonds) <= MaxPaired /\ IsInjective(bonds)
    /\ adv \in Peers \cup {Anyone, None}
    /\ link \in [peer : Peers \cup {None}, secured : BOOLEAN]
    /\ {sink, on, asked, served, failed, gone} \subseteq BOOLEAN
    /\ tried \subseteq Peers \cup {Anyone}

BtInit == /\ public_adv_requested = FALSE /\ bonds_queue = <<>> /\ adv_work = FALSE
          /\ current_client = None /\ security_level = "L1"
          /\ bonds = <<>> /\ adv = None /\ link = NoLink
          /\ sink = FALSE /\ on = FALSE
          /\ asked = FALSE /\ served = FALSE /\ tried = {} /\ failed = FALSE /\ gone = FALSE
-------------------------------------------------------------------------------
\* L2, L3 and L4 count the same: "L2" stands for the three.
transport_bt_available == current_client # None /\ security_level = "L2"

\* put_bond_to_queue for each bond, or the address for undirected advertising.
transport_bt_adv_init(public) ==
    /\ public_adv_requested' = public
    /\ bonds_queue' = IF public THEN <<Anyone>> ELSE bonds
    /\ tried' = {}

\* The mouse starts, with the button held or not; bt_enable and settings_load
\* may fail, and then nothing else happens.
transport_bt_init ==
    /\ ~ on
    /\ on' = TRUE
    /\ asked' \in BOOLEAN
    /\ \/ /\ transport_bt_adv_init(asked')
          /\ adv_work' = TRUE
          /\ UNCHANGED failed
       \/ failed' = TRUE /\ UNCHANGED <<public_adv_requested, bonds_queue, adv_work, tried>>
    /\ UNCHANGED <<current_client, security_level, stack, sink, served, gone>>

PowerOff ==
    /\ on
    /\ public_adv_requested' = FALSE /\ bonds_queue' = <<>> /\ adv_work' = FALSE
    /\ current_client' = None /\ security_level' = "L1"
    /\ adv' = None /\ link' = NoLink
    /\ sink' = FALSE /\ on' = FALSE
    /\ asked' = FALSE /\ served' = FALSE /\ tried' = {} /\ failed' = FALSE /\ gone' = FALSE
    /\ UNCHANGED bonds

\* Mutant: the address stays in the queue.
advertising_run_peek ==
    /\ adv_work
    /\ adv_work' = FALSE
    /\ \/ bonds_queue = <<>> /\ UNCHANGED <<bonds_queue, adv, tried, failed>>
       \/ /\ bonds_queue # <<>>
          /\ bonds_queue' = bonds_queue
          /\ \/ /\ adv = None /\ link = NoLink
                /\ adv' = Head(bonds_queue)
                /\ tried' = tried \cup {Head(bonds_queue)}
                /\ UNCHANGED failed
             \/ failed' = TRUE /\ UNCHANGED <<adv, tried>>
    /\ UNCHANGED <<public_adv_requested, current_client, security_level, bonds, link, sink, on, asked,
                   served, gone>>

\* The work: the results of bt_le_adv_start are not looked at.
advertising_run ==
    /\ adv_work
    /\ adv_work' = FALSE
    /\ \/ bonds_queue = <<>> /\ UNCHANGED <<bonds_queue, adv, tried, failed>>
       \/ /\ bonds_queue # <<>>
          /\ bonds_queue' = Tail(bonds_queue)
          /\ \/ /\ adv = None /\ link = NoLink
                /\ adv' = Head(bonds_queue)
                /\ tried' = tried \cup {Head(bonds_queue)}
                /\ UNCHANGED failed
             \/ failed' = TRUE /\ UNCHANGED <<adv, tried>>
    /\ UNCHANGED <<public_adv_requested, current_client, security_level, bonds, link, sink, on, asked,
                   served, gone>>

\* bt_connected_callback with an error.  Directed advertising times out,
\* undirected never does; after another error nothing is started again.
NotConnected ==
    /\ adv # None
    /\ adv' = None
    /\ \/ adv # Anyone /\ adv_work' = TRUE /\ UNCHANGED failed
       \/ failed' = TRUE /\ UNCHANGED adv_work
    /\ UNCHANGED <<public_adv_requested, bonds_queue, current_client, security_level, bonds, link,
                   sink, on, asked, served, tried, gone>>

\* bt_connected_callback.
Connected(p) ==
    /\ adv \in {p, Anyone}
    /\ adv' = None
    /\ link' = [peer |-> p, secured |-> FALSE]
    /\ current_client' = p
    /\ UNCHANGED <<public_adv_requested, bonds_queue, adv_work, security_level, bonds, sink, on,
                   history>>

\* The link is encrypted.  A new bond takes the place of the oldest one
\* (CONFIG_BT_KEYS_OVERWRITE_OLDEST).
Bonded(p) == IF Contains(bonds, p) THEN bonds
             ELSE Append(IF Len(bonds) < MaxPaired THEN bonds ELSE Tail(bonds), p)

bt_security_changed ==
    /\ link.peer # None
    /\ \/ /\ ~ link.secured
          /\ link' = [link EXCEPT !.secured = TRUE]
          /\ bonds' = Bonded(link.peer)
          /\ security_level' = "L2"
       \/ /\ security_level' = IF link.secured THEN "L2" ELSE "L1" \* with an error
          /\ UNCHANGED <<link, bonds>>
    /\ UNCHANGED <<public_adv_requested, bonds_queue, adv_work, current_client, adv, sink, on,
                   history>>

\* Mutant: the level of the last connection is kept.
DisconnectedStale ==
    /\ link.peer # None
    /\ transport_bt_adv_init(public_adv_requested /\ ~ transport_bt_available)
    /\ adv_work' = TRUE
    /\ current_client' = None
    /\ link' = NoLink
    /\ served' = (served \/ link.secured) /\ gone' = TRUE
    /\ UNCHANGED <<bonds, adv, sink, on, security_level, asked, failed>>

\* Mutant: public advertising is not asked for again.
DisconnectedPrivate ==
    /\ link.peer # None
    /\ transport_bt_adv_init(FALSE)
    /\ adv_work' = TRUE
    /\ current_client' = None /\ security_level' = "L1"
    /\ link' = NoLink
    /\ served' = (served \/ link.secured) /\ gone' = TRUE
    /\ UNCHANGED <<bonds, adv, sink, on, asked, failed>>

\* bt_disconnected_callback.
Disconnected ==
    /\ link.peer # None
    /\ transport_bt_adv_init(public_adv_requested /\ ~ transport_bt_available)
    /\ adv_work' = TRUE
    /\ current_client' = None /\ security_level' = "L1"
    /\ link' = NoLink
    /\ served' = (served \/ link.secured) /\ gone' = TRUE
    /\ UNCHANGED <<bonds, adv, sink, on, asked, failed>>

\* hid_sink_impl: available(), ...
SinkChecks == /\ on /\ ~ sink
              /\ transport_bt_available
              /\ sink' = TRUE /\ gone' = FALSE
              /\ UNCHANGED <<public_adv_requested, bonds_queue, adv_work, current_client,
                             security_level, stack, on, asked, served, tried, failed>>

\* ... and send(), to the client there is then; with none it is for everyone.
transport_bt_send ==
    /\ sink
    /\ sink' = FALSE /\ gone' = FALSE
    /\ UNCHANGED <<public_adv_requested, bonds_queue, adv_work, current_client, security_level,
                   stack, on, asked, served, tried, failed>>

BtNext == \/ transport_bt_init \/ PowerOff \/ advertising_run \/ NotConnected
          \/ \E p \in Peers : Connected(p)
          \/ bt_security_changed \/ Disconnected \/ SinkChecks \/ transport_bt_send

BtSpec == BtInit /\ [][BtNext]_btVars

\* The work queue runs, and directed advertising ends by itself.
BtFairSpec == /\ BtSpec /\ WF_btVars(advertising_run)
              /\ WF_btVars(NotConnected /\ adv_work')
-------------------------------------------------------------------------------
\* The mouse advertises to nobody, is connected to nobody and has nothing to run.
Silent == on /\ adv = None /\ link = NoLink /\ ~ adv_work

\* A mouse started for public advertising can be found until a connection has
\* ended secured, unless an error was passed over (adv.c:96, conn.c:29-31).
PublicStaysReachable == asked /\ ~ served /\ ~ failed /\ on => ~ Silent

\* A mouse falls silent only after each bond was advertised to (adv.c:86-89),
\* with the bonds of the last adv_init, unless an error was passed over.
SilentAfterAllBonds == Silent /\ ~ failed => ToSet(bonds) \subseteq tried

\* Anyone may find the mouse only when it was started that way, and never again
\* once a connection has ended secured (conn.c:50-52).
PublicUntilServed == adv = Anyone => asked /\ ~ served

\* The mouse invites whom it should: everyone until it has been served, then its
\* bonds, each of them before it falls silent.
InvitesRight == PublicStaysReachable /\ SilentAfterAllBonds /\ PublicUntilServed

\* available() is about the connection there is: a new one starts unsecured.
AvailableIsSecured == transport_bt_available => link.peer = current_client /\ link.secured

\* A report goes to a secured connection, unless one ended after available().
SentIsSecured == sink /\ ~ gone => link.secured

\* Nothing is advertised during a connection.
AdvertisesAlone == link # NoLink => adv = None /\ ~ adv_work

\* Reports and advertising go by the connection there is now.
ConnectionRight == BtTypeOK /\ AvailableIsSecured /\ SentIsSecured /\ AdvertisesAlone

\* A round of directed advertising comes to a connection or to silence: every
\* timeout leads to the next address, and there is an end of them.
RoundEnds == adv_work /\ ~ public_adv_requested
             ~> Silent \/ link # NoLink \/ failed \/ ~ on
================================================================================
