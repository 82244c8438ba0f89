------------------------------- MODULE HostProofs ------------------------------
(***************************************************************************)
(* The mouse's two ways to its hosts.  Over Bluetooth: whom it advertises to  *)
(* and to whom a report may go, for any hosts, any number of bonds and any    *)
(* order of timeouts, connections, encryption, errors and disconnections.     *)
(* Over the cable: the AVR that the nRF puts on USB and that hidcli switches  *)
(* and flashes, for any file and any page size, whenever it is plugged,       *)
(* unplugged or reset.                                                        *)
(***************************************************************************)
EXTENDS Bt, Hidcli, SequenceTheorems, WellFoundedInduction, TLAPS
-------------------------------------------------------------------------------
\* Bluetooth.

\* The callbacks' variables follow the controller's connection.
LinkFollowed == /\ current_client = link.peer
                /\ link.peer = None => link = NoLink
                /\ security_level = "L2" <=> link.secured

\* Advertising, the work that starts it and a connection exclude each other, and
\* a mouse that is off has none of them.
OneAtATime == /\ link # NoLink => adv = None /\ ~ adv_work
              /\ adv # None => ~ adv_work
              /\ ~ on => /\ adv = None /\ link = NoLink /\ ~ adv_work /\ ~ sink /\ ~ served
                         /\ ~ public_adv_requested /\ bonds_queue = <<>>

\* Everyone is in the queue or advertised to only while that is still asked for.
PublicIsAsked == /\ public_adv_requested => asked /\ ~ served
                 /\ Anyone \in ToSet(bonds_queue) => public_adv_requested
                 /\ adv = Anyone => public_adv_requested

\* Public advertising is under way, waits for its work or has led to a connection.
PublicGoesOn == asked /\ ~ served /\ ~ failed /\ on =>
                    /\ public_adv_requested
                    /\ adv = Anyone \/ link # NoLink \/ (adv_work /\ bonds_queue = <<Anyone>>)

\* Outside a connection a bond has been advertised to or is still in the queue,
\* and advertising stops only with an empty queue.
BondsGoOn == on /\ ~ failed /\ link = NoLink /\ ~ public_adv_requested =>
                 /\ ToSet(bonds) \subseteq tried \cup ToSet(bonds_queue)
                 /\ Silent => bonds_queue = <<>>

BtInv == /\ BtTypeOK /\ LinkFollowed /\ OneAtATime /\ SentIsSecured
         /\ PublicIsAsked /\ PublicGoesOn /\ BondsGoOn
-------------------------------------------------------------------------------
\* What the work takes from the queue and what it leaves there.
LEMMA QueueFacts ==
    ASSUME NEW S, NEW q \in Seq(S), q # <<>>
    PROVE  /\ Head(q) \in S /\ Tail(q) \in Seq(S) /\ Len(Tail(q)) = Len(q) - 1
           /\ ToSet(q) = {Head(q)} \cup ToSet(Tail(q))
<1>1. /\ Len(q) \in Nat \ {0} /\ Len(Tail(q)) = Len(q) - 1 /\ Tail(q) \in Seq(S)
      /\ \A i \in 1..Len(Tail(q)) : Tail(q)[i] = q[i + 1]
  OBVIOUS
<1>2. Head(q) = q[1] /\ Head(q) \in S
  OBVIOUS
<1>3. DOMAIN q = 1..Len(q) /\ DOMAIN Tail(q) = 1..(Len(q) - 1)
  OBVIOUS
<1>4. ToSet(q) \subseteq {Head(q)} \cup ToSet(Tail(q))
  <2> SUFFICES ASSUME NEW i \in 1..Len(q) PROVE q[i] \in {Head(q)} \cup ToSet(Tail(q))
    BY DEF ToSet
  <2>1. CASE i = 1
    BY <2>1
  <2>2. CASE i # 1
    <3>1. i - 1 \in 1..Len(Tail(q)) /\ q[i] = Tail(q)[i - 1]
      BY <2>2
    <3> QED BY <3>1, <1>1, <1>3 DEF ToSet
  <2> QED BY <2>2
<1>5. {Head(q)} \cup ToSet(Tail(q)) \subseteq ToSet(q)
  <2>1. Head(q) \in ToSet(q)
    BY DEF ToSet
  <2>2. ASSUME NEW i \in 1..Len(Tail(q)) PROVE Tail(q)[i] \in ToSet(q)
    <3>1. i + 1 \in 1..Len(q) /\ Tail(q)[i] = q[i + 1]
      OBVIOUS
    <3> QED BY DEF ToSet
  <2> QED BY DEF ToSet
<1> QED BY <1>4, <1>5

\* A queue of one address.
LEMMA SingletonFacts ==
    ASSUME NEW S, NEW x \in S
    PROVE  <<x>> \in Seq(S) /\ Len(<<x>>) = 1 /\ Head(<<x>>) = x /\ ToSet(<<x>>) = {x}
  BY DEF ToSet

\* An empty queue.
LEMMA EmptyFacts == ToSet(<<>>) = {}
  BY DEF ToSet

\* A new bond keeps the bonds distinct and within the limit.
LEMMA BondedFacts ==
    ASSUME BtTypeOK, NEW p \in Peers
    PROVE  Bonded(p) \in Seq(Peers) /\ Len(Bonded(p)) <= MaxPaired /\ IsInjective(Bonded(p))
<1> DEFINE kept == IF Len(bonds) < MaxPaired THEN bonds ELSE Tail(bonds)
<1>1. bonds \in Seq(Peers) /\ Len(bonds) <= MaxPaired /\ IsInjective(bonds) /\ Len(bonds) \in Nat
  BY DEF BtTypeOK
<1>2. MaxPaired \in Nat \ {0}
  BY BtAssumption
<1>3. ASSUME ~ Contains(bonds, p)
      PROVE  /\ kept \in Seq(Peers) /\ Len(kept) < MaxPaired
             /\ \A i, j \in 1..Len(kept) : kept[i] = kept[j] => i = j
             /\ \A i \in 1..Len(kept) : kept[i] # p
  <2>1. /\ \A i, j \in 1..Len(bonds) : bonds[i] = bonds[j] => i = j
        /\ \A i \in 1..Len(bonds) : bonds[i] # p
    BY <1>1, <1>3 DEF IsInjective, Contains
  <2>2. CASE Len(bonds) < MaxPaired
    BY <2>1, <2>2, <1>1
  <2>3. CASE ~ Len(bonds) < MaxPaired
    <3>1. bonds # <<>> /\ kept = Tail(bonds)
      BY <2>3, <1>2
    <3>2. /\ Tail(bonds) \in Seq(Peers) /\ Len(Tail(bonds)) = Len(bonds) - 1
          /\ \A i \in 1..Len(Tail(bonds)) : Tail(bonds)[i] = bonds[i + 1]
      BY <1>1, <3>1
    <3>3. \A i \in 1..Len(Tail(bonds)) : i + 1 \in 1..Len(bonds)
      OBVIOUS
    <3>4. \A i, j \in 1..Len(Tail(bonds)) : Tail(bonds)[i] = Tail(bonds)[j] => i = j
      <4> SUFFICES ASSUME NEW i \in 1..Len(Tail(bonds)), NEW j \in 1..Len(Tail(bonds)),
                          Tail(bonds)[i] = Tail(bonds)[j]
                   PROVE  i = j
        OBVIOUS
      <4>1. i + 1 = j + 1
        BY <2>1
      <4>2. i \in Int /\ j \in Int
        OBVIOUS
      <4> QED BY <4>1
    <3>5. \A i \in 1..Len(Tail(bonds)) : Tail(bonds)[i] # p
      BY <2>1
    <3>6. Len(Tail(bonds)) < MaxPaired
      BY <1>1, <1>2
    <3> QED BY <3>1, <3>2, <3>4, <3>5, <3>6
  <2> QED BY <2>2, <2>3
<1>4. CASE Contains(bonds, p)
  BY <1>4, <1>1 DEF Bonded
<1>5. CASE ~ Contains(bonds, p)
  <2>1. Bonded(p) = Append(kept, p)
    BY <1>5 DEF Bonded
  <2> HIDE DEF kept
  <2>2. /\ kept \in Seq(Peers) /\ Len(kept) < MaxPaired /\ Len(kept) \in Nat
        /\ \A i, j \in 1..Len(kept) : kept[i] = kept[j] => i = j
        /\ \A i \in 1..Len(kept) : kept[i] # p
    BY <1>3, <1>5
  <2>3. /\ Append(kept, p) \in Seq(Peers) /\ Len(Append(kept, p)) = Len(kept) + 1
        /\ \A i \in 1..Len(kept) : Append(kept, p)[i] = kept[i]
        /\ Append(kept, p)[Len(kept) + 1] = p
        /\ DOMAIN Append(kept, p) = 1..(Len(kept) + 1)
    BY <2>2
  <2>4. \A i \in 1..(Len(kept) + 1) : i \in 1..Len(kept) \/ i = Len(kept) + 1
    OBVIOUS
  <2>5. IsInjective(Append(kept, p))
    BY <2>2 DEF IsInjective
  <2> QED BY <2>1, <2>2, <2>5, <1>2
<1> QED BY <1>4, <1>5
-------------------------------------------------------------------------------
\* A start of advertising fills the queue with bonds, or with everyone.
LEMMA AdvInitTypes ==
    ASSUME BtTypeOK, NEW public \in BOOLEAN, transport_bt_adv_init(public)
    PROVE  /\ bonds_queue' \in Seq(Peers \cup {Anyone}) /\ Len(bonds_queue') <= MaxPaired
           /\ public_adv_requested' \in BOOLEAN /\ tried' \subseteq Peers \cup {Anyone}
<1>1. <<Anyone>> \in Seq(Peers \cup {Anyone}) /\ Len(<<Anyone>>) = 1
  OBVIOUS
<1>2. bonds \in Seq(Peers \cup {Anyone}) /\ Len(bonds) <= MaxPaired
  BY DEF BtTypeOK
<1>3. Len(bonds_queue') <= MaxPaired
  BY <1>2, BtAssumption DEF transport_bt_adv_init
<1> QED BY <1>1, <1>2, <1>3 DEF transport_bt_adv_init

\* Everyone is put into the queue only for public advertising.
LEMMA AdvInitQueue ==
    ASSUME BtTypeOK, NEW public \in BOOLEAN, transport_bt_adv_init(public)
    PROVE  Anyone \in ToSet(bonds_queue') => public_adv_requested'
<1>1. \A i \in DOMAIN bonds : bonds[i] \in Peers
  BY DEF BtTypeOK
<1> QED BY <1>1, BtAssumption DEF transport_bt_adv_init, ToSet

\* Types: a new bond keeps the bonds distinct and within their limit.
LEMMA TypeStep == BtInv /\ [BtNext]_btVars => BtTypeOK'
<1> SUFFICES ASSUME BtInv, [BtNext]_btVars PROVE BtTypeOK'
  OBVIOUS
<1>1. CASE transport_bt_init
  <2>1. /\ bonds_queue' \in Seq(Peers \cup {Anyone}) /\ Len(bonds_queue') <= MaxPaired
        /\ public_adv_requested' \in BOOLEAN /\ tried' \subseteq Peers \cup {Anyone}
    <3>1. CASE transport_bt_adv_init(asked')
      BY <1>1, <3>1, AdvInitTypes DEF transport_bt_init, BtInv
    <3>2. CASE UNCHANGED <<public_adv_requested, bonds_queue, adv_work, tried>>
      BY <3>2 DEF BtInv, BtTypeOK
    <3> QED BY <1>1, <3>1, <3>2 DEF transport_bt_init
  <2>2. /\ failed' \in BOOLEAN /\ adv_work' \in BOOLEAN
        /\ UNCHANGED <<current_client, security_level, stack, sink, served, gone>>
        /\ on' = TRUE /\ asked' \in BOOLEAN
    BY <1>1 DEF transport_bt_init, BtInv, BtTypeOK
  <2> QED BY <2>1, <2>2 DEF BtInv, BtTypeOK, stack
<1>2. CASE PowerOff
  <2>1. <<>> \in Seq(Peers \cup {Anyone}) /\ Len(<<>>) <= MaxPaired
    BY BtAssumption
  <2>2. NoLink \in [peer : Peers \cup {None}, secured : BOOLEAN]
    BY DEF NoLink
  <2> QED BY <1>2, <2>1, <2>2 DEF PowerOff, BtInv, BtTypeOK
<1>3. CASE advertising_run
  <2>1. CASE bonds_queue = <<>>
    BY <1>3, <2>1 DEF advertising_run, BtInv, BtTypeOK
  <2>2. CASE bonds_queue # <<>>
    <3>1. /\ Head(bonds_queue) \in Peers \cup {Anyone}
          /\ Tail(bonds_queue) \in Seq(Peers \cup {Anyone})
          /\ Len(Tail(bonds_queue)) = Len(bonds_queue) - 1 /\ Len(bonds_queue) \in Nat
      BY <2>2 DEF BtInv, BtTypeOK
    <3>2. bonds_queue' \in Seq(Peers \cup {Anyone}) /\ Len(bonds_queue') <= MaxPaired
      <4>1. bonds_queue' = Tail(bonds_queue)
        BY <1>3 DEF advertising_run
      <4>2. Len(bonds_queue) - 1 <= MaxPaired
        BY BtAssumption DEF BtInv, BtTypeOK
      <4> QED BY <3>1, <4>1, <4>2
    <3>3. /\ adv' \in Peers \cup {Anyone, None} /\ tried' \subseteq Peers \cup {Anyone}
          /\ failed' \in BOOLEAN /\ adv_work' \in BOOLEAN
      BY <1>3, <3>1 DEF advertising_run, BtInv, BtTypeOK
    <3>4. UNCHANGED <<public_adv_requested, current_client, security_level, bonds, link, sink, on,
                      asked, served, gone>>
      BY <1>3 DEF advertising_run
    <3> QED BY <3>2, <3>3, <3>4 DEF BtInv, BtTypeOK
  <2> QED BY <2>1, <2>2
<1>4. CASE NotConnected
  BY <1>4 DEF NotConnected, BtInv, BtTypeOK
<1>5. ASSUME NEW p \in Peers, Connected(p) PROVE BtTypeOK'
  BY <1>5 DEF Connected, BtInv, BtTypeOK, history
<1>6. CASE bt_security_changed
  <2>1. link.peer \in Peers
    BY <1>6 DEF bt_security_changed, BtInv, BtTypeOK
  <2>2. Bonded(link.peer) \in Seq(Peers) /\ Len(Bonded(link.peer)) <= MaxPaired
        /\ IsInjective(Bonded(link.peer))
    BY <2>1, BondedFacts DEF BtInv
  <2> QED BY <1>6, <2>2 DEF bt_security_changed, BtInv, BtTypeOK, history
<1>7. CASE Disconnected
  <2>1. /\ bonds_queue' \in Seq(Peers \cup {Anyone}) /\ Len(bonds_queue') <= MaxPaired
        /\ public_adv_requested' \in BOOLEAN /\ tried' \subseteq Peers \cup {Anyone}
    BY <1>7, AdvInitTypes DEF Disconnected, BtInv
  <2>2. /\ adv_work' = TRUE /\ current_client' = None /\ security_level' = "L1"
        /\ link' = NoLink /\ served' \in BOOLEAN /\ gone' = TRUE
        /\ UNCHANGED <<bonds, adv, sink, on, asked, failed>>
    BY <1>7 DEF Disconnected
  <2> QED BY <2>1, <2>2 DEF BtInv, BtTypeOK, NoLink
<1>8. CASE SinkChecks
  BY <1>8 DEF SinkChecks, BtInv, BtTypeOK, stack
<1>9. CASE transport_bt_send
  BY <1>9 DEF transport_bt_send, BtInv, BtTypeOK, stack
<1>10. CASE UNCHANGED btVars
  BY <1>10 DEF btVars, BtInv, BtTypeOK, stack, history
<1> QED BY <1>1, <1>2, <1>3, <1>4, <1>5, <1>6, <1>7, <1>8, <1>9, <1>10 DEF BtNext

\* The callbacks' variables follow the connection.
LEMMA LinkStep == BtInv /\ [BtNext]_btVars => LinkFollowed'
<1> SUFFICES ASSUME BtInv, [BtNext]_btVars PROVE LinkFollowed'
  OBVIOUS
<1>1. CASE transport_bt_init
  BY <1>1 DEF transport_bt_init, BtInv, stack, LinkFollowed
<1>2. CASE PowerOff
  BY <1>2 DEF PowerOff, NoLink, LinkFollowed
<1>3. CASE advertising_run
  BY <1>3 DEF advertising_run, BtInv, LinkFollowed
<1>4. CASE NotConnected
  BY <1>4 DEF NotConnected, BtInv, LinkFollowed
<1>5. ASSUME NEW p \in Peers, Connected(p) PROVE LinkFollowed'
  BY <1>5, BtAssumption DEF Connected, BtInv, NoLink, LinkFollowed, OneAtATime
<1>6. CASE bt_security_changed
  BY <1>6 DEF bt_security_changed, BtInv, BtTypeOK, LinkFollowed
<1>7. CASE Disconnected
  BY <1>7 DEF Disconnected, NoLink, LinkFollowed
<1>8. CASE SinkChecks
  BY <1>8 DEF SinkChecks, BtInv, stack, LinkFollowed
<1>9. CASE transport_bt_send
  BY <1>9 DEF transport_bt_send, BtInv, stack, LinkFollowed
<1>10. CASE UNCHANGED btVars
  BY <1>10 DEF btVars, BtInv, stack, LinkFollowed
<1> QED BY <1>1, <1>2, <1>3, <1>4, <1>5, <1>6, <1>7, <1>8, <1>9, <1>10 DEF BtNext

\* Advertising, its work and a connection exclude each other.
LEMMA OneStep == BtInv /\ [BtNext]_btVars => OneAtATime'
<1> SUFFICES ASSUME BtInv, [BtNext]_btVars PROVE OneAtATime'
  OBVIOUS
<1>1. CASE transport_bt_init
  BY <1>1 DEF transport_bt_init, BtInv, stack, OneAtATime
<1>2. CASE PowerOff
  BY <1>2 DEF PowerOff, OneAtATime
<1>3. CASE advertising_run
  BY <1>3 DEF advertising_run, BtInv, OneAtATime
<1>4. CASE NotConnected
  BY <1>4 DEF NotConnected, BtInv, OneAtATime
<1>5. ASSUME NEW p \in Peers, Connected(p) PROVE OneAtATime'
  BY <1>5, BtAssumption DEF Connected, BtInv, OneAtATime
<1>6. CASE bt_security_changed
  BY <1>6 DEF bt_security_changed, BtInv, NoLink, OneAtATime
<1>7. CASE Disconnected
  BY <1>7 DEF Disconnected, BtInv, NoLink, OneAtATime
<1>8. CASE SinkChecks
  BY <1>8 DEF SinkChecks, BtInv, stack, OneAtATime
<1>9. CASE transport_bt_send
  BY <1>9 DEF transport_bt_send, BtInv, stack, OneAtATime
<1>10. CASE UNCHANGED btVars
  BY <1>10 DEF btVars, BtInv, stack, history, OneAtATime
<1> QED BY <1>1, <1>2, <1>3, <1>4, <1>5, <1>6, <1>7, <1>8, <1>9, <1>10 DEF BtNext

\* A report goes to a secured connection.
LEMMA SecuredStep == BtInv /\ [BtNext]_btVars => SentIsSecured'
<1> SUFFICES ASSUME BtInv, [BtNext]_btVars PROVE SentIsSecured'
  OBVIOUS
<1>1. CASE transport_bt_init
  BY <1>1 DEF transport_bt_init, BtInv, stack, SentIsSecured
<1>2. CASE PowerOff
  BY <1>2 DEF PowerOff, SentIsSecured
<1>3. CASE advertising_run
  BY <1>3 DEF advertising_run, BtInv, SentIsSecured
<1>4. CASE NotConnected
  BY <1>4 DEF NotConnected, BtInv, SentIsSecured
<1>5. ASSUME NEW p \in Peers, Connected(p) PROVE SentIsSecured'
  BY <1>5, BtAssumption DEF Connected, BtInv, history, NoLink, OneAtATime, SentIsSecured
<1>6. CASE bt_security_changed
  BY <1>6 DEF bt_security_changed, BtInv, history, SentIsSecured
<1>7. CASE Disconnected
  BY <1>7 DEF Disconnected, SentIsSecured
<1>8. CASE SinkChecks
  BY <1>8 DEF SinkChecks, transport_bt_available, BtInv, stack, LinkFollowed, SentIsSecured
<1>9. CASE transport_bt_send
  BY <1>9 DEF transport_bt_send, SentIsSecured
<1>10. CASE UNCHANGED btVars
  BY <1>10 DEF btVars, BtInv, stack, history, SentIsSecured
<1> QED BY <1>1, <1>2, <1>3, <1>4, <1>5, <1>6, <1>7, <1>8, <1>9, <1>10 DEF BtNext

\* Everyone is invited only while that is asked for.
LEMMA PublicStep == BtInv /\ [BtNext]_btVars => PublicIsAsked'
<1> SUFFICES ASSUME BtInv, [BtNext]_btVars PROVE PublicIsAsked'
  OBVIOUS
<1>1. CASE transport_bt_init
  BY <1>1, AdvInitQueue
  DEF transport_bt_init, transport_bt_adv_init, BtInv, stack, OneAtATime, PublicIsAsked
<1>2. CASE PowerOff
  BY <1>2, EmptyFacts, BtAssumption DEF PowerOff, PublicIsAsked
<1>3. CASE advertising_run
  <2>1. CASE bonds_queue = <<>>
    BY <1>3, <2>1 DEF advertising_run, BtInv, PublicIsAsked
  <2>2. CASE bonds_queue # <<>>
    <3>1. ToSet(bonds_queue) = {Head(bonds_queue)} \cup ToSet(Tail(bonds_queue))
      BY <2>2, QueueFacts DEF BtInv, BtTypeOK
    <3> QED BY <1>3, <3>1 DEF advertising_run, BtInv, PublicIsAsked
  <2> QED BY <2>1, <2>2
<1>4. CASE NotConnected
  BY <1>4, BtAssumption DEF NotConnected, BtInv, PublicIsAsked
<1>5. ASSUME NEW p \in Peers, Connected(p) PROVE PublicIsAsked'
  BY <1>5, BtAssumption DEF Connected, BtInv, history, PublicIsAsked
<1>6. CASE bt_security_changed
  BY <1>6 DEF bt_security_changed, BtInv, history, PublicIsAsked
<1>7. CASE Disconnected
  <2>1. public_adv_requested' => public_adv_requested /\ ~ link.secured
    BY <1>7
    DEF Disconnected, transport_bt_adv_init, transport_bt_available, BtInv, LinkFollowed
  <2>2. Anyone \in ToSet(bonds_queue') => public_adv_requested'
    BY <1>7, AdvInitQueue DEF Disconnected, BtInv
  <2>3. adv' = None
    BY <1>7 DEF Disconnected, BtInv, OneAtATime, NoLink
  <2> QED BY <1>7, <2>1, <2>2, <2>3, BtAssumption DEF Disconnected, BtInv, PublicIsAsked
<1>8. CASE SinkChecks
  BY <1>8 DEF SinkChecks, BtInv, stack, PublicIsAsked
<1>9. CASE transport_bt_send
  BY <1>9 DEF transport_bt_send, BtInv, stack, PublicIsAsked
<1>10. CASE UNCHANGED btVars
  BY <1>10 DEF btVars, BtInv, stack, history, PublicIsAsked
<1> QED BY <1>1, <1>2, <1>3, <1>4, <1>5, <1>6, <1>7, <1>8, <1>9, <1>10 DEF BtNext

\* Public advertising goes on.
LEMMA PublicGoesOnStep == BtInv /\ [BtNext]_btVars => PublicGoesOn'
<1> SUFFICES ASSUME BtInv, [BtNext]_btVars PROVE PublicGoesOn'
  OBVIOUS
<1>1. CASE transport_bt_init
  BY <1>1 DEF transport_bt_init, transport_bt_adv_init, PublicGoesOn
<1>2. CASE PowerOff
  BY <1>2 DEF PowerOff, PublicGoesOn
<1>3. CASE advertising_run
  <2> SUFFICES ASSUME asked, ~ served, ~ failed', on PROVE adv' = Anyone /\ public_adv_requested'
    BY <1>3 DEF advertising_run, PublicGoesOn
  <2>1. ~ failed /\ public_adv_requested /\ adv = None /\ link = NoLink /\ bonds_queue = <<Anyone>>
    BY <1>3, BtAssumption DEF advertising_run, BtInv, OneAtATime, PublicGoesOn
  <2>2. Head(bonds_queue) = Anyone /\ bonds_queue # <<>>
    BY <2>1
  <2> QED BY <1>3, <2>1 DEF advertising_run
<1>4. CASE NotConnected
  BY <1>4 DEF NotConnected, BtInv, PublicGoesOn
<1>5. ASSUME NEW p \in Peers, Connected(p) PROVE PublicGoesOn'
  BY <1>5, BtAssumption DEF Connected, history, BtInv, PublicGoesOn, NoLink
<1>6. CASE bt_security_changed
  BY <1>6 DEF bt_security_changed, BtInv, history, NoLink, PublicGoesOn
<1>7. CASE Disconnected
  BY <1>7
  DEF Disconnected, transport_bt_adv_init, transport_bt_available, BtInv, LinkFollowed,
       PublicGoesOn
<1>8. CASE SinkChecks
  BY <1>8 DEF SinkChecks, BtInv, stack, PublicGoesOn
<1>9. CASE transport_bt_send
  BY <1>9 DEF transport_bt_send, BtInv, stack, PublicGoesOn
<1>10. CASE UNCHANGED btVars
  BY <1>10 DEF btVars, BtInv, stack, history, PublicGoesOn
<1> QED BY <1>1, <1>2, <1>3, <1>4, <1>5, <1>6, <1>7, <1>8, <1>9, <1>10 DEF BtNext

\* No bond is left out.
LEMMA BondsStep == BtInv /\ [BtNext]_btVars => BondsGoOn'
<1> SUFFICES ASSUME BtInv, [BtNext]_btVars PROVE BondsGoOn'
  OBVIOUS
<1>1. CASE transport_bt_init
  BY <1>1 DEF transport_bt_init, transport_bt_adv_init, BondsGoOn, Silent, stack
<1>2. CASE PowerOff
  BY <1>2 DEF PowerOff, BondsGoOn
<1>3. CASE advertising_run
  <2>1. CASE bonds_queue = <<>>
    BY <1>3, <2>1 DEF advertising_run, BtInv, BondsGoOn
  <2>2. CASE bonds_queue # <<>>
    <3>1. /\ ToSet(bonds_queue) = {Head(bonds_queue)} \cup ToSet(Tail(bonds_queue))
          /\ Head(bonds_queue) # None
      BY <2>2, QueueFacts, BtAssumption DEF BtInv, BtTypeOK
    <3>2. CASE failed'
      BY <3>2 DEF BondsGoOn
    <3>3. CASE ~ failed'
      <4>1. /\ adv' = Head(bonds_queue) /\ tried' = tried \cup {Head(bonds_queue)}
            /\ bonds_queue' = Tail(bonds_queue) /\ bonds' = bonds /\ ~ failed
            /\ UNCHANGED <<on, link, public_adv_requested>>
        BY <1>3, <2>2, <3>3 DEF advertising_run
      <4> QED BY <3>1, <4>1 DEF BtInv, BondsGoOn, Silent
    <3> QED BY <3>2, <3>3
  <2> QED BY <2>1, <2>2
<1>4. CASE NotConnected
  BY <1>4 DEF NotConnected, BtInv, BondsGoOn, Silent
<1>5. ASSUME NEW p \in Peers, Connected(p) PROVE BondsGoOn'
  BY <1>5, BtAssumption DEF Connected, BondsGoOn, NoLink
<1>6. CASE bt_security_changed
  BY <1>6 DEF bt_security_changed, BondsGoOn, NoLink
<1>7. CASE Disconnected
  BY <1>7 DEF Disconnected, transport_bt_adv_init, BondsGoOn, Silent
<1>8. CASE SinkChecks
  BY <1>8
  DEF SinkChecks, transport_bt_available, BtInv, stack, NoLink, LinkFollowed, BondsGoOn
<1>9. CASE transport_bt_send
  BY <1>9 DEF transport_bt_send, BtInv, stack, BondsGoOn, Silent
<1>10. CASE UNCHANGED btVars
  BY <1>10 DEF btVars, BtInv, stack, history, BondsGoOn, Silent
<1> QED BY <1>1, <1>2, <1>3, <1>4, <1>5, <1>6, <1>7, <1>8, <1>9, <1>10 DEF BtNext

\* The mouse is off at first, with no bonds.
LEMMA BtInitially == BtInit => BtInv
<1> SUFFICES ASSUME BtInit PROVE BtInv
  OBVIOUS
<1>1. BtTypeOK
  <2>1. /\ <<>> \in Seq(Peers \cup {Anyone}) /\ Len(<<>>) <= MaxPaired
        /\ <<>> \in Seq(Peers) /\ IsInjective(<<>>)
    BY BtAssumption DEF IsInjective
  <2>2. NoLink \in [peer : Peers \cup {None}, secured : BOOLEAN]
    BY DEF NoLink
  <2> QED BY <2>1, <2>2 DEF BtInit, BtTypeOK
<1> QED
  BY <1>1, EmptyFacts, BtAssumption
  DEF BtInit, BtInv, NoLink, LinkFollowed, OneAtATime, SentIsSecured, PublicIsAsked,
      PublicGoesOn, BondsGoOn

\* The invariant is inductive.
LEMMA BtInvariance == BtSpec => []BtInv
<1>1. BtInv /\ [BtNext]_btVars => BtInv'
  BY TypeStep, LinkStep, OneStep, SecuredStep, PublicStep, PublicGoesOnStep, BondsStep
  DEF BtInv
<1> QED BY <1>1, BtInitially, PTL DEF BtSpec
-------------------------------------------------------------------------------
\* available(), the report that is sent and advertising go by the connection there
\* is now: a new one starts unsecured, and nothing is advertised meanwhile.
THEOREM ConnectionFollowed == BtSpec => []ConnectionRight
<1>1. BtInv => ConnectionRight
  BY DEF BtInv, LinkFollowed, OneAtATime, ConnectionRight, AvailableIsSecured,
         AdvertisesAlone, transport_bt_available
<1> QED BY <1>1, BtInvariance, PTL

\* A mouse started for everyone stays findable until a connection has ended
\* secured, invites everyone never again after that, and falls silent only when
\* each of its bonds has been advertised to.
THEOREM InvitationsRight == BtSpec => []InvitesRight
<1>1. ASSUME BtInv PROVE InvitesRight
  <2>1. PublicStaysReachable
    BY <1>1, BtAssumption DEF BtInv, PublicGoesOn, PublicStaysReachable, Silent
  <2>2. SilentAfterAllBonds
    <3> SUFFICES ASSUME Silent, ~ failed PROVE ToSet(bonds) \subseteq tried
      BY DEF SilentAfterAllBonds
    <3>1. ~ public_adv_requested
      BY <1>1, <2>1 DEF BtInv, PublicIsAsked, PublicStaysReachable, Silent
    <3> QED BY <1>1, <3>1, EmptyFacts DEF BtInv, BondsGoOn, Silent
  <2>3. PublicUntilServed
    BY <1>1 DEF BtInv, PublicIsAsked, PublicUntilServed
  <2> QED BY <2>1, <2>2, <2>3 DEF InvitesRight
<1> QED BY <1>1, BtInvariance, PTL
-------------------------------------------------------------------------------
\* The cable.

\* Types, of all but what only the files to be flashed decide.
ChipTypes == /\ plugged \in BOOLEAN /\ code \in {"off", "app", "boot", "hung", "leaving"}
             /\ key \in BOOLEAN /\ spe \in BOOLEAN /\ room \in BOOLEAN /\ lost \in BOOLEAN
             /\ usb \in {"off", "init", "attached", "configured"}
             /\ desc \in 0..2 /\ buf \in 0..2
CommTypes == /\ place \in {"poll", "react", "mismatch"} \cup DOMAIN Command
             /\ data \in BOOLEAN /\ csHigh \in BOOLEAN /\ left \in BOOLEAN
ToolTypes == /\ elf \in Elfs \cup {<<>>} /\ {listed, comm} \subseteq {NoDevice, "app", "boot"}
             /\ tool \in {"idle", "mode", "wait", "send"}
             /\ goal \in {"app", "boot", "flash"} /\ alive \in BOOLEAN /\ switched \in BOOLEAN
TypesOK   == ChipTypes /\ CommTypes /\ ToolTypes

\* The AVR lives on the cable, CS is high unless the nRF waits for an AVR, and the
\* nRF transfers data only as part of a command.
PowerAndCs == /\ ~ plugged => code = "off" /\ ~ spe
              /\ csHigh <=> place # "poll"
              /\ data => place \in DOMAIN Command

\* An application that is, or is about to be, on USB has the whole report map.
MapSent == code = "app" /\ ~ lost =>
               /\ usb # "off" \/ place = "enable" => desc = 2
               /\ place = "descriptor" /\ data /\ ~ room => desc = 2

\* Nothing but the nRF's enable_usb brings the AVR out of the application it
\* starts with.
EnabledOnce == ~ left /\ place \notin {"report", "check"} =>
                   usb = "off" /\ code \in {"off", "app"} /\ flash \in Images

\* A handle that is alive is of the device that the host has in its list.
HandleFresh == alive => listed = Visible /\ Visible # NoDevice

\* hidcli between its commands, and after a change of the mode.
ToolRight == /\ tool = "idle" => ~ switched
             /\ tool = "mode" /\ switched => comm = Wanted
             /\ tool = "send" => goal = "flash"
             /\ tool # "idle" /\ goal = "flash" => elf \in Elfs /\ Readable(elf)

\* An application that hidcli has started is not put on USB by anybody.
StaysOffUsb == ~ left /\ switched /\ goal = "app" =>
                   /\ usb = "off" \/ code = "boot"
                   /\ listed # "app" /\ comm # "app" /\ place \in {"report", "check"}

\* A page is erased by the tool that is about to write it, and is not the
\* bootloader's.
PageInHand == /\ BootloaderKept /\ DOMAIN flash = Pages
              /\ erased # NoPage =>
                     /\ code = "boot" /\ usb = "configured" /\ tool = "send" /\ alive
                     /\ next # {} /\ erased = First /\ erased \in Pages /\ erased < BootPage

\* The pages yet to be sent are the file's.
PagesKnown == next # {} => tool = "send" /\ next \subseteq DOMAIN read_flash_data(elf)

\* The pages of the file that have been sent to a device that is still there, or
\* all of them, are in the flash.
PagesSent == tool = "send" /\ (alive \/ next = {}) =>
                 \A p \in (Pages \cap DOMAIN read_flash_data(elf)) \ next :
                     p # erased => flash[p] = read_flash_data(elf)[p]

HidcliInv == /\ TypesOK /\ PowerAndCs /\ MapSent /\ EnabledOnce /\ HandleFresh /\ ToolRight
             /\ StaysOffUsb /\ SensorAlone /\ PageInHand /\ PagesKnown /\ PagesSent
-------------------------------------------------------------------------------
\* A command that arrives, n telling no byte, some or all.
LEMMA TransactionFacts ==
    ASSUME ChipTypes, NEW cmd, NEW n \in 0..2, ProcessTransaction(cmd, n)
    PROVE  /\ ChipTypes' /\ Answers
           /\ UNCHANGED <<plugged, code, key, spe, flash, erased>>
           /\ lost \/ n < 2 => lost'
           /\ usb' # usb => cmd = "enable_usb" /\ usb' = "init"
           /\ desc' # desc => cmd = "set_descriptor" /\ Unattached
           /\ n = 2 /\ cmd = "set_descriptor" => desc' = IF room /\ Unattached THEN 2 ELSE desc
<1> DEFINE got == IF room THEN n ELSE 0
<1>1. got \in 0..2
  OBVIOUS
<1>2. /\ buf'  = IF cmd = "set_descriptor" /\ got > 0 THEN got ELSE buf
      /\ desc' = IF cmd = "set_descriptor" /\ got > 0 /\ Unattached THEN got ELSE desc
      /\ usb'  = IF cmd = "enable_usb" /\ got > 0 THEN "init" ELSE usb
  BY DEF ProcessTransaction
<1>3. lost' \in BOOLEAN /\ (lost \/ n < 2 => lost')
  BY DEF ProcessTransaction
<1>4. Answers /\ room' = FALSE /\ UNCHANGED <<plugged, code, key, spe, flash, erased>>
  BY DEF ProcessTransaction
<1>5. n = 2 => got = IF room THEN 2 ELSE 0
  OBVIOUS
<1> HIDE DEF got
<1>6. desc' \in 0..2 /\ buf' \in 0..2 /\ usb' \in {"off", "init", "attached", "configured"}
  BY <1>1, <1>2 DEF ChipTypes
<1>7. ChipTypes'
  BY <1>3, <1>4, <1>6 DEF ChipTypes
<1>8. n = 2 /\ cmd = "set_descriptor" => desc' = IF room /\ Unattached THEN 2 ELSE desc
  BY <1>2, <1>5
<1> QED BY <1>2, <1>3, <1>4, <1>7, <1>8

\* The page to be sent is that of the pages left.
LEMMA FirstStays == UNCHANGED next => First' = First
BY DEF First

\* A change of a page below the bootloader leaves the bootloader alone.
LEMMA PageChange ==
    ASSUME DOMAIN flash = Pages, BootloaderKept, NEW p \in Pages, p < BootPage, NEW content,
           flash' = [flash EXCEPT ![p] = content]
    PROVE  DOMAIN flash' = Pages /\ BootloaderKept'
<1>1. PICK image \in Images : \A q \in Pages : q >= BootPage => flash[q] = image[q]
  BY DEF BootloaderKept
<1>2. \A q \in Pages : q >= BootPage => q # p /\ flash'[q] = flash[q]
  BY ChipAssumption DEF Pages
<1> QED BY <1>2 DEF BootloaderKept

\* Nothing but a page that is erased and a page that is written changes the flash.
LEMMA FlashSteps == [Next]_vars => UNCHANGED flash \/ PageErase(First) \/ PageDone
BY DEF Next, Chip, ChipRuns, Plug, Unplug, HostStallsApp, Watchdog, Attach, Configured,
       EnableSpi, Nrf, Handshake, PrepareResponse, HandshakeLost, MissHandshake, Data,
       ProcessTransaction, NrfRestart, SpiStalls, HostNotices, ToolOnChip, ChangeMode,
       EnterBootloader, StartApplication, SendPage, chipVars, vars

\* The AVR's variables keep their types through a power loss, a reset and a command
\* that comes in part.
LEMMA ChipTypeStep == HidcliInv /\ [Next]_vars => ChipTypes'
<1> SUFFICES ASSUME HidcliInv, [Next]_vars PROVE ChipTypes'
  OBVIOUS
<1>1. CASE Chip /\ HandleFollows /\ Keep /\ UNCHANGED commVars
  <2>1. CASE Plug(Searching)
    <3>1. {plugged', key', spe', room', lost'} \subseteq BOOLEAN
      BY <2>1, Zenon DEF Plug, StartApp, ResetRegisters
    <3>2. /\ code' \in {"off", "app", "boot", "hung", "leaving"} /\ desc' \in 0..2 /\ buf' \in 0..2
          /\ usb' \in {"off", "init", "attached", "configured"}
      BY <2>1 DEF Plug, StartApp, ResetRegisters
    <3> QED BY <3>1, <3>2 DEF ChipTypes
  <2>2. CASE Unplug
    <3>1. {plugged', key', spe', room', lost'} \subseteq BOOLEAN
      BY <2>2, Zenon DEF Unplug, ResetRegisters, HidcliInv, TypesOK, ChipTypes
    <3>2. /\ code' \in {"off", "app", "boot", "hung", "leaving"} /\ desc' \in 0..2 /\ buf' \in 0..2
          /\ usb' \in {"off", "init", "attached", "configured"}
      BY <2>2 DEF Unplug, ResetRegisters
    <3> QED BY <3>1, <3>2 DEF ChipTypes
  <2>3. CASE HostStallsApp
    BY <2>3 DEF HostStallsApp, HidcliInv, TypesOK, ChipTypes
  <2>4. CASE Watchdog(Searching)
    <3>1. {plugged', key', spe', room'} \subseteq BOOLEAN
      BY <2>4, Zenon DEF Watchdog, ResetRegisters, HidcliInv, TypesOK, ChipTypes
    <3>2. lost' \in BOOLEAN
      BY <2>4, Zenon DEF Watchdog, StartApp
    <3>3. /\ code' \in {"off", "app", "boot", "hung", "leaving"} /\ desc' \in 0..2 /\ buf' \in 0..2
          /\ usb' \in {"off", "init", "attached", "configured"}
      BY <2>4 DEF Watchdog, StartApp, ResetRegisters
    <3> QED BY <3>1, <3>2, <3>3 DEF ChipTypes
  <2>5. CASE Attach
    BY <2>5 DEF Attach, HidcliInv, TypesOK, ChipTypes
  <2>6. CASE Configured
    BY <2>6 DEF Configured, HidcliInv, TypesOK, ChipTypes
  <2>7. CASE EnableSpi(csHigh /\ ~ data)
    BY <2>7 DEF EnableSpi, HidcliInv, TypesOK, ChipTypes
  <2> QED BY <1>1, <2>1, <2>2, <2>3, <2>4, <2>5, <2>6, <2>7 DEF Chip, ChipRuns
<1>2. CASE Nrf /\ HandleFollows /\ Keep
  <2>1. CASE Poll /\ UNCHANGED chipVars
    BY <2>1 DEF chipVars, HidcliInv, TypesOK, ChipTypes
  <2>2. CASE React /\ UNCHANGED chipVars
    BY <2>2 DEF chipVars, HidcliInv, TypesOK, ChipTypes
  <2>3. CASE Released /\ UNCHANGED chipVars
    BY <2>3 DEF chipVars, HidcliInv, TypesOK, ChipTypes
  <2>4. CASE Handshake
    <3> DEFINE cmd == Command[place]
    <3>0. room' = CASE cmd = "set_descriptor" -> Unattached
                    [] cmd = "read_id"        -> FALSE
                    [] OTHER                  -> TRUE
      BY <2>4 DEF Handshake, PrepareResponse
    <3> HIDE DEF cmd
    <3>1. room' \in BOOLEAN
      <4>1. CASE cmd = "set_descriptor"
        BY <3>0, <4>1 DEF Unattached
      <4>2. CASE cmd = "read_id"
        BY <3>0, <4>2
      <4>3. CASE cmd \notin {"set_descriptor", "read_id"}
        BY <3>0, <4>3
      <4> QED BY <4>1, <4>2, <4>3
    <3> QED BY <2>4, <3>1 DEF Handshake, PrepareResponse, HidcliInv, TypesOK, ChipTypes
  <2>5. CASE HandshakeLost
    BY <2>5 DEF HandshakeLost, MissHandshake, HidcliInv, TypesOK, ChipTypes
  <2>6. CASE Data
    <3>1. ASSUME NEW n \in 0..2, ProcessTransaction(Command[place], n) PROVE ChipTypes'
      BY <3>1, TransactionFacts DEF HidcliInv, TypesOK
    <3>2. CASE MissHandshake
      BY <3>2 DEF MissHandshake, HidcliInv, TypesOK, ChipTypes
    <3> QED BY <2>6, <3>1, <3>2 DEF Data
  <2> QED BY <1>2, <2>1, <2>2, <2>3, <2>4, <2>5, <2>6 DEF Nrf
<1>3. CASE NrfRestart /\ HandleFollows /\ Keep
  <2>1. ASSUME NEW n \in 0..2, ProcessTransaction(Command[place], n) PROVE ChipTypes'
    BY <2>1, TransactionFacts DEF HidcliInv, TypesOK
  <2>2. CASE SpiStalls
    BY <2>2 DEF SpiStalls, HidcliInv, TypesOK, ChipTypes
  <2>3. CASE UNCHANGED chipVars
    BY <2>3 DEF chipVars, HidcliInv, TypesOK, ChipTypes
  <2> QED BY <1>3, <2>1, <2>2, <2>3 DEF NrfRestart
<1>4. CASE HostNotices
  BY <1>4 DEF HostNotices, chipVars, HidcliInv, TypesOK, ChipTypes
<1>5. CASE ToolAlone /\ UNCHANGED <<chipVars, commVars>>
  <2>1. ASSUME NEW g \in {"app", "boot", "flash"}, Run(g) PROVE ChipTypes'
    BY <1>5 DEF chipVars, HidcliInv, TypesOK, ChipTypes
  <2>2. CASE InMode \/ Found \/ GiveUp \/ PageFails \/ AllSent
    BY <1>5 DEF chipVars, HidcliInv, TypesOK, ChipTypes
  <2> QED BY <1>5, <2>1, <2>2 DEF ToolAlone
<1>6. CASE ToolOnChip /\ UNCHANGED commVars
  <2>1. CASE ChangeMode
    BY <2>1
    DEF ChangeMode, EnterBootloader, StartApplication, chipVars, HidcliInv, TypesOK,
        ChipTypes
  <2>2. CASE SendPage
    BY <2>2 DEF SendPage, PageErase, chipVars, HidcliInv, TypesOK, ChipTypes
  <2>3. CASE PageDone
    BY <2>3 DEF PageDone, PageWrite, HidcliInv, TypesOK, ChipTypes
  <2> QED BY <1>6, <2>1, <2>2, <2>3 DEF ToolOnChip
<1>7. CASE UNCHANGED vars
  BY <1>7 DEF vars, chipVars, HidcliInv, TypesOK, ChipTypes
<1> QED BY <1>1, <1>2, <1>3, <1>4, <1>5, <1>6, <1>7 DEF Next

\* So do those of the nRF's thread, wherever it is in its table of commands.
LEMMA CommTypeStep == HidcliInv /\ [Next]_vars => CommTypes'
<1> SUFFICES ASSUME HidcliInv, [Next]_vars PROVE CommTypes'
  OBVIOUS
<1>1. CASE Chip /\ HandleFollows /\ Keep /\ UNCHANGED commVars
  BY <1>1 DEF commVars, HidcliInv, TypesOK, CommTypes
<1>2. CASE Nrf /\ HandleFollows /\ Keep
  <2>1. CASE Poll /\ UNCHANGED chipVars
    BY <2>1 DEF Poll, HidcliInv, TypesOK, CommTypes
  <2>2. CASE React /\ UNCHANGED chipVars
    BY <2>2 DEF React, HidcliInv, TypesOK, CommTypes, Command
  <2>3. CASE Released /\ UNCHANGED chipVars
    BY <2>3 DEF Released, HidcliInv, TypesOK, CommTypes
  <2>4. CASE Handshake
    BY <2>4 DEF Handshake, HidcliInv, TypesOK, CommTypes
  <2>5. CASE HandshakeLost
    BY <2>5 DEF HandshakeLost, GoOn, After, CommTypes, Command
  <2>6. CASE Data
    BY <2>6 DEF Data, GoOn, After, CommTypes, Command
  <2> QED BY <1>2, <2>1, <2>2, <2>3, <2>4, <2>5, <2>6 DEF Nrf
<1>3. CASE NrfRestart /\ HandleFollows /\ Keep
  BY <1>3 DEF NrfRestart, CommTypes
<1>4. CASE HostNotices
  BY <1>4 DEF HostNotices, commVars, HidcliInv, TypesOK, CommTypes
<1>5. CASE ToolAlone /\ UNCHANGED <<chipVars, commVars>>
  <2>1. ASSUME NEW g \in {"app", "boot", "flash"}, Run(g) PROVE CommTypes'
    BY <1>5 DEF commVars, HidcliInv, TypesOK, CommTypes
  <2>2. CASE InMode \/ Found \/ GiveUp \/ PageFails \/ AllSent
    BY <1>5 DEF commVars, HidcliInv, TypesOK, CommTypes
  <2> QED BY <1>5, <2>1, <2>2 DEF ToolAlone
<1>6. CASE ToolOnChip /\ UNCHANGED commVars
  <2>1. CASE ChangeMode
    BY <1>6 DEF commVars, HidcliInv, TypesOK, CommTypes
  <2>2. CASE SendPage
    BY <1>6 DEF commVars, HidcliInv, TypesOK, CommTypes
  <2>3. CASE PageDone
    BY <1>6 DEF commVars, HidcliInv, TypesOK, CommTypes
  <2> QED BY <1>6, <2>1, <2>2, <2>3 DEF ToolOnChip
<1>7. CASE UNCHANGED vars
  BY <1>7 DEF vars, commVars, HidcliInv, TypesOK, CommTypes
<1> QED BY <1>1, <1>2, <1>3, <1>4, <1>5, <1>6, <1>7 DEF Next

\* So do hidcli's, whatever the device does meanwhile.
LEMMA ToolTypeStep == HidcliInv /\ [Next]_vars => ToolTypes'
<1> SUFFICES ASSUME HidcliInv, [Next]_vars PROVE ToolTypes'
  OBVIOUS
<1>1. CASE Chip /\ HandleFollows /\ Keep /\ UNCHANGED commVars
  BY <1>1 DEF HandleFollows, Keep, HidcliInv, TypesOK, ToolTypes
<1>2. CASE Nrf /\ HandleFollows /\ Keep
  <2>1. CASE Poll /\ UNCHANGED chipVars
    BY <1>2 DEF HandleFollows, Keep, HidcliInv, TypesOK, ToolTypes
  <2>2. CASE React /\ UNCHANGED chipVars
    BY <1>2 DEF HandleFollows, Keep, HidcliInv, TypesOK, ToolTypes
  <2>3. CASE Released /\ UNCHANGED chipVars
    BY <1>2 DEF HandleFollows, Keep, HidcliInv, TypesOK, ToolTypes
  <2>4. CASE Handshake
    BY <1>2 DEF HandleFollows, Keep, HidcliInv, TypesOK, ToolTypes
  <2>5. CASE HandshakeLost
    BY <1>2 DEF HandleFollows, Keep, HidcliInv, TypesOK, ToolTypes
  <2>6. CASE Data
    BY <1>2 DEF HandleFollows, Keep, HidcliInv, TypesOK, ToolTypes
  <2> QED BY <1>2, <2>1, <2>2, <2>3, <2>4, <2>5, <2>6 DEF Nrf
<1>3. CASE NrfRestart /\ HandleFollows /\ Keep
  BY <1>3 DEF HandleFollows, Keep, HidcliInv, TypesOK, ToolTypes
<1>4. CASE HostNotices
  BY <1>4 DEF HostNotices, HidcliInv, TypesOK, ToolTypes, Visible
<1>5. CASE ToolAlone /\ UNCHANGED <<chipVars, commVars>>
  <2>1. ASSUME NEW g \in {"app", "boot", "flash"}, Run(g) PROVE ToolTypes'
    BY <2>1 DEF Run, HidcliInv, TypesOK, ToolTypes
  <2>2. CASE InMode \/ Found \/ GiveUp \/ PageFails \/ AllSent
    BY <2>2
    DEF InMode, Found, GiveUp, PageFails, AllSent, Back, HidcliInv, TypesOK, ToolTypes
  <2> QED BY <1>5, <2>1, <2>2 DEF ToolAlone
<1>6. CASE ToolOnChip /\ UNCHANGED commVars
  <2>1. CASE ChangeMode
    BY <2>1 DEF ChangeMode, Back, HidcliInv, TypesOK, ToolTypes
  <2>2. CASE SendPage
    BY <2>2 DEF SendPage, Back, HidcliInv, TypesOK, ToolTypes
  <2>3. CASE PageDone
    BY <2>3 DEF PageDone, HidcliInv, TypesOK, ToolTypes
  <2> QED BY <1>6, <2>1, <2>2, <2>3 DEF ToolOnChip
<1>7. CASE UNCHANGED vars
  BY <1>7 DEF vars, toolVars, HidcliInv, TypesOK, ToolTypes
<1> QED BY <1>1, <1>2, <1>3, <1>4, <1>5, <1>6, <1>7 DEF Next

\* CS is low for as long as the nRF polls, and an unplugged AVR runs nothing.
LEMMA PowerStep == HidcliInv /\ [Next]_vars => PowerAndCs'
<1> SUFFICES ASSUME HidcliInv, [Next]_vars PROVE PowerAndCs'
  OBVIOUS
<1>1. CASE Chip /\ HandleFollows /\ Keep /\ UNCHANGED commVars
  BY <1>1
  DEF Chip, ChipRuns, Plug, Unplug, HostStallsApp, Watchdog, Attach, Configured,
      EnableSpi, ResetRegisters, commVars, HidcliInv, PowerAndCs
<1>2. CASE Nrf /\ HandleFollows /\ Keep
  <2>1. CASE Poll /\ UNCHANGED chipVars
    BY <2>1 DEF Poll, chipVars, HidcliInv, Command, PowerAndCs
  <2>2. CASE React /\ UNCHANGED chipVars
    BY <2>2 DEF React, chipVars, HidcliInv, Command, PowerAndCs
  <2>3. CASE Released /\ UNCHANGED chipVars
    BY <2>3 DEF Released, chipVars, HidcliInv, Command, PowerAndCs
  <2>4. CASE Handshake
    BY <2>4 DEF Handshake, PrepareResponse, HidcliInv, PowerAndCs
  <2>5. CASE HandshakeLost
    BY <2>5 DEF HandshakeLost, MissHandshake, GoOn, HidcliInv, PowerAndCs
  <2>6. CASE Data
    <3>1. UNCHANGED <<plugged, code, spe>>
      BY <2>6 DEF Data, ProcessTransaction, MissHandshake
    <3>2. csHigh' <=> place' # "poll"
      BY <2>6 DEF Data, GoOn
    <3>3. data' = FALSE
      BY <2>6 DEF Data, GoOn
    <3> QED BY <3>1, <3>2, <3>3 DEF HidcliInv, PowerAndCs
  <2> QED BY <1>2, <2>1, <2>2, <2>3, <2>4, <2>5, <2>6 DEF Nrf
<1>3. CASE NrfRestart /\ HandleFollows /\ Keep
  BY <1>3
  DEF NrfRestart, SpiStalls, ProcessTransaction, Answers, chipVars, HidcliInv,
      PowerAndCs
<1>4. CASE HostNotices
  BY <1>4 DEF HostNotices, chipVars, commVars, HidcliInv, PowerAndCs
<1>5. CASE ToolAlone /\ UNCHANGED <<chipVars, commVars>>
  <2>1. ASSUME NEW g \in {"app", "boot", "flash"}, Run(g) PROVE PowerAndCs'
    BY <1>5 DEF chipVars, commVars, HidcliInv, PowerAndCs
  <2>2. CASE InMode \/ Found \/ GiveUp \/ PageFails \/ AllSent
    BY <1>5 DEF chipVars, commVars, HidcliInv, PowerAndCs
  <2> QED BY <1>5, <2>1, <2>2 DEF ToolAlone
<1>6. CASE ToolOnChip /\ UNCHANGED commVars
  <2>1. CASE ChangeMode
    BY <1>6, <2>1
    DEF ChangeMode, EnterBootloader, StartApplication, chipVars, commVars, HidcliInv,
        PowerAndCs
  <2>2. CASE SendPage
    BY <1>6, <2>2 DEF SendPage, PageErase, chipVars, commVars, HidcliInv, PowerAndCs
  <2>3. CASE PageDone
    BY <1>6, <2>3 DEF PageDone, PageWrite, commVars, HidcliInv, PowerAndCs
  <2> QED BY <1>6, <2>1, <2>2, <2>3 DEF ToolOnChip
<1>7. CASE UNCHANGED vars
  BY <1>7 DEF vars, chipVars, commVars, HidcliInv, PowerAndCs
<1> QED BY <1>1, <1>2, <1>3, <1>4, <1>5, <1>6, <1>7 DEF Next

\* Nothing but the last block of the report map fills it, and only that is followed
\* by enable_usb.
LEMMA MapStep == HidcliInv /\ [Next]_vars => MapSent'
<1> SUFFICES ASSUME HidcliInv, [Next]_vars PROVE MapSent'
  OBVIOUS
<1>1. CASE Chip /\ HandleFollows /\ Keep /\ UNCHANGED commVars
  BY <1>1
  DEF Chip, ChipRuns, Plug, Unplug, HostStallsApp, Watchdog, Attach, Configured,
      EnableSpi, StartApp, HandleFollows, Keep, commVars, Searching, HidcliInv, MapSent
<1>2. CASE Nrf /\ HandleFollows /\ Keep
  <2>1. CASE Poll /\ UNCHANGED chipVars
    BY <2>1 DEF Poll, chipVars, HidcliInv, MapSent
  <2>2. CASE React /\ UNCHANGED chipVars
    BY <2>2 DEF React, chipVars, HidcliInv, MapSent
  <2>3. CASE Released /\ UNCHANGED chipVars
    BY <2>3 DEF Released, chipVars, HidcliInv, MapSent
  <2>4. CASE Handshake
    BY <2>4
    DEF Handshake, PrepareResponse, Unattached, HidcliInv, TypesOK, ChipTypes, Command,
        PowerAndCs, MapSent
  <2>5. CASE HandshakeLost
    BY <2>5 DEF HandshakeLost, MissHandshake, MapSent
  <2>6. CASE Data
    BY <2>6
    DEF Data, ProcessTransaction, GoOn, After, MissHandshake, Unattached, HidcliInv,
        TypesOK, ChipTypes, Command, MapSent
  <2> QED BY <1>2, <2>1, <2>2, <2>3, <2>4, <2>5, <2>6 DEF Nrf
<1>3. CASE NrfRestart /\ HandleFollows /\ Keep
  <2>1. place' = "poll"
    BY <1>3 DEF NrfRestart
  <2>2. ASSUME NEW n \in 0..2, data, ProcessTransaction(Command[place], n) PROVE MapSent'
    <3>1. /\ code' = code /\ (lost \/ n < 2 => lost')
          /\ usb' # usb => Command[place] = "enable_usb"
          /\ desc' # desc => Command[place] = "set_descriptor" /\ Unattached
          /\ n = 2 /\ Command[place] = "set_descriptor" =>
                 desc' = IF room /\ Unattached THEN 2 ELSE desc
      BY <2>2, TransactionFacts DEF HidcliInv, TypesOK
    <3>2. /\ Command[place] = "enable_usb" => place = "enable"
          /\ Command[place] = "set_descriptor" => place = "descriptor"
      BY <2>2 DEF HidcliInv, PowerAndCs, Command
    <3> QED BY <2>1, <3>1, <3>2 DEF HidcliInv, MapSent
  <2>3. CASE SpiStalls
    BY <2>3 DEF SpiStalls, MapSent
  <2>4. CASE UNCHANGED chipVars
    BY <2>1, <2>4 DEF chipVars, HidcliInv, MapSent
  <2> QED BY <1>3, <2>2, <2>3, <2>4 DEF NrfRestart
<1>4. CASE HostNotices
  BY <1>4 DEF HostNotices, chipVars, commVars, HidcliInv, MapSent
<1>5. CASE ToolAlone /\ UNCHANGED <<chipVars, commVars>>
  <2>1. ASSUME NEW g \in {"app", "boot", "flash"}, Run(g) PROVE MapSent'
    BY <1>5 DEF chipVars, commVars, HidcliInv, MapSent
  <2>2. CASE InMode \/ Found \/ GiveUp \/ PageFails \/ AllSent
    BY <1>5 DEF chipVars, commVars, HidcliInv, MapSent
  <2> QED BY <1>5, <2>1, <2>2 DEF ToolAlone
<1>6. CASE ToolOnChip /\ UNCHANGED commVars
  <2>1. CASE ChangeMode
    BY <1>6, <2>1
    DEF ChangeMode, EnterBootloader, StartApplication, chipVars, commVars, HidcliInv,
        MapSent
  <2>2. CASE SendPage
    BY <1>6, <2>2 DEF SendPage, PageErase, chipVars, commVars, HidcliInv, MapSent
  <2>3. CASE PageDone
    BY <2>3 DEF PageDone, PageWrite, MapSent
  <2> QED BY <1>6, <2>1, <2>2, <2>3 DEF ToolOnChip
<1>7. CASE UNCHANGED vars
  BY <1>7 DEF vars, chipVars, commVars, HidcliInv, MapSent
<1> QED BY <1>1, <1>2, <1>3, <1>4, <1>5, <1>6, <1>7 DEF Next

\* Until the nRF has enabled USB nobody else has put the AVR on it.
LEMMA EnabledStep == HidcliInv /\ [Next]_vars => EnabledOnce'
<1> SUFFICES ASSUME HidcliInv, [Next]_vars PROVE EnabledOnce'
  OBVIOUS
<1>1. CASE Chip /\ HandleFollows /\ Keep /\ UNCHANGED commVars
  BY <1>1
  DEF Chip, ChipRuns, Plug, Unplug, HostStallsApp, Watchdog, Attach, Configured,
      EnableSpi, StartApp, commVars, HidcliInv, EnabledOnce
<1>2. CASE Nrf /\ HandleFollows /\ Keep
  <2>1. CASE Poll /\ UNCHANGED chipVars
    BY <2>1 DEF Poll, chipVars, HidcliInv, EnabledOnce
  <2>2. CASE React /\ UNCHANGED chipVars
    BY <2>2 DEF React, chipVars, HidcliInv, EnabledOnce
  <2>3. CASE Released /\ UNCHANGED chipVars
    BY <2>3 DEF Released, chipVars, HidcliInv, EnabledOnce
  <2>4. CASE Handshake
    BY <2>4 DEF Handshake, PrepareResponse, HidcliInv, EnabledOnce
  <2>5. CASE HandshakeLost
    BY <2>5 DEF HandshakeLost, MissHandshake, GoOn, After, HidcliInv, EnabledOnce
  <2>6. CASE Data
    BY <2>6
    DEF Data, ProcessTransaction, GoOn, After, MissHandshake, HidcliInv, TypesOK,
        CommTypes, Command, PowerAndCs, EnabledOnce
  <2> QED BY <1>2, <2>1, <2>2, <2>3, <2>4, <2>5, <2>6 DEF Nrf
<1>3. CASE NrfRestart /\ HandleFollows /\ Keep
  BY <1>3 DEF NrfRestart, EnabledOnce
<1>4. CASE HostNotices
  BY <1>4 DEF HostNotices, chipVars, commVars, HidcliInv, EnabledOnce
<1>5. CASE ToolAlone /\ UNCHANGED <<chipVars, commVars>>
  <2>1. ASSUME NEW g \in {"app", "boot", "flash"}, Run(g) PROVE EnabledOnce'
    BY <1>5 DEF chipVars, commVars, HidcliInv, EnabledOnce
  <2>2. CASE InMode \/ Found \/ GiveUp \/ PageFails \/ AllSent
    BY <1>5 DEF chipVars, commVars, HidcliInv, EnabledOnce
  <2> QED BY <1>5, <2>1, <2>2 DEF ToolAlone
<1>6. CASE ToolOnChip /\ UNCHANGED commVars
  <2>1. CASE ChangeMode
    BY <1>6, <2>1
    DEF ChangeMode, EnterBootloader, StartApplication, chipVars, commVars, HidcliInv,
        EnabledOnce
  <2>2. CASE SendPage
    BY <1>6, <2>2 DEF SendPage, PageErase, chipVars, commVars, HidcliInv, EnabledOnce
  <2>3. CASE PageDone
    BY <1>6, <2>3 DEF PageDone, PageWrite, commVars, HidcliInv, EnabledOnce
  <2> QED BY <1>6, <2>1, <2>2, <2>3 DEF ToolOnChip
<1>7. CASE UNCHANGED vars
  BY <1>7 DEF vars, chipVars, commVars, HidcliInv, EnabledOnce
<1> QED BY <1>1, <1>2, <1>3, <1>4, <1>5, <1>6, <1>7 DEF Next

\* A handle dies with the device it was opened on.
LEMMA HandleStep == HidcliInv /\ [Next]_vars => HandleFresh'
<1> SUFFICES ASSUME HidcliInv, [Next]_vars PROVE HandleFresh'
  OBVIOUS
<1>1. CASE Chip /\ HandleFollows /\ Keep /\ UNCHANGED commVars
  <2>1. CASE Plug(Searching)
    BY <1>1, <2>1 DEF Plug, StartApp, HandleFollows, HidcliInv, HandleFresh, Visible
  <2>2. CASE Unplug
    BY <1>1, <2>2 DEF Unplug, HandleFollows, HandleFresh
  <2>3. CASE HostStallsApp
    BY <1>1, <2>3 DEF HostStallsApp, HandleFollows, Keep, HidcliInv, HandleFresh, Visible
  <2>4. CASE Watchdog(Searching)
    BY <1>1, <2>4 DEF Watchdog, StartApp, HandleFollows, HidcliInv, HandleFresh, Visible
  <2>5. CASE Attach
    BY <1>1, <2>5 DEF Attach, HandleFollows, HandleFresh
  <2>6. CASE Configured
    BY <1>1, <2>6 DEF Configured, HandleFollows, HandleFresh
  <2>7. CASE EnableSpi(csHigh /\ ~ data)
    BY <1>1, <2>7 DEF EnableSpi, HandleFollows, Keep, HidcliInv, HandleFresh, Visible
  <2> QED BY <1>1, <2>1, <2>2, <2>3, <2>4, <2>5, <2>6, <2>7 DEF Chip, ChipRuns
<1>2. CASE Nrf /\ HandleFollows /\ Keep
  <2>1. CASE Poll /\ UNCHANGED chipVars
    BY <1>2, <2>1 DEF chipVars, HandleFollows, Keep, HidcliInv, HandleFresh, Visible
  <2>2. CASE React /\ UNCHANGED chipVars
    BY <1>2, <2>2 DEF chipVars, HandleFollows, Keep, HidcliInv, HandleFresh, Visible
  <2>3. CASE Released /\ UNCHANGED chipVars
    BY <1>2, <2>3 DEF chipVars, HandleFollows, Keep, HidcliInv, HandleFresh, Visible
  <2>4. CASE Handshake
    BY <1>2, <2>4
    DEF Handshake, PrepareResponse, HandleFollows, Keep, HidcliInv, HandleFresh, Visible
  <2>5. CASE HandshakeLost
    BY <1>2, <2>5
    DEF HandshakeLost, MissHandshake, HandleFollows, Keep, HidcliInv, HandleFresh,
        Visible
  <2>6. CASE Data
    BY <1>2, <2>6
    DEF Data, ProcessTransaction, MissHandshake, HandleFollows, Keep, HidcliInv,
        HandleFresh, Visible
  <2> QED BY <1>2, <2>1, <2>2, <2>3, <2>4, <2>5, <2>6 DEF Nrf
<1>3. CASE NrfRestart /\ HandleFollows /\ Keep
  BY <1>3
  DEF NrfRestart, SpiStalls, ProcessTransaction, Answers, chipVars, HandleFollows, Keep,
      HidcliInv, HandleFresh, Visible
<1>4. CASE HostNotices
  BY <1>4 DEF HostNotices, HidcliInv, HandleFresh
<1>5. CASE ToolAlone /\ UNCHANGED <<chipVars, commVars>>
  <2>1. ASSUME NEW g \in {"app", "boot", "flash"}, Run(g) PROVE HandleFresh'
    BY <1>5, <2>1 DEF Run, chipVars, HandleFresh, Visible
  <2>2. CASE InMode \/ Found \/ GiveUp \/ PageFails \/ AllSent
    BY <1>5, <2>2
    DEF InMode, Found, GiveUp, PageFails, AllSent, Back, chipVars, HidcliInv,
        HandleFresh, Visible
  <2> QED BY <1>5, <2>1, <2>2 DEF ToolAlone
<1>6. CASE ToolOnChip /\ UNCHANGED commVars
  <2>1. CASE ChangeMode
    BY <2>1 DEF ChangeMode, Back, HandleFresh
  <2>2. CASE SendPage
    BY <2>2 DEF SendPage, PageErase, Back, HidcliInv, HandleFresh, Visible
  <2>3. CASE PageDone
    BY <2>3 DEF PageDone, PageWrite, HidcliInv, HandleFresh, Visible
  <2> QED BY <1>6, <2>1, <2>2, <2>3 DEF ToolOnChip
<1>7. CASE UNCHANGED vars
  BY <1>7 DEF vars, chipVars, toolVars, HidcliInv, HandleFresh, Visible
<1> QED BY <1>1, <1>2, <1>3, <1>4, <1>5, <1>6, <1>7 DEF Next

\* hidcli knows the mode it asked for, and sends pages only to flash.
LEMMA ToolStep == HidcliInv /\ [Next]_vars => ToolRight'
<1> SUFFICES ASSUME HidcliInv, [Next]_vars PROVE ToolRight'
  OBVIOUS
<1>1. CASE Chip /\ HandleFollows /\ Keep /\ UNCHANGED commVars
  BY <1>1 DEF Keep, HidcliInv, ToolRight, Wanted
<1>2. CASE Nrf /\ HandleFollows /\ Keep
  <2>1. CASE Poll /\ UNCHANGED chipVars
    BY <1>2 DEF Keep, HidcliInv, ToolRight, Wanted
  <2>2. CASE React /\ UNCHANGED chipVars
    BY <1>2 DEF Keep, HidcliInv, ToolRight, Wanted
  <2>3. CASE Released /\ UNCHANGED chipVars
    BY <1>2 DEF Keep, HidcliInv, ToolRight, Wanted
  <2>4. CASE Handshake
    BY <1>2 DEF Keep, HidcliInv, ToolRight, Wanted
  <2>5. CASE HandshakeLost
    BY <1>2 DEF Keep, HidcliInv, ToolRight, Wanted
  <2>6. CASE Data
    BY <1>2 DEF Keep, HidcliInv, ToolRight, Wanted
  <2> QED BY <1>2, <2>1, <2>2, <2>3, <2>4, <2>5, <2>6 DEF Nrf
<1>3. CASE NrfRestart /\ HandleFollows /\ Keep
  BY <1>3 DEF Keep, HidcliInv, ToolRight, Wanted
<1>4. CASE HostNotices
  BY <1>4 DEF HostNotices, HidcliInv, ToolRight, Wanted
<1>5. CASE ToolAlone /\ UNCHANGED <<chipVars, commVars>>
  <2>1. ASSUME NEW g \in {"app", "boot", "flash"}, Run(g) PROVE ToolRight'
    BY <2>1 DEF Run, HidcliInv, ToolRight
  <2>2. CASE InMode \/ Found \/ GiveUp \/ PageFails \/ AllSent
    BY <2>2
    DEF InMode, Found, GiveUp, PageFails, AllSent, Back, Wanted, HidcliInv, ToolRight
  <2> QED BY <1>5, <2>1, <2>2 DEF ToolAlone
<1>6. CASE ToolOnChip /\ UNCHANGED commVars
  <2>1. CASE ChangeMode
    BY <2>1 DEF ChangeMode, Back, HidcliInv, ToolRight
  <2>2. CASE SendPage
    BY <2>2 DEF SendPage, Back, HidcliInv, ToolRight
  <2>3. CASE PageDone
    BY <2>3 DEF PageDone, HidcliInv, ToolRight
  <2> QED BY <1>6, <2>1, <2>2, <2>3 DEF ToolOnChip
<1>7. CASE UNCHANGED vars
  BY <1>7 DEF vars, toolVars, HidcliInv, ToolRight, Wanted
<1> QED BY <1>1, <1>2, <1>3, <1>4, <1>5, <1>6, <1>7 DEF Next

\* An application that hidcli has started finds the nRF past its enable_usb.
LEMMA OffUsbStep == HidcliInv /\ [Next]_vars => StaysOffUsb'
<1> SUFFICES ASSUME HidcliInv, [Next]_vars PROVE StaysOffUsb'
  OBVIOUS
<1>1. CASE Chip /\ HandleFollows /\ Keep /\ UNCHANGED commVars
  BY <1>1
  DEF Chip, ChipRuns, Plug, Unplug, HostStallsApp, Watchdog, Attach, Configured,
      EnableSpi, StartApp, Keep, commVars, HidcliInv, StaysOffUsb
<1>2. CASE Nrf /\ HandleFollows /\ Keep
  <2>1. CASE Poll /\ UNCHANGED chipVars
    BY <1>2, <2>1 DEF Poll, Keep, HidcliInv, StaysOffUsb
  <2>2. CASE React /\ UNCHANGED chipVars
    BY <1>2, <2>2 DEF React, Keep, HidcliInv, StaysOffUsb
  <2>3. CASE Released /\ UNCHANGED chipVars
    BY <1>2, <2>3 DEF Released, Keep, HidcliInv, StaysOffUsb
  <2>4. CASE Handshake
    BY <1>2, <2>4 DEF Handshake, PrepareResponse, Keep, HidcliInv, StaysOffUsb
  <2>5. CASE HandshakeLost
    BY <1>2, <2>5
    DEF HandshakeLost, MissHandshake, GoOn, After, Keep, HidcliInv, StaysOffUsb
  <2>6. CASE Data
    BY <1>2, <2>6
    DEF Data, ProcessTransaction, GoOn, After, MissHandshake, Keep, HidcliInv, TypesOK,
        CommTypes, Command, StaysOffUsb, PowerAndCs
  <2> QED BY <1>2, <2>1, <2>2, <2>3, <2>4, <2>5, <2>6 DEF Nrf
<1>3. CASE NrfRestart /\ HandleFollows /\ Keep
  BY <1>3 DEF NrfRestart, StaysOffUsb
<1>4. CASE HostNotices
  <2>1. usb = "off" \/ code = "boot" => Visible # "app"
    BY DEF Visible, NoDevice
  <2> QED BY <1>4, <2>1 DEF HostNotices, chipVars, commVars, HidcliInv, StaysOffUsb
<1>5. CASE ToolAlone /\ UNCHANGED <<chipVars, commVars>>
  <2>1. ASSUME NEW g \in {"app", "boot", "flash"}, Run(g) PROVE StaysOffUsb'
    BY <2>1 DEF Run, HidcliInv, StaysOffUsb, ToolRight
  <2>2. CASE InMode \/ Found \/ GiveUp \/ PageFails \/ AllSent
    BY <1>5, <2>2
    DEF InMode, Found, GiveUp, PageFails, AllSent, Back, Wanted, commVars, HidcliInv,
        StaysOffUsb
  <2> QED BY <1>5, <2>1, <2>2 DEF ToolAlone
<1>6. CASE ToolOnChip /\ UNCHANGED commVars
  <2>1. CASE ChangeMode
    BY <1>6, <2>1
    DEF ChangeMode, StartApplication, Back, Wanted, commVars, HidcliInv, StaysOffUsb,
        EnabledOnce, HandleFresh, Visible
  <2>2. CASE SendPage
    BY <1>6, <2>2 DEF SendPage, PageErase, Back, commVars, HidcliInv, StaysOffUsb
  <2>3. CASE PageDone
    BY <1>6, <2>3 DEF PageDone, PageWrite, commVars, HidcliInv, StaysOffUsb
  <2> QED BY <1>6, <2>1, <2>2, <2>3 DEF ToolOnChip
<1>7. CASE UNCHANGED vars
  BY <1>7 DEF vars, chipVars, commVars, toolVars, HidcliInv, StaysOffUsb
<1> QED BY <1>1, <1>2, <1>3, <1>4, <1>5, <1>6, <1>7 DEF Next

\* The AVR leaves MISO to the sensor when the nRF has raised CS.
LEMMA SensorStep == HidcliInv /\ [Next]_vars => SensorAlone'
<1> SUFFICES ASSUME HidcliInv, [Next]_vars PROVE SensorAlone'
  OBVIOUS
<1>1. CASE Chip /\ HandleFollows /\ Keep /\ UNCHANGED commVars
  BY <1>1
  DEF Chip, ChipRuns, Plug, Unplug, HostStallsApp, Watchdog, Attach, Configured,
      EnableSpi, ResetRegisters, commVars, HidcliInv, PowerAndCs, SensorAlone
<1>2. CASE Nrf /\ HandleFollows /\ Keep
  <2>1. CASE Poll /\ UNCHANGED chipVars
    BY <2>1 DEF Poll, SensorAlone
  <2>2. CASE React /\ UNCHANGED chipVars
    BY <2>2 DEF React, chipVars, HidcliInv, PowerAndCs, SensorAlone
  <2>3. CASE Released /\ UNCHANGED chipVars
    BY <2>3 DEF Released, IrqHigh, chipVars, HidcliInv, PowerAndCs, SensorAlone
  <2>4. CASE Handshake
    BY <2>4 DEF Handshake, PrepareResponse, HidcliInv, SensorAlone
  <2>5. CASE HandshakeLost
    BY <2>5 DEF HandshakeLost, GoOn, After, Command, SensorAlone
  <2>6. CASE Data
    BY <2>6 DEF Data, GoOn, After, Command, SensorAlone
  <2> QED BY <1>2, <2>1, <2>2, <2>3, <2>4, <2>5, <2>6 DEF Nrf
<1>3. CASE NrfRestart /\ HandleFollows /\ Keep
  BY <1>3 DEF NrfRestart, SensorAlone
<1>4. CASE HostNotices
  BY <1>4 DEF HostNotices, chipVars, commVars, HidcliInv, SensorAlone
<1>5. CASE ToolAlone /\ UNCHANGED <<chipVars, commVars>>
  <2>1. ASSUME NEW g \in {"app", "boot", "flash"}, Run(g) PROVE SensorAlone'
    BY <1>5 DEF chipVars, commVars, HidcliInv, SensorAlone
  <2>2. CASE InMode \/ Found \/ GiveUp \/ PageFails \/ AllSent
    BY <1>5 DEF chipVars, commVars, HidcliInv, SensorAlone
  <2> QED BY <1>5, <2>1, <2>2 DEF ToolAlone
<1>6. CASE ToolOnChip /\ UNCHANGED commVars
  <2>1. CASE ChangeMode
    BY <1>6, <2>1
    DEF ChangeMode, EnterBootloader, StartApplication, chipVars, commVars, HidcliInv,
        SensorAlone
  <2>2. CASE SendPage
    BY <1>6, <2>2 DEF SendPage, PageErase, chipVars, commVars, HidcliInv, SensorAlone
  <2>3. CASE PageDone
    BY <1>6, <2>3 DEF PageDone, PageWrite, commVars, HidcliInv, SensorAlone
  <2> QED BY <1>6, <2>1, <2>2, <2>3 DEF ToolOnChip
<1>7. CASE UNCHANGED vars
  BY <1>7 DEF vars, chipVars, commVars, HidcliInv, SensorAlone
<1> QED BY <1>1, <1>2, <1>3, <1>4, <1>5, <1>6, <1>7 DEF Next

\* The pages that are left are taken from the file and only become fewer.
LEMMA KnownStep == HidcliInv /\ [Next]_vars => PagesKnown'
<1> SUFFICES ASSUME HidcliInv, [Next]_vars PROVE PagesKnown'
  OBVIOUS
<1>1. CASE Chip /\ HandleFollows /\ Keep /\ UNCHANGED commVars
  BY <1>1 DEF Keep, HidcliInv, PagesKnown
<1>2. CASE Nrf /\ HandleFollows /\ Keep
  <2>1. CASE Poll /\ UNCHANGED chipVars
    BY <1>2 DEF Keep, HidcliInv, PagesKnown
  <2>2. CASE React /\ UNCHANGED chipVars
    BY <1>2 DEF Keep, HidcliInv, PagesKnown
  <2>3. CASE Released /\ UNCHANGED chipVars
    BY <1>2 DEF Keep, HidcliInv, PagesKnown
  <2>4. CASE Handshake
    BY <1>2 DEF Keep, HidcliInv, PagesKnown
  <2>5. CASE HandshakeLost
    BY <1>2 DEF Keep, HidcliInv, PagesKnown
  <2>6. CASE Data
    BY <1>2 DEF Keep, HidcliInv, PagesKnown
  <2> QED BY <1>2, <2>1, <2>2, <2>3, <2>4, <2>5, <2>6 DEF Nrf
<1>3. CASE NrfRestart /\ HandleFollows /\ Keep
  BY <1>3 DEF Keep, HidcliInv, PagesKnown
<1>4. CASE HostNotices
  BY <1>4 DEF HostNotices, HidcliInv, PagesKnown
<1>5. CASE ToolAlone /\ UNCHANGED <<chipVars, commVars>>
  <2>1. ASSUME NEW g \in {"app", "boot", "flash"}, Run(g) PROVE PagesKnown'
    BY <2>1 DEF Run, HidcliInv, PagesKnown
  <2>2. CASE InMode \/ Found \/ GiveUp \/ PageFails \/ AllSent
    BY <2>2 DEF InMode, Found, GiveUp, PageFails, AllSent, Back, HidcliInv, PagesKnown
  <2> QED BY <1>5, <2>1, <2>2 DEF ToolAlone
<1>6. CASE ToolOnChip /\ UNCHANGED commVars
  <2>1. CASE ChangeMode
    BY <2>1 DEF ChangeMode, Back, HidcliInv, PagesKnown
  <2>2. CASE SendPage
    BY <2>2 DEF SendPage, Back, HidcliInv, PagesKnown
  <2>3. CASE PageDone
    BY <2>3 DEF PageDone, HidcliInv, PagesKnown
  <2> QED BY <1>6, <2>1, <2>2, <2>3 DEF ToolOnChip
<1>7. CASE UNCHANGED vars
  BY <1>7 DEF vars, toolVars, HidcliInv, PagesKnown
<1> QED BY <1>1, <1>2, <1>3, <1>4, <1>5, <1>6, <1>7 DEF Next

\* Of the flash only the page that is being sent changes, below the bootloader.
LEMMA PageStep == HidcliInv /\ [Next]_vars => PageInHand'
<1> SUFFICES ASSUME HidcliInv, [Next]_vars PROVE PageInHand'
  OBVIOUS
<1>1. CASE Chip /\ HandleFollows /\ Keep /\ UNCHANGED commVars
  <2>1. CASE Plug(Searching)
    BY <2>1 DEF Plug, ResetRegisters, HidcliInv, PageInHand, BootloaderKept
  <2>2. CASE Unplug
    BY <2>2 DEF Unplug, ResetRegisters, HidcliInv, PageInHand, BootloaderKept
  <2>3. CASE HostStallsApp
    BY <2>3 DEF HostStallsApp, HidcliInv, PageInHand, BootloaderKept
  <2>4. CASE Watchdog(Searching)
    BY <2>4 DEF Watchdog, ResetRegisters, HidcliInv, PageInHand, BootloaderKept
  <2>5. CASE Attach
    BY <2>5 DEF Attach, HidcliInv, PageInHand, BootloaderKept
  <2>6. CASE Configured
    BY <2>6 DEF Configured, HidcliInv, PageInHand, BootloaderKept
  <2>7. CASE EnableSpi(csHigh /\ ~ data)
    BY <2>7 DEF EnableSpi, HidcliInv, PageInHand, BootloaderKept
  <2> QED BY <1>1, <2>1, <2>2, <2>3, <2>4, <2>5, <2>6, <2>7 DEF Chip, ChipRuns
<1>2. CASE Nrf /\ HandleFollows /\ Keep
  <2>1. CASE Poll /\ UNCHANGED chipVars
    BY <1>2, <2>1, FirstStays
    DEF chipVars, HandleFollows, Keep, HidcliInv, PageInHand, BootloaderKept, PowerAndCs
  <2>2. CASE React /\ UNCHANGED chipVars
    BY <1>2, <2>2, FirstStays
    DEF chipVars, HandleFollows, Keep, HidcliInv, PageInHand, BootloaderKept, PowerAndCs
  <2>3. CASE Released /\ UNCHANGED chipVars
    BY <1>2, <2>3, FirstStays
    DEF chipVars, HandleFollows, Keep, HidcliInv, PageInHand, BootloaderKept, PowerAndCs
  <2>4. CASE Handshake
    BY <2>4 DEF Handshake, PrepareResponse, Answers, HidcliInv, PageInHand, BootloaderKept
  <2>5. CASE HandshakeLost
    BY <1>2, <2>5, FirstStays
    DEF HandshakeLost, MissHandshake, HandleFollows, Keep, HidcliInv, PageInHand,
        BootloaderKept, PowerAndCs
  <2>6. CASE Data
    BY <1>2, <2>6, FirstStays
    DEF Data, ProcessTransaction, MissHandshake, Answers, HandleFollows, Keep,
        HidcliInv, TypesOK, ChipTypes, PageInHand, BootloaderKept, PowerAndCs
  <2> QED BY <1>2, <2>1, <2>2, <2>3, <2>4, <2>5, <2>6 DEF Nrf
<1>3. CASE NrfRestart /\ HandleFollows /\ Keep
  BY <1>3, FirstStays
  DEF NrfRestart, SpiStalls, ProcessTransaction, Answers, chipVars, HandleFollows, Keep,
      HidcliInv, PageInHand, BootloaderKept, PowerAndCs
<1>4. CASE HostNotices
  BY <1>4, FirstStays DEF HostNotices, chipVars, HidcliInv, PageInHand, BootloaderKept
<1>5. CASE ToolAlone /\ UNCHANGED <<chipVars, commVars>>
  <2>1. ASSUME NEW g \in {"app", "boot", "flash"}, Run(g) PROVE PageInHand'
    BY <1>5, <2>1 DEF Run, chipVars, HidcliInv, PageInHand, BootloaderKept
  <2>2. CASE InMode \/ Found \/ GiveUp \/ PageFails \/ AllSent
    BY <1>5, <2>2
    DEF InMode, Found, GiveUp, PageFails, AllSent, chipVars, HidcliInv, PageInHand,
        BootloaderKept
  <2> QED BY <1>5, <2>1, <2>2 DEF ToolAlone
<1>6. CASE ToolOnChip /\ UNCHANGED commVars
  <2>1. CASE ChangeMode
    BY <2>1
    DEF ChangeMode, EnterBootloader, StartApplication, chipVars, HidcliInv, PageInHand,
        BootloaderKept
  <2>2. CASE SendPage
    <3>1. CASE alive /\ First \in Pages /\ Accepts(First)
      <4>1. /\ flash' = [flash EXCEPT ![First] = Blank] /\ erased' = First
            /\ UNCHANGED <<code, usb, tool, alive, next>> /\ tool = "send" /\ next # {}
            /\ code = "boot" /\ usb = "configured"
        BY <2>2, <3>1 DEF SendPage, PageErase
      <4>2. First < BootPage /\ First' = First
        BY <3>1, <4>1, FirstStays DEF Accepts
      <4>3. DOMAIN flash' = Pages /\ BootloaderKept'
        BY <3>1, <4>1, <4>2, PageChange DEF HidcliInv, PageInHand
      <4> QED BY <3>1, <4>1, <4>2, <4>3 DEF PageInHand
    <3>2. CASE ~ (alive /\ First \in Pages /\ Accepts(First))
      BY <2>2, <3>2 DEF SendPage, chipVars, HidcliInv, PageInHand, BootloaderKept
    <3> QED BY <3>1, <3>2
  <2>3. CASE PageDone
    <3>1. /\ erased # NoPage /\ erased' = NoPage
          /\ flash' = [flash EXCEPT ![erased] = read_flash_data(elf)[First]]
      BY <2>3 DEF PageDone, PageWrite
    <3>2. DOMAIN flash' = Pages /\ BootloaderKept'
      BY <3>1, PageChange DEF HidcliInv, PageInHand
    <3> QED BY <3>1, <3>2 DEF PageInHand
  <2> QED BY <1>6, <2>1, <2>2, <2>3 DEF ToolOnChip
<1>7. CASE UNCHANGED vars
  BY <1>7, FirstStays DEF vars, chipVars, toolVars, HidcliInv, PageInHand, BootloaderKept
<1> QED BY <1>1, <1>2, <1>3, <1>4, <1>5, <1>6, <1>7 DEF Next

\* A page is taken from the pages left when it has been written, and stays written.
LEMMA SentStep == HidcliInv /\ [Next]_vars => PagesSent'
<1> SUFFICES ASSUME HidcliInv, [Next]_vars PROVE PagesSent'
  OBVIOUS
<1>1. CASE Chip /\ HandleFollows /\ Keep /\ UNCHANGED commVars
  BY <1>1
  DEF Chip, ChipRuns, Plug, Unplug, HostStallsApp, Watchdog, Attach, Configured,
      EnableSpi, StartApp, ResetRegisters, HandleFollows, Keep, HidcliInv, PagesSent,
      PageInHand
<1>2. CASE Nrf /\ HandleFollows /\ Keep
  <2>1. CASE Poll /\ UNCHANGED chipVars
    BY <1>2, <2>1 DEF chipVars, HandleFollows, Keep, HidcliInv, PagesSent
  <2>2. CASE React /\ UNCHANGED chipVars
    BY <1>2, <2>2 DEF chipVars, HandleFollows, Keep, HidcliInv, PagesSent
  <2>3. CASE Released /\ UNCHANGED chipVars
    BY <1>2, <2>3 DEF chipVars, HandleFollows, Keep, HidcliInv, PagesSent
  <2>4. CASE Handshake
    BY <1>2, <2>4 DEF Handshake, PrepareResponse, HandleFollows, Keep, HidcliInv, PagesSent
  <2>5. CASE HandshakeLost
    BY <1>2, <2>5
    DEF HandshakeLost, MissHandshake, HandleFollows, Keep, HidcliInv, PagesSent
  <2>6. CASE Data
    BY <1>2, <2>6
    DEF Data, ProcessTransaction, MissHandshake, HandleFollows, Keep, HidcliInv,
        PagesSent
  <2> QED BY <1>2, <2>1, <2>2, <2>3, <2>4, <2>5, <2>6 DEF Nrf
<1>3. CASE NrfRestart /\ HandleFollows /\ Keep
  BY <1>3
  DEF NrfRestart, SpiStalls, ProcessTransaction, chipVars, HandleFollows, Keep,
      HidcliInv, PagesSent
<1>4. CASE HostNotices
  BY <1>4 DEF HostNotices, chipVars, HidcliInv, PagesSent
<1>5. CASE ToolAlone /\ UNCHANGED <<chipVars, commVars>>
  <2>1. ASSUME NEW g \in {"app", "boot", "flash"}, Run(g) PROVE PagesSent'
    BY <2>1 DEF Run, PagesSent
  <2>2. CASE InMode \/ Found \/ GiveUp \/ PageFails \/ AllSent
    BY <2>2 DEF InMode, Found, GiveUp, PageFails, AllSent, Back, PagesSent
  <2> QED BY <1>5, <2>1, <2>2 DEF ToolAlone
<1>6. CASE ToolOnChip /\ UNCHANGED commVars
  <2>1. CASE ChangeMode
    BY <2>1 DEF ChangeMode, Back, PagesSent
  <2>2. CASE SendPage
    <3>1. CASE alive /\ First \in Pages /\ Accepts(First)
      <4>1. /\ flash' = [flash EXCEPT ![First] = Blank] /\ erased' = First /\ erased = NoPage
            /\ UNCHANGED <<elf, tool, alive, next>>
        BY <2>2, <3>1 DEF SendPage, PageErase
      <4>2. \A p \in Pages : p # NoPage
        BY DEF Pages, NoPage
      <4> QED BY <4>1, <4>2 DEF HidcliInv, PagesSent
    <3>2. CASE ~ (alive /\ First \in Pages /\ Accepts(First))
      BY <2>2, <3>2 DEF SendPage, Back, PagesSent
    <3> QED BY <3>1, <3>2
  <2>3. CASE PageDone
    BY <2>3 DEF PageDone, PageWrite, HidcliInv, PagesSent, PageInHand
  <2> QED BY <1>6, <2>1, <2>2, <2>3 DEF ToolOnChip
<1>7. CASE UNCHANGED vars
  BY <1>7 DEF vars, chipVars, toolVars, HidcliInv, PagesSent
<1> QED BY <1>1, <1>2, <1>3, <1>4, <1>5, <1>6, <1>7 DEF Next

\* Nothing is plugged in at first.
LEMMA InitRight == Init => HidcliInv
<1> SUFFICES ASSUME Init PROVE HidcliInv
  OBVIOUS
<1>1. TypesOK
  <2>1. {plugged, key, spe, room, lost, data, csHigh, left, alive, switched} \subseteq BOOLEAN
    BY Zenon DEF Init, ChipInit, CommInit
  <2>2. place = "poll" /\ elf = <<>> /\ listed = NoDevice /\ comm = NoDevice
    BY DEF Init, CommInit
  <2> QED BY <2>1, <2>2 DEF Init, ChipInit, TypesOK, ChipTypes, CommTypes, ToolTypes
<1>2. PowerAndCs /\ MapSent /\ EnabledOnce /\ HandleFresh
  BY DEF Init, ChipInit, CommInit, PowerAndCs, MapSent, EnabledOnce, HandleFresh
<1>3. ToolRight /\ StaysOffUsb /\ SensorAlone /\ PagesKnown /\ PagesSent
  BY DEF Init, ChipInit, ToolRight, StaysOffUsb, SensorAlone, PagesKnown, PagesSent
<1>4. PageInHand
  BY ChipAssumption DEF Init, ChipInit, PageInHand, BootloaderKept
<1> QED BY <1>1, <1>2, <1>3, <1>4 DEF HidcliInv

\* The invariant is inductive.
LEMMA HidcliInvariance == Spec => []HidcliInv
<1>1. HidcliInv /\ [Next]_vars => HidcliInv'
  BY ChipTypeStep, CommTypeStep, ToolTypeStep, PowerStep, MapStep, EnabledStep,
     HandleStep, ToolStep, OffUsbStep, SensorStep, PageStep, KnownStep, SentStep
  DEF HidcliInv, TypesOK
<1> QED BY <1>1, InitRight, PTL DEF Spec

\* The application that the host sees has the whole report map, unless a command
\* was lost.
THEOREM MapBeforeUsb == Spec => []AttachedWithMap
<1>1. HidcliInv => AttachedWithMap
  BY DEF HidcliInv, MapSent, AttachedWithMap, Unattached
<1> QED BY <1>1, HidcliInvariance, PTL

\* Until the nRF restarts or loses the AVR, the AVR leaves the bus to the sensor
\* while the nRF looks for it, and an application that hidcli has started is not
\* found again.
THEOREM KnowledgeKept == Spec => []InTouch
<1>1. HidcliInv => InTouch
  BY DEF HidcliInv, StaysOffUsb, ToolRight, Wanted, AppFoundByLuck, InTouch
<1> QED BY <1>1, HidcliInvariance, PTL

\* Whatever is flashed and whenever it is cut short, the bootloader stays.
THEOREM BootloaderStays == Spec => []BootloaderKept
<1>1. HidcliInv => BootloaderKept
  BY DEF HidcliInv, PageInHand
<1> QED BY <1>1, HidcliInvariance, PTL

\* The file, as the tool has read it, is in the flash.
FlashedAsRead == tool = "send" /\ next = {} =>
                     \A p \in Pages \cap DOMAIN read_flash_data(elf) :
                         flash[p] = read_flash_data(elf)[p]
\* When every page has been sent, the flash is what the tool has made of the file,
\* although the device may come and go while it sends (hidcli's flash command).
THEOREM SentIsFlashed == Spec => []FlashedAsRead
<1>1. HidcliInv => FlashedAsRead
  <2>1. \A p \in Pages : p # NoPage
    BY DEF Pages, NoPage
  <2> QED BY <2>1 DEF HidcliInv, PageInHand, PagesSent, FlashedAsRead
<1> QED BY <1>1, HidcliInvariance, PTL

\* The page to be sent is one of those left.
LEMMA FirstIsLeft == ASSUME next \subseteq Nat, next # {} PROVE First \in next
<1> DEFINE R == {ss \in Nat \X Nat : ss[1] < ss[2]}
<1>0. OpToRel(<, Nat) = R
  BY DEF OpToRel
<1>1. IsWellFoundedOn(R, Nat)
  BY <1>0, NatLessThanWellFounded
<1>2. PICK p \in next : \A q \in next : ~ (<<q, p>> \in R)
  <2> HIDE DEF R
  <2> QED BY <1>1, WFMin
<1>3. \A q \in next : p <= q
  <2> SUFFICES ASSUME NEW q \in next PROVE p <= q
    OBVIOUS
  <2>1. p \in Nat /\ q \in Nat
    OBVIOUS
  <2>2. q < p => <<q, p>> \in R
    OBVIOUS
  <2>3. ~ (q < p)
    BY <1>2
  <2> QED BY <2>3
<1> QED BY <1>3 DEF First

-------------------------------------------------------------------------------
\* Induction over the numbers up to one, on the set of those for which a fact holds.
LEMMA UpTo ==
    ASSUME NEW len \in Nat, NEW S, 0 \in S, \A n \in 0..(len - 1) : n \in S => n + 1 \in S
    PROVE  0..len \subseteq S
<1> DEFINE R == {ss \in Nat \X Nat : ss[1] < ss[2]}
           T == (0..len) \ S
<1>1. OpToRel(<, Nat) = R
  BY DEF OpToRel
<1>2. IsWellFoundedOn(R, Nat)
  BY <1>1, NatLessThanWellFounded
<1> SUFFICES ASSUME T # {} PROVE FALSE
  OBVIOUS
<1>3. T \subseteq Nat
  OBVIOUS
<1>4. PICK n \in T : \A m \in T : ~ (<<m, n>> \in R)
  <2> HIDE DEF R, T
  <2> QED BY <1>2, <1>3, WFMin
<1>5. n \in Nat /\ n # 0 /\ n <= len
  OBVIOUS
<1>6. n - 1 \in 0..(len - 1) /\ <<n - 1, n>> \in R
  BY <1>5
<1>7. n - 1 \in S
  BY <1>4, <1>5, <1>6
<1> QED BY <1>5, <1>6, <1>7

\* What division gives.
LEMMA DivMod ==
    ASSUME NEW n \in Nat, NEW d \in Nat \ {0}
    PROVE  n \div d \in Nat /\ n % d \in 0..(d - 1) /\ n = d * (n \div d) + (n % d)
OBVIOUS

\* Products of numbers with one that is not negative.
LEMMA Times ==
    ASSUME NEW k \in Int, NEW l \in Int, NEW d \in Nat
    PROVE  /\ k * d \in Int /\ (k + 1) * d = k * d + d /\ (k - l) * d = k * d - l * d
           /\ k <= l => k * d <= l * d
<1>1. k * d \in Int /\ (k + 1) * d = k * d + d /\ (k - l) * d = k * d - l * d
  OBVIOUS
<1>2. k <= l => k * d <= l * d
  OBVIOUS
<1> QED BY <1>1, <1>2

\* A segment of a file, and the address of a byte of a page.
Segment == [addr : Nat, data : Seq(Nat)]
Byte(p, b) == p * PageSize + b

\* Of every byte of every page: the segment holds it exactly if the chunk of that page
\* does, and there it is the same.
LEMMA ChunkFacts ==
    ASSUME NEW seg \in Segment, seg.data # <<>>, NEW p \in Nat, NEW b \in 0..(PageSize - 1),
           NEW c, p \in DOMAIN Chunks(seg) => c = Chunks(seg)[p]
    PROVE  /\ Covers(seg, Byte(p, b)) <=>
                  p \in DOMAIN Chunks(seg) /\ b \in c.offset..(c.offset + Len(c.data) - 1)
           /\ Covers(seg, Byte(p, b)) =>
                  c.data[b - c.offset + 1] = seg.data[Byte(p, b) - seg.addr + 1]
           /\ DOMAIN Chunks(seg) \subseteq Nat
           /\ p \in DOMAIN Chunks(seg) => c.offset \in Nat /\ c.data \in Seq(Nat)
<1> DEFINE len   == Len(seg.data)
           first == seg.addr \div PageSize
           head  == seg.addr % PageSize
           more  == (head + len - 1) \div PageSize
           rest  == (head + len - 1) % PageSize
<1>1. seg.addr \in Nat /\ seg.data \in Seq(Nat) /\ len \in Nat \ {0} /\ PageSize \in Nat \ {0}
  BY ChipAssumption DEF Segment
<1>11. /\ first \in Nat /\ head \in 0..(PageSize - 1)
       /\ seg.addr = PageSize * first + head
  BY <1>1, DivMod, Zenon
<1> HIDE DEF first, head, len
<1>2. first \in Nat /\ head \in Nat /\ head < PageSize
  BY <1>1, <1>11
<1>3. head + len - 1 \in Nat
  BY <1>1, <1>2
<1>12. /\ more \in Nat /\ rest \in 0..(PageSize - 1)
       /\ head + len - 1 = PageSize * more + rest
  BY <1>1, <1>3, DivMod, Zenon
<1> HIDE DEF more, rest
<1>4. more \in Nat /\ rest \in Nat /\ rest < PageSize
  BY <1>1, <1>12
<1> DEFINE At(q) == q * PageSize
<1>5. Chunks(seg) = [q \in first..(first + more) |->
          [offset |-> IF q = first THEN head ELSE 0,
           data   |-> SubSeq(seg.data, IF q = first THEN 1 ELSE At(q - first) - head + 1,
                             IF q = first + more THEN len
                                                 ELSE At(q - first + 1) - head)]]
  BY DEF Chunks, first, head, more, len
<1>6. Covers(seg, Byte(p, b)) <=> seg.addr <= Byte(p, b) /\ Byte(p, b) <= seg.addr + len - 1
  BY <1>1, <1>2 DEF Covers, Byte, len
<1>13. At(first) \in Nat /\ At(more) \in Nat /\ At(p) \in Nat
  BY <1>1, <1>2, <1>4
<1>14. At(first) = PageSize * first /\ At(more) = PageSize * more
  BY <1>1, <1>2, <1>4
<1>15. Byte(p, b) = At(p) + b
  BY DEF Byte
<1>16. At(first + more) = At(first) + At(more) /\ \A q \in Nat : At(q + 1) = At(q) + PageSize
  BY <1>1, <1>2, <1>4
<1>17. \A q, r \in Nat : q <= r => At(q) <= At(r)
  BY <1>1, Times
<1> HIDE DEF At
<1>7. /\ At(first) \in Nat /\ At(more) \in Nat /\ At(p) \in Nat /\ b \in 0..(PageSize - 1)
      /\ seg.addr = At(first) + head /\ head + len - 1 = At(more) + rest
      /\ Byte(p, b) = At(p) + b
  BY <1>11, <1>12, <1>13, <1>14, <1>15
<1>8. CASE p < first
  <2>1. At(p + 1) <= At(first) /\ At(p + 1) = At(p) + PageSize
    <3>1. p + 1 \in Nat /\ p + 1 <= first
      BY <1>2, <1>8
    <3> QED BY <1>2, <1>16, <1>17, <3>1, Zenon
  <2>2. ~ Covers(seg, Byte(p, b))
    BY <1>1, <1>2, <1>6, <1>7, <2>1
  <2>3. p \notin DOMAIN Chunks(seg)
    BY <1>2, <1>4, <1>5, <1>8
  <2> QED BY <1>2, <1>4, <1>5, <2>2, <2>3
<1>9. CASE first + more < p
  <2>1. At(first + more + 1) <= At(p) /\ At(first + more + 1) = At(first + more) + PageSize
    <3>1. first + more \in Nat /\ first + more + 1 \in Nat /\ first + more + 1 <= p
      BY <1>2, <1>4, <1>9
    <3> QED BY <1>16, <1>17, <3>1, Zenon
  <2>2. At(first + more) = At(first) + At(more)
    BY <1>16
  <2>3. ~ Covers(seg, Byte(p, b))
    <3> DEFINE f == At(first)
               m == At(more)
               a == At(p)
    <3>1. /\ f \in Nat /\ m \in Nat /\ a \in Nat /\ b \in Nat /\ f + m + PageSize <= a
          /\ seg.addr = f + head /\ head + len - 1 = m + rest /\ Byte(p, b) = a + b
      BY <1>1, <1>7, <2>1, <2>2
    <3> HIDE DEF f, m, a
    <3>2. seg.addr + len - 1 < Byte(p, b)
      BY <1>1, <1>2, <1>4, <3>1
    <3> QED BY <1>6, <3>2, <1>1, <3>1
  <2>4. p \notin DOMAIN Chunks(seg)
    BY <1>2, <1>4, <1>5, <1>9
  <2> QED BY <1>2, <1>4, <1>5, <2>3, <2>4
<1>10. CASE p \in first..(first + more)
  <2> DEFINE k     == p - first
             start == IF k = 0 THEN 1 ELSE At(k) - head + 1
             end   == IF k = more THEN len ELSE At(k + 1) - head
  <2>1. k \in Nat /\ k <= more /\ p = first + k
    BY <1>2, <1>4, <1>10
  <2>2. c = [offset |-> IF k = 0 THEN head ELSE 0, data |-> SubSeq(seg.data, start, end)]
    <3>1. c = [offset |-> IF p = first THEN head ELSE 0,
               data   |-> SubSeq(seg.data, IF p = first THEN 1 ELSE At(k) - head + 1,
                                 IF p = first + more THEN len ELSE At(k + 1) - head)]
      BY <1>5, <1>10
    <3>2. (p = first <=> k = 0) /\ (p = first + more <=> k = more)
      BY <1>2, <1>4, <1>10
    <3> HIDE DEF k
    <3> QED BY <3>1, <3>2
  <2> HIDE DEF k
  <2>3. /\ At(p) = At(first) + At(k) /\ At(k) \in Nat /\ At(k + 1) = At(k) + PageSize
        /\ k = 0 => At(k) = 0
        /\ k # 0 => PageSize <= At(k)
        /\ k # more => At(k + 1) <= At(more)
    <3>1. At(p) = At(first) + At(k) /\ At(k) \in Nat /\ (k = 0 => At(k) = 0) /\ At(1) = PageSize
      BY <1>1, <1>2, <2>1 DEF At
    <3>2. k # 0 => At(1) <= At(k)
      BY <1>17, <2>1
    <3>3. k # more => At(k + 1) <= At(more)
      BY <1>4, <1>17, <2>1
    <3>4. At(k + 1) = At(k) + PageSize
      BY <1>16, <2>1
    <3> QED BY <3>1, <3>2, <3>3, <3>4
  <2>4. start \in 1..len /\ end \in 1..len /\ start <= end
    <3> DEFINE a == At(k)
               z == At(k + 1)
               m == At(more)
    <3>1. /\ a \in Nat /\ m \in Nat /\ z = a + PageSize /\ (k # 0 => PageSize <= a)
          /\ (k # more => z <= m) /\ (k = 0 => a = 0) /\ (k = more => a = m)
          /\ head + len - 1 = m + rest
      BY <1>7, <2>3
    <3>2. /\ start = IF k = 0 THEN 1 ELSE a - head + 1
          /\ end = IF k = more THEN len ELSE z - head
      OBVIOUS
    <3> HIDE DEF start, end, a, z, m
    <3> QED BY <1>1, <1>2, <1>4, <2>1, <3>1, <3>2
  <2> HIDE DEF start, end
  <2>5. /\ c.data \in Seq(Nat) /\ Len(c.data) = end - start + 1
        /\ \A i \in 1..(end - start + 1) : c.data[i] = seg.data[start + i - 1]
    <3>1. c.data = SubSeq(seg.data, start, end)
      BY <2>2
    <3>2. start \in Int /\ end \in Int /\ start <= end
      BY <1>1, <2>4
    <3>3. \A i \in start..end : seg.data[i] \in Nat
      BY <1>1, <2>4 DEF len
    <3>4. /\ SubSeq(seg.data, start, end) \in Seq(Nat)
          /\ Len(SubSeq(seg.data, start, end)) = IF start <= end THEN end - start + 1 ELSE 0
          /\ \A i \in 1..(end - start + 1) :
                 SubSeq(seg.data, start, end)[i] = seg.data[start + i - 1]
      BY <3>2, <3>3, SubSeqProperties
    <3> QED BY <3>1, <3>2, <3>4
  <2>6. c.offset = IF k = 0 THEN head ELSE 0
    BY <2>2
  <2> DEFINE f == At(first)
             m == At(more)
             a == At(k)
  <2>9. /\ f \in Nat /\ m \in Nat /\ a \in Nat /\ b \in Nat /\ b < PageSize
        /\ Byte(p, b) = f + a + b /\ seg.addr = f + head /\ head + len - 1 = m + rest
        /\ k = 0 => a = 0 /\ start = 1
        /\ k # 0 => PageSize <= a /\ start = a - head + 1
        /\ k = more => a = m /\ end = len
        /\ k # more => a + PageSize <= m /\ end = a + PageSize - head
    <3> DEFINE z == At(k + 1)
               q == At(p)
    <3>1. /\ start = IF k = 0 THEN 1 ELSE a - head + 1
          /\ end = IF k = more THEN len ELSE z - head
      BY DEF start, end
    <3>2. /\ f \in Nat /\ m \in Nat /\ a \in Nat /\ z = a + PageSize /\ q = f + a
          /\ Byte(p, b) = q + b /\ seg.addr = f + head /\ head + len - 1 = m + rest
          /\ (k = 0 => a = 0) /\ (k # 0 => PageSize <= a) /\ (k = more => a = m)
          /\ k # more => z <= m
      BY <1>7, <2>3
    <3>3. b \in Nat /\ b < PageSize
      BY <1>1, <1>7
    <3> HIDE DEF f, m, a, z, q
    <3>4. Byte(p, b) = f + a + b
      BY <3>2, <3>3
    <3>5. /\ k = 0 => a = 0 /\ start = 1
          /\ k # 0 => PageSize <= a /\ start = a - head + 1
      BY <3>1, <3>2
    <3>6. /\ k = more => a = m /\ end = len
          /\ k # more => a + PageSize <= m /\ end = a + PageSize - head
      BY <1>1, <1>2, <3>1, <3>2
    <3> QED BY <3>2, <3>3, <3>4, <3>5, <3>6
  <2> HIDE DEF f, m, a
  <2>7. Covers(seg, Byte(p, b)) <=> b \in c.offset..(c.offset + Len(c.data) - 1)
    <3>1. Covers(seg, Byte(p, b)) <=> head <= a + b /\ a + b <= m + rest
      BY <1>1, <1>2, <1>4, <1>6, <2>9
    <3>2. CASE k = 0 /\ k = more
      BY <1>1, <1>2, <1>4, <2>5, <2>6, <2>9, <3>1, <3>2
    <3>3. CASE k = 0 /\ k # more
      BY <1>1, <1>2, <1>4, <2>5, <2>6, <2>9, <3>1, <3>3
    <3>4. CASE k # 0 /\ k = more
      BY <1>1, <1>2, <1>4, <2>5, <2>6, <2>9, <3>1, <3>4
    <3>5. CASE k # 0 /\ k # more
      BY <1>1, <1>2, <1>4, <2>5, <2>6, <2>9, <3>1, <3>5
    <3> QED BY <3>2, <3>3, <3>4, <3>5
  <2>8. ASSUME Covers(seg, Byte(p, b))
        PROVE  c.data[b - c.offset + 1] = seg.data[Byte(p, b) - seg.addr + 1]
    <3>1. b - c.offset + 1 \in 1..(end - start + 1)
      BY <1>1, <1>2, <2>4, <2>5, <2>6, <2>7, <2>8, <2>9
    <3>2. start + (b - c.offset + 1) - 1 = Byte(p, b) - seg.addr + 1
      <4>1. CASE k = 0
        BY <1>2, <2>6, <2>9, <4>1
      <4>2. CASE k # 0
        BY <1>2, <2>6, <2>9, <4>2
      <4> QED BY <4>1, <4>2
    <3> QED BY <2>5, <3>1, <3>2
  <2> QED BY <1>2, <1>4, <1>5, <1>10, <2>5, <2>6, <2>7, <2>8
<1> QED BY <1>2, <1>4, <1>8, <1>9, <1>10
-------------------------------------------------------------------------------
\* What has been read of the first n segments of a file: of each byte they hold, what
\* the last of them says, and zeros between.
Holds(file, i, p, b) == Covers(file[i], Byte(p, b))
SoFar(file, n, map) ==
    /\ DOMAIN map \subseteq Nat
    /\ \A p \in DOMAIN map : map[p] \in Contents
    /\ \A p \in Nat, b \in 0..(PageSize - 1), i \in 1..n : Holds(file, i, p, b) =>
           /\ p \in DOMAIN map
           /\ (\A j \in (i + 1)..n : ~ Holds(file, j, p, b)) =>
                  map[p][b] = file[i].data[Byte(p, b) - file[i].addr + 1]
    /\ \A p \in DOMAIN map, b \in 0..(PageSize - 1) :
           (\A i \in 1..n : ~ Holds(file, i, p, b)) => map[p][b] = 0

\* fill_flash_map puts the bytes of a segment on what there was, or on zeros.
LEMMA FillFacts ==
    ASSUME NEW seg \in Segment, seg.data # <<>>, NEW map, DOMAIN map \subseteq Nat,
           \A p \in DOMAIN map : map[p] \in Contents,
           NEW new, new = fill_flash_map(map, seg)
    PROVE  /\ DOMAIN map \subseteq DOMAIN new /\ DOMAIN new \subseteq Nat
           /\ \A p \in DOMAIN new : new[p] \in Contents
           /\ \A p \in Nat, b \in 0..(PageSize - 1) :
                  IF Covers(seg, Byte(p, b))
                  THEN /\ p \in DOMAIN new
                       /\ new[p][b] = seg.data[Byte(p, b) - seg.addr + 1]
                  ELSE p \in DOMAIN new =>
                           new[p][b] = IF p \in DOMAIN map THEN map[p][b] ELSE 0
<1> DEFINE cs == Chunks(seg)
           Entry(p) == IF p \in DOMAIN map THEN map[p] ELSE Zeros
<1>1. new = [p \in DOMAIN map \cup DOMAIN cs |->
                IF p \in DOMAIN cs THEN FillPage(Entry(p), cs[p]) ELSE Entry(p)]
  BY DEF fill_flash_map
<1>2. PageSize \in Nat \ {0} /\ 0 \in 0..(PageSize - 1)
  BY ChipAssumption
<1>3. DOMAIN cs \subseteq Nat
  <2>1. 0 \in Nat
    OBVIOUS
  <2> QED BY <1>2, <2>1, ChunkFacts
<1>4. \A p : Entry(p) \in Contents
  BY DEF Zeros, Contents
<1>5. ASSUME NEW p \in DOMAIN new, NEW b \in 0..(PageSize - 1)
      PROVE  /\ new[p][b] \in Nat
             /\ p \in Nat
             /\ IF Covers(seg, Byte(p, b))
                THEN new[p][b] = seg.data[Byte(p, b) - seg.addr + 1]
                ELSE new[p][b] = Entry(p)[b]
  <2> DEFINE c == cs[p]
  <2>1. p \in Nat
    BY <1>1, <1>3
  <2>2. /\ Covers(seg, Byte(p, b)) <=>
               p \in DOMAIN cs /\ b \in c.offset..(c.offset + Len(c.data) - 1)
        /\ Covers(seg, Byte(p, b)) =>
               c.data[b - c.offset + 1] = seg.data[Byte(p, b) - seg.addr + 1]
        /\ p \in DOMAIN cs => c.offset \in Nat /\ c.data \in Seq(Nat)
    BY <2>1, ChunkFacts
  <2>3. Entry(p)[b] \in Nat
    BY <1>4 DEF Contents
  <2>4. CASE p \notin DOMAIN cs
    <3>1. new[p] = Entry(p)
      BY <1>1, <2>4
    <3> HIDE DEF cs, Entry
    <3> QED BY <2>1, <2>2, <2>3, <2>4, <3>1
  <2>5. CASE p \in DOMAIN cs
    <3>1. new[p] = FillPage(Entry(p), c)
      BY <1>1, <2>5
    <3> HIDE DEF cs, Entry, c
    <3>2. new[p][b] = IF b \in c.offset..(c.offset + Len(c.data) - 1)
                      THEN c.data[b - c.offset + 1] ELSE Entry(p)[b]
      BY <3>1 DEF FillPage
    <3>3. b \in c.offset..(c.offset + Len(c.data) - 1) => c.data[b - c.offset + 1] \in Nat
      <4>1. c.offset \in Nat /\ c.data \in Seq(Nat) /\ b \in Nat
        BY <1>2, <2>2, <2>5
      <4> QED BY <4>1
    <3> QED BY <2>1, <2>2, <2>3, <2>5, <3>2, <3>3
  <2> QED BY <2>4, <2>5
<1>6. \A p \in DOMAIN new : new[p] \in [0..(PageSize - 1) -> Nat]
  <2> SUFFICES ASSUME NEW p \in DOMAIN new PROVE new[p] \in [0..(PageSize - 1) -> Nat]
    OBVIOUS
  <2>1. \/ new[p] = FillPage(Entry(p), cs[p])
        \/ new[p] = Entry(p)
    BY <1>1
  <2>2. new[p] = [b \in 0..(PageSize - 1) |-> new[p][b]]
    <3> HIDE DEF Entry, cs
    <3> QED BY <2>1, <1>4 DEF FillPage, Contents
  <2>3. \A b \in 0..(PageSize - 1) : new[p][b] \in Nat
    BY <1>5
  <2> QED BY <2>2, <2>3
<1>7. ASSUME NEW p \in Nat, NEW b \in 0..(PageSize - 1), Covers(seg, Byte(p, b))
      PROVE  p \in DOMAIN new
  <2>1. p \in DOMAIN cs
    BY <1>7, ChunkFacts
  <2> QED BY <1>1, <2>1
<1>8. \A p, b : b \in 0..(PageSize - 1) => Entry(p)[b] = IF p \in DOMAIN map THEN map[p][b] ELSE 0
  BY DEF Zeros
<1>9. DOMAIN map \subseteq DOMAIN new
  BY <1>1
<1> HIDE DEF Entry, cs
<1>10. DOMAIN new \subseteq Nat
  BY <1>2, <1>5
<1>11. ASSUME NEW p \in Nat, NEW b \in 0..(PageSize - 1)
       PROVE  IF Covers(seg, Byte(p, b))
              THEN /\ p \in DOMAIN new
                   /\ new[p][b] = seg.data[Byte(p, b) - seg.addr + 1]
              ELSE p \in DOMAIN new =>
                       new[p][b] = IF p \in DOMAIN map THEN map[p][b] ELSE 0
  BY <1>5, <1>7, <1>8
<1> QED BY <1>6, <1>9, <1>10, <1>11 DEF Contents

\* One segment more.
LEMMA SoFarStep ==
    ASSUME NEW file \in Seq(Segment), NEW n \in 1..Len(file), NEW map, SoFar(file, n - 1, map),
           NEW new, new = IF file[n].data = <<>> THEN map ELSE fill_flash_map(map, file[n])
    PROVE  SoFar(file, n, new)
<1>1. file[n] \in Segment /\ n \in Nat /\ n - 1 \in Nat /\ 1..n = (1..(n - 1)) \cup {n}
  OBVIOUS
<1>2. CASE file[n].data = <<>>
  <2>1. \A p \in Nat, b \in 0..(PageSize - 1) : ~ Holds(file, n, p, b)
    <3> SUFFICES ASSUME NEW p \in Nat, NEW b \in 0..(PageSize - 1) PROVE ~ Holds(file, n, p, b)
      OBVIOUS
    <3>1. Len(file[n].data) = 0 /\ file[n].addr \in Nat
      BY <1>1, <1>2 DEF Segment
    <3> QED BY <3>1 DEF Holds, Covers
  <2>2. new = map
    BY <1>2
  <2>3. ASSUME NEW p \in Nat, NEW b \in 0..(PageSize - 1), NEW i \in 1..n, Holds(file, i, p, b)
        PROVE  /\ p \in DOMAIN map
               /\ (\A j \in (i + 1)..n : ~ Holds(file, j, p, b)) =>
                      map[p][b] = file[i].data[Byte(p, b) - file[i].addr + 1]
    <3>1. i \in 1..(n - 1) /\ \A j \in (i + 1)..(n - 1) : j \in (i + 1)..n
      BY <1>1, <2>1, <2>3
    <3> QED BY <2>3, <3>1 DEF SoFar
  <2>4. ASSUME NEW p \in DOMAIN map, NEW b \in 0..(PageSize - 1),
               \A i \in 1..n : ~ Holds(file, i, p, b)
        PROVE  map[p][b] = 0
    BY <1>1, <2>4 DEF SoFar
  <2>5. DOMAIN map \subseteq Nat /\ \A p \in DOMAIN map : map[p] \in Contents
    BY DEF SoFar
  <2> QED BY <2>2, <2>3, <2>4, <2>5 DEF SoFar
<1>3. CASE file[n].data # <<>>
  <2>1. DOMAIN map \subseteq Nat /\ \A p \in DOMAIN map : map[p] \in Contents
    BY DEF SoFar
  <2>2. new = fill_flash_map(map, file[n])
    BY <1>3
  <2>3. /\ DOMAIN map \subseteq DOMAIN new /\ DOMAIN new \subseteq Nat
        /\ \A p \in DOMAIN new : new[p] \in Contents
        /\ \A p \in Nat, b \in 0..(PageSize - 1) :
               IF Holds(file, n, p, b)
               THEN /\ p \in DOMAIN new
                    /\ new[p][b] = file[n].data[Byte(p, b) - file[n].addr + 1]
               ELSE p \in DOMAIN new =>
                        new[p][b] = IF p \in DOMAIN map THEN map[p][b] ELSE 0
    BY <1>1, <1>3, <2>1, <2>2, FillFacts DEF Holds
  <2>4. ASSUME NEW p \in Nat, NEW b \in 0..(PageSize - 1), NEW i \in 1..n, Holds(file, i, p, b)
        PROVE  /\ p \in DOMAIN new
               /\ (\A j \in (i + 1)..n : ~ Holds(file, j, p, b)) =>
                      new[p][b] = file[i].data[Byte(p, b) - file[i].addr + 1]
    <3>1. CASE i = n
      BY <2>3, <2>4, <3>1
    <3>2. CASE i # n
      <4>1. i \in 1..(n - 1) /\ n \in (i + 1)..n /\ \A j \in (i + 1)..(n - 1) : j \in (i + 1)..n
        BY <1>1, <3>2
      <4>2. /\ p \in DOMAIN map
            /\ (\A j \in (i + 1)..n : ~ Holds(file, j, p, b)) =>
                   map[p][b] = file[i].data[Byte(p, b) - file[i].addr + 1]
        BY <2>4, <4>1 DEF SoFar
      <4> QED BY <2>3, <4>1, <4>2
    <3> QED BY <3>1, <3>2
  <2>5. ASSUME NEW p \in DOMAIN new, NEW b \in 0..(PageSize - 1),
               \A i \in 1..n : ~ Holds(file, i, p, b)
        PROVE  new[p][b] = 0
    <3>1. p \in Nat /\ ~ Holds(file, n, p, b) /\ \A i \in 1..(n - 1) : ~ Holds(file, i, p, b)
      BY <1>1, <2>3, <2>5
    <3>2. new[p][b] = IF p \in DOMAIN map THEN map[p][b] ELSE 0
      BY <2>3, <3>1
    <3>3. p \in DOMAIN map => map[p][b] = 0
      BY <3>1 DEF SoFar
    <3> QED BY <3>2, <3>3
  <2> QED BY <2>3, <2>4, <2>5 DEF SoFar
<1> QED BY <1>2, <1>3

\* The recursion has a solution, which is what ReadSegments stands for.
LEMMA Recursion ==
    ASSUME NEW file \in Seq(Segment)
    PROVE  ReadSegments(file) = [n \in 0..Len(file) |->
               IF n = 0 THEN <<>>
               ELSE IF file[n].data = <<>> THEN ReadSegments(file)[n - 1]
                    ELSE fill_flash_map(ReadSegments(file)[n - 1], file[n])]
<1> DEFINE Step(m, n) == IF file[n].data = <<>> THEN m ELSE fill_flash_map(m, file[n])
           Solves(g, n) == g = [i \in 0..n |-> IF i = 0 THEN <<>> ELSE Step(g[i - 1], i)]
           S == {n \in 0..Len(file) : \E g : Solves(g, n)}
<1> HIDE DEF Step
<1>1. Len(file) \in Nat
  OBVIOUS
<1>2. 0 \in S
  <2>1. Solves([i \in 0..0 |-> <<>>], 0)
    OBVIOUS
  <2>2. \E g : Solves(g, 0)
    BY <2>1
  <2> HIDE DEF Solves
  <2> QED BY <1>1, <2>2
<1>3. ASSUME NEW n \in 0..(Len(file) - 1), n \in S PROVE n + 1 \in S
  <2>1. PICK g : Solves(g, n)
    BY <1>3
  <2> DEFINE h == [i \in 0..(n + 1) |-> IF i = n + 1 THEN Step(g[n], n + 1) ELSE g[i]]
  <2>2. ASSUME NEW i \in 0..(n + 1)
        PROVE  h[i] = IF i = 0 THEN <<>> ELSE Step(h[i - 1], i)
    <3>1. CASE i = n + 1
      <4>1. h[i] = Step(g[n], n + 1) /\ h[n] = g[n] /\ i # 0 /\ i - 1 = n
        BY <1>1, <3>1
      <4> QED BY <3>1, <4>1
    <3>2. CASE i = 0
      BY <2>1, <3>2
    <3>3. CASE i \in 1..n
      <4>1. h[i] = g[i] /\ h[i - 1] = g[i - 1] /\ i # 0 /\ i \in 0..n
        BY <3>3
      <4>2. g[i] = Step(g[i - 1], i)
        BY <2>1, <4>1
      <4> QED BY <4>1, <4>2
    <3> QED BY <3>1, <3>2, <3>3
  <2>3. Solves(h, n + 1)
    <3>1. h = [i \in 0..(n + 1) |-> h[i]]
      OBVIOUS
    <3> HIDE DEF h
    <3> QED BY <2>2, <3>1
  <2>4. n + 1 \in 0..Len(file)
    BY <1>1
  <2> QED BY <2>3, <2>4
<1>4. Len(file) \in S
  <2> HIDE DEF S
  <2>1. 0..Len(file) \subseteq S
    BY <1>1, <1>2, <1>3, UpTo
  <2> QED BY <1>1, <2>1
<1>5. PICK g : Solves(g, Len(file))
  BY <1>4
<1> USE DEF Step
<1> QED BY <1>5 DEF ReadSegments

\* By induction over the segments.
LEMMA AllRead ==
    ASSUME NEW file \in Seq(Segment)
    PROVE  SoFar(file, Len(file), read_flash_data(file))
<1> DEFINE map == ReadSegments(file)
           S == {n \in 0..Len(file) : SoFar(file, n, map[n])}
<1>1. map = [n \in 0..Len(file) |->
                 IF n = 0 THEN <<>>
                 ELSE IF file[n].data = <<>> THEN map[n - 1]
                      ELSE fill_flash_map(map[n - 1], file[n])]
  BY Recursion
<1> HIDE DEF map
<1>2. Len(file) \in Nat
  OBVIOUS
<1>3. 0 \in S
  <2>1. map[0] = <<>>
    BY <1>1, <1>2
  <2>2. SoFar(file, 0, <<>>)
    BY DEF SoFar
  <2> QED BY <1>2, <2>1, <2>2
<1>4. ASSUME NEW n \in 0..(Len(file) - 1), n \in S PROVE n + 1 \in S
  <2>1. n + 1 \in 1..Len(file) /\ n + 1 \in 0..Len(file) /\ (n + 1) - 1 = n /\ n + 1 # 0
    BY <1>2
  <2>2. map[n + 1] = IF file[n + 1].data = <<>> THEN map[n] ELSE fill_flash_map(map[n], file[n + 1])
    BY <1>1, <2>1
  <2>3. SoFar(file, (n + 1) - 1, map[n])
    BY <1>4, <2>1
  <2>4. SoFar(file, n + 1, map[n + 1])
    BY <2>1, <2>2, <2>3, SoFarStep
  <2> QED BY <2>1, <2>4
<1>5. Len(file) \in S
  <2> HIDE DEF S
  <2>1. 0..Len(file) \subseteq S
    BY <1>2, <1>3, <1>4, UpTo
  <2> QED BY <1>2, <2>1
<1> QED BY <1>5 DEF read_flash_data, map

\* Of the segments that hold a byte there is a last one.
LEMMA LastOf ==
    ASSUME NEW len \in Nat, NEW T \in SUBSET (1..len), T # {}
    PROVE  \E i \in T : \A j \in T : j <= i
<1> DEFINE S == {n \in 0..len : (\E i \in T : i <= n) =>
                                   \E i \in T : i <= n /\ \A j \in T : j <= n => j <= i}
<1>1. 0 \in S
  OBVIOUS
<1>2. ASSUME NEW n \in 0..(len - 1), n \in S PROVE n + 1 \in S
  <2>1. n + 1 \in 0..len
    OBVIOUS
  <2>2. CASE n + 1 \in T
    BY <2>1, <2>2
  <2>3. CASE n + 1 \notin T
    <3>1. \A i \in T : i <= n + 1 <=> i <= n
      BY <2>3
    <3> QED BY <1>2, <2>1, <3>1
  <2> QED BY <2>2, <2>3
<1>3. len \in S
  <2> HIDE DEF S
  <2>1. 0..len \subseteq S
    BY <1>1, <1>2, UpTo
  <2> QED BY <2>1
<1>4. \A i \in T : i <= len
  OBVIOUS
<1>5. \E i \in T : i <= len /\ \A j \in T : j <= len => j <= i
  BY <1>3, <1>4
<1> QED BY <1>4, <1>5

\* A file is read as it should be: every page it touches is read, byte by byte.
LEMMA FileRead == ASSUME NEW file \in Seq(Segment) PROVE ReadRight(file)
<1> DEFINE map == read_flash_data(file)
<1>1. SoFar(file, Len(file), map) /\ Len(file) \in Nat /\ DOMAIN file = 1..Len(file)
  BY AllRead
<1> HIDE DEF map
<1>2. \A p \in DOMAIN map : p \in Nat /\ map[p] \in Contents
  BY <1>1 DEF SoFar
<1>3. ASSUME NEW p \in Pages, Touches(file, p) PROVE p \in DOMAIN map /\ map[p] = PageOf(file, p)
  <2>1. p \in Nat /\ DOMAIN Blank = 0..(PageSize - 1)
    BY DEF Pages, Blank
  <2>2. PICK c \in 0..(PageSize - 1), k \in DOMAIN file : Holds(file, k, p, c)
    BY <1>3, <2>1 DEF Touches, Holds, Byte
  <2>3. p \in DOMAIN map
    BY <1>1, <2>1, <2>2 DEF SoFar
  <2>4. ASSUME NEW b \in 0..(PageSize - 1) PROVE map[p][b] = ByteAt(file, Byte(p, b))
    <3> DEFINE T == {i \in DOMAIN file : Covers(file[i], Byte(p, b))}
    <3>1. ByteAt(file, Byte(p, b)) =
              IF T = {} THEN 0
              ELSE LET i == CHOOSE i \in T : \A j \in T : j <= i
                   IN  file[i].data[Byte(p, b) - file[i].addr + 1]
      BY DEF ByteAt
    <3>2. CASE T = {}
      <4>1. \A i \in 1..Len(file) : ~ Holds(file, i, p, b)
        BY <1>1, <3>2 DEF Holds
      <4>2. map[p][b] = 0
        BY <1>1, <2>3, <4>1 DEF SoFar
      <4> QED BY <3>1, <3>2, <4>2
    <3>3. CASE T # {}
      <4> DEFINE i == CHOOSE i \in T : \A j \in T : j <= i
      <4>1. T \in SUBSET (1..Len(file))
        BY <1>1
      <4>2. \E m \in T : \A j \in T : j <= m
        <5> HIDE DEF T
        <5> QED BY <1>1, <3>3, <4>1, LastOf
      <4>3. i \in T /\ \A j \in T : j <= i
        <5> HIDE DEF T
        <5> QED BY <4>2
      <4> HIDE DEF i
      <4>4. i \in 1..Len(file) /\ Holds(file, i, p, b)
        BY <1>1, <4>3 DEF Holds
      <4>5. \A j \in (i + 1)..Len(file) : ~ Holds(file, j, p, b)
        <5> SUFFICES ASSUME NEW j \in (i + 1)..Len(file), Holds(file, j, p, b) PROVE FALSE
          OBVIOUS
        <5>1. j \in 1..Len(file) /\ ~ (j <= i)
          BY <1>1, <4>4
        <5>2. j \in T
          BY <1>1, <5>1 DEF Holds
        <5> QED BY <4>3, <5>1, <5>2
      <4>6. map[p][b] = file[i].data[Byte(p, b) - file[i].addr + 1]
        BY <1>1, <2>1, <4>4, <4>5 DEF SoFar
      <4> QED BY <3>1, <3>3, <4>6 DEF i
    <3> QED BY <3>2, <3>3
  <2>5. map[p] = [b \in 0..(PageSize - 1) |-> map[p][b]]
    BY <1>2, <2>3 DEF Contents
  <2>6. PageOf(file, p) = [b \in 0..(PageSize - 1) |-> ByteAt(file, Byte(p, b))]
    BY <2>1 DEF PageOf, Byte
  <2> QED BY <2>3, <2>4, <2>5, <2>6
<1> QED BY <1>2, <1>3 DEF ReadRight, map

\* Of every ELF file hidcli makes the flash map that the file means, byte by byte,
\* wherever its segments begin, end and overlap (avr_flashing.rs:132-209).
THEOREM FilesRead == \A file \in Elfs : ReadRight(file)
BY HidcliAssumption, FileRead DEF Segment

\* `hidcli flash` that ends well has written what the file says where it says it,
\* although the device may come and go, and nothing ever changes the bootloader.
THEOREM FlashedWell == Spec => []FlashSafe
<1> DEFINE Formed == \A p \in Pages : flash[p] \in Contents
<1>1. Init => Formed
  BY ChipAssumption DEF Init, ChipInit
<1>2. HidcliInv /\ next # {} =>
          /\ next \subseteq DOMAIN read_flash_data(elf) /\ next \subseteq Nat
          /\ read_flash_data(elf)[First] \in Contents
  <2> SUFFICES ASSUME HidcliInv, next # {}
               PROVE  /\ next \subseteq DOMAIN read_flash_data(elf) /\ next \subseteq Nat
                      /\ read_flash_data(elf)[First] \in Contents
    OBVIOUS
  <2>1. ReadRight(elf) /\ next \subseteq DOMAIN read_flash_data(elf)
    BY FilesRead DEF HidcliInv, PagesKnown, ToolRight
  <2>2. \A p \in next : p \in Nat /\ read_flash_data(elf)[p] \in Contents
    BY <2>1 DEF ReadRight
  <2>3. First \in next
    BY <2>2, FirstIsLeft
  <2> QED BY <2>1, <2>2, <2>3
<1>3. HidcliInv /\ Formed /\ [Next]_vars => Formed'
  <2> SUFFICES ASSUME HidcliInv, Formed, [Next]_vars PROVE Formed'
    OBVIOUS
  <2>1. CASE UNCHANGED flash
    BY <2>1
  <2>2. CASE PageErase(First)
    BY <2>2 DEF PageErase, Blank, Contents
  <2>3. CASE PageDone
    BY <2>3, <1>2 DEF PageDone, PageWrite, HidcliInv, PageInHand
  <2> QED BY <2>2, <2>3, FlashSteps
<1>4. HidcliInv /\ Formed => FlashSafe
  <2> SUFFICES ASSUME HidcliInv, Formed PROVE FlashSafe
    OBVIOUS
  <2>1. next \subseteq Nat
    BY <1>2
  <2>2. HidcliTypeOK
    BY <2>1
    DEF HidcliTypeOK, HidcliInv, PageInHand, TypesOK, ChipTypes, CommTypes, ToolTypes
  <2>3. FlashedIsElf
    <3> SUFFICES ASSUME tool = "send", next = {}, NEW p \in Pages, Touches(elf, p)
                 PROVE  flash[p] = PageOf(elf, p)
      BY DEF FlashedIsElf
    <3>1. ReadRight(elf)
      BY FilesRead DEF HidcliInv, ToolRight
    <3>2. p \in DOMAIN read_flash_data(elf) /\ read_flash_data(elf)[p] = PageOf(elf, p)
      BY <3>1 DEF ReadRight
    <3>3. p # NoPage
      BY DEF Pages, NoPage
    <3> QED BY <3>2, <3>3 DEF HidcliInv, PagesSent, PageInHand
  <2> QED BY <2>2, <2>3 DEF FlashSafe, HidcliInv, PageInHand
<1> QED BY <1>1, <1>3, <1>4, HidcliInvariance, PTL DEF Spec
================================================================================
