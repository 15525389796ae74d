------------------------------ MODULE PeerCalls ------------------------------
(***************************************************************************)
(* The calls the programs make on a RakPeer besides Send and Receive, from *)
(* the Rust method through the C function of rakpeer.cpp into RakNet and   *)
(* back.  A call is three steps: the method converts its arguments and     *)
(* passes pointers to them (Enter), the C function dereferences them and   *)
(* calls RakNet (an action named after the function), the method reads the *)
(* result, through a pointer where the function returns one (Leave).       *)
(* RakNet's threads accept and drop connections between any two of them.   *)
(***************************************************************************)
EXTENDS CTypes, FiniteSets

CONSTANTS
  Slot,        \* indexes of RakNet's list of remote systems
  HostLength,  \* lengths of the host names programs pass
  Password,    \* passwords programs pass
  MaxCalls,    \* bound: calls of the console
  MaxAccepts   \* bound: connections that are accepted

Thread == {"main", "console"}

VARIABLES
  raknet,    \* what RakNet knows: its settings and its connections
  setup,     \* the calls main still makes to set the peer up
  call,      \* what each thread has called, and how far the call is
  known,     \* the address the thread got from GetSystemAddressFromIndex
  answer,    \* what the thread's last query returned
  calls,     \* how many the console made
  accepts    \* how many connections were accepted

vars == <<raknet, setup, call, known, answer, calls, accepts>>

Nobody == 0

\* What memory holds that was given back and reused.
Garbage == <<99>>

SlotsOf(who) == {i \in Slot : raknet.slot[i].system \in who}

-----------------------------------------------------------------------------
\* A call: the method, what the program means by its arguments, and what the
\* pointers and numbers it passes to C hold; then what RakNet made of them,
\* and the result.

Idle == [at |-> "idle"]

At(t, place) == call[t].at = place

Enter(t, method, meant, mem) ==
  /\ At(t, "idle")
  /\ call' = [call EXCEPT ![t] =
       [at |-> "in", method |-> method, meant |-> meant, mem |-> mem]]

Function(t, method) == At(t, "in") /\ call[t].method = method

Mem(t) == call[t].mem

Returns(t, seen, result) ==
  /\ call' = [call EXCEPT ![t] =
       [at |-> "out", method |-> @.method, meant |-> @.meant, mem |-> @.mem,
        seen |-> seen, result |-> result, moved |-> FALSE]]
  /\ UNCHANGED <<setup, known, answer, calls, accepts>>

Query(t, seen, result) == Returns(t, seen, result) /\ UNCHANGED raknet

-----------------------------------------------------------------------------
\* What the programs do before they spawn the console.

\* Slip: the server starts before it has its keys.
StartsFirst ==
  <<"SetOccasionalPing", "SetUnreliableTimeout", "SetTimeoutTime", "Startup",
    "SetMaximumIncomingConnections", "InitializeSecurity",
    "GetInternalAddresses", "GetGuidFromSystemAddress">>

ServerSetup ==
  <<"SetOccasionalPing", "SetUnreliableTimeout", "SetTimeoutTime",
    "InitializeSecurity", "Startup", "SetMaximumIncomingConnections",
    "GetInternalAddresses", "GetGuidFromSystemAddress">>

ClientSetup ==
  <<"AllowConnectionResponseIPMigration", "SetOccasionalPing", "Startup",
    "Connect", "GetLocalIpAddresses", "GetGuidFromSystemAddress">>

Init ==
  /\ setup \in {ServerSetup, ClientSetup}
  /\ raknet = [active |-> FALSE, ping |-> FALSE, migration |-> FALSE,
               unreliable |-> 0, timeout |-> 0, incoming |-> 0,
               security |-> {}, addresses |-> 0, attempt |-> FALSE,
               slot |-> [i \in Slot |-> [system |-> Nobody, secured |-> {}]],
               guid |-> [i \in Slot |-> NoGuid]]
  /\ call = [main |-> Idle, console |-> [at |-> "unborn"]]
  /\ known = [t \in Thread |-> [address |-> UnassignedAddress, of |-> {Own}]]
  /\ answer = [t \in Thread |-> [method |-> "none"]]
  /\ calls = 0
  /\ accepts = 0

Pass(meant, mem) == [meant |-> meant, mem |-> mem]

\* Slip: the strings are freed when the pointer to them has been made.
DanglingHost(host) == {host, 99}

\* The CString and the vector of descriptors live until the call returns.
HostPointer(host) == {host}

StartupArgs ==
  UNION {{Pass([host |-> h],
               [descriptor |-> [port |-> <<1, 0>>, hostAddress |-> a,
                                socketFamily |-> AF_INET]]) :
            a \in {n \in 0 .. 32 : string_to_char_array(h) = Some(n)}} :
           h \in HostLength}

\* The copy of the password is freed with the match arm that took its address.
PasswordPointer(password) ==
  IF password = None THEN {NULL} ELSE {password, Garbage}

ConnectPass(h, k, p) ==
  {Pass([host |-> h, key |-> k, password |-> p],
        [host |-> hc, publicKey |-> KeyToC(k), password |-> pc]) :
     hc \in HostPointer(h), pc \in PasswordPointer(p)}

ConnectArgs ==
  UNION {ConnectPass(h, k, p) : h \in HostLength, k \in Key(1, Own), p \in Password}

UnassignedArgs ==
  {Pass([target |-> {Own}], [target |-> AddressToC(UnassignedAddress)])}

SetupArgs(method) ==
  CASE method = "Startup" -> StartupArgs
    [] method = "Connect" -> ConnectArgs
    [] method = "InitializeSecurity" -> {Pass([key |-> {Own}], [key |-> {Own}])}
    [] method \in {"SetTimeoutTime", "GetGuidFromSystemAddress"} -> UnassignedArgs
    [] method = "GetInternalAddresses" -> {Pass(<<>>, [each |-> "GetInternalID"])}
    [] method = "GetLocalIpAddresses" -> {Pass(<<>>, [each |-> "GetLocalIP"])}
    [] OTHER -> {Pass(<<>>, <<>>)}

\* GetInternalAddresses and GetLocalIpAddresses ask for the number first.
FirstCall(method) ==
  IF method \in {"GetInternalAddresses", "GetLocalIpAddresses"}
  THEN "GetNumberOfAddresses" ELSE method

SetUp ==
  /\ setup # <<>>
  /\ \E a \in SetupArgs(Head(setup)) :
       Enter("main", FirstCall(Head(setup)), a.meant, a.mem)
  /\ setup' = Tail(setup)
  /\ UNCHANGED <<raknet, known, answer, calls, accepts>>

\* Startup panics before it calls C.
HostRefused ==
  /\ setup # <<>> /\ Head(setup) = "Startup" /\ At("main", "idle")
  /\ \E h \in HostLength : string_to_char_array(h) = None
  /\ call' = [call EXCEPT !["main"] = [at |-> "failed"]]
  /\ setup' = <<>>
  /\ UNCHANGED <<raknet, known, answer, calls, accepts>>

-----------------------------------------------------------------------------
\* What threads ask and tell the peer afterwards.

AddressPass(t) ==
  {Pass([target |-> known[t].of], [target |-> AddressToC(known[t].address)])}
    \cup {Pass([target |-> {s}], [target |-> AddressToC(Literal(s))]) : s \in System}
    \cup UnassignedArgs

TargetPass(t) ==
  {Pass([target |-> known[t].of],
        [target |-> TargetToC(ByAddress(known[t].address))])}
    \cup {Pass([target |-> {s}], [target |-> TargetToC(ByAddress(Literal(s)))]) :
            s \in System}
    \cup {Pass([target |-> {s}],
               [target |-> TargetToC(ByGuid(GuidToRust(GuidOf(s, 0))))]) :
            s \in System}

Ask(methods, args) ==
  /\ calls < MaxCalls
  /\ \E method \in methods, a \in args : Enter("console", method, a.meant, a.mem)
  /\ calls' = calls + 1
  /\ UNCHANGED <<raknet, setup, known, answer, accepts>>

AskIndex ==
  Ask({"GetSystemAddressFromIndex"}, {Pass(<<>>, [index |-> i]) : i \in Slot})

AskAddress ==
  Ask({"Ping", "GetStatistics", "GetGuidFromSystemAddress"},
      AddressPass("console"))

AskTarget ==
  Ask({"CloseConnection", "GetAveragePing", "GetLastPing"},
      TargetPass("console"))

Becomes(t, place) ==
  /\ call' = [call EXCEPT ![t] = [at |-> place]]
  /\ UNCHANGED <<raknet, setup, known, answer, calls, accepts>>

Spawn == setup = <<>> /\ At("main", "idle") /\ At("console", "unborn")
           /\ Becomes("console", "idle")

Quit == At("console", "idle") /\ Becomes("console", "ended")

\* Slip: the peer is shut down while the console may still be in a call.
AnyTime == TRUE

\* stop is set, by a console that breaks out of its loop then.
Stopped == At("console", "ended")

Shutdown ==
  /\ setup = <<>>
  /\ Stopped
  /\ Enter("main", "Shutdown", <<>>, <<>>)
  /\ UNCHANGED <<raknet, setup, known, answer, calls, accepts>>

-----------------------------------------------------------------------------
\* RakNet's threads: connections come and go.

Without(slots) ==
  [raknet EXCEPT
     !.slot = [i \in Slot |-> IF i \in slots
                THEN [system |-> Nobody, secured |-> {}] ELSE @[i]],
     !.guid = [i \in Slot |-> IF i \in slots THEN NoGuid ELSE @[i]]]

\* A result that points into slot i points to somebody else's data now.
MovedIn(i) ==
  [t \in Thread |->
     IF /\ At(t, "out") /\ call[t].method = "GetGuidFromSystemAddress"
        /\ call[t].result = [to |-> "list", index |-> i]
     THEN [call[t] EXCEPT !.moved = TRUE] ELSE call[t]]

\* A server takes so many; a client is connected to whom it asked for.
Welcome(s) ==
  \/ Cardinality(SlotsOf(System)) < raknet.incoming
  \/ raknet.attempt /\ s = 1

Accept(s, i) ==
  /\ accepts < MaxAccepts
  /\ raknet.active
  /\ raknet.slot[i].system = Nobody
  /\ SlotsOf({s}) = {}
  /\ Welcome(s)
  /\ raknet' = [raknet EXCEPT
       !.slot[i] = [system |-> s, secured |-> raknet.security],
       !.guid[i] = GuidOf(s, i)]
  /\ call' = MovedIn(i)
  /\ accepts' = accepts + 1
  /\ UNCHANGED <<setup, known, answer, calls>>

Lose(i) ==
  /\ raknet.slot[i].system # Nobody
  /\ raknet' = Without({i})
  /\ call' = MovedIn(i)
  /\ UNCHANGED <<setup, known, answer, calls, accepts>>

-----------------------------------------------------------------------------
\* rakpeer.cpp: each function dereferences its pointers and calls the method
\* of RakNet that has its name.

Set(t, method, field, value) ==
  /\ Function(t, method)
  /\ raknet' = [raknet EXCEPT ![field] = value]
  /\ Returns(t, <<>>, NULL)

RakPeer_SetOccasionalPing(t) == Set(t, "SetOccasionalPing", "ping", TRUE)

RakPeer_AllowConnectionResponseIPMigration(t) ==
  Set(t, "AllowConnectionResponseIPMigration", "migration", FALSE)

RakPeer_SetUnreliableTimeout(t) ==
  Set(t, "SetUnreliableTimeout", "unreliable", TimeMS(1000))

RakPeer_SetMaximumIncomingConnections(t) ==
  Set(t, "SetMaximumIncomingConnections", "incoming", Cardinality(Slot))

\* For the unassigned address RakNet sets the default of all connections.
RakPeer_SetTimeoutTime(t) ==
  LET target == Resolve(Mem(t).target)
  IN  /\ Function(t, "SetTimeoutTime")
      /\ raknet' = [raknet EXCEPT
           !.timeout = IF target = {Own} THEN TimeMS(30000) ELSE @]
      /\ Returns(t, [target |-> target], NULL)

\* RakNet takes no keys once it is active.
RakPeer_InitializeSecurity(t) ==
  /\ Function(t, "InitializeSecurity")
  /\ raknet' = [raknet EXCEPT
       !.security = IF raknet.active THEN @ ELSE Mem(t).key]
  /\ Returns(t, [key |-> Mem(t).key], ~raknet.active)

RakPeer_Startup(t) ==
  \E result \in StartupResult \ {"RAKNET_ALREADY_STARTED"} :
    LET started == result = "RAKNET_STARTED"
    IN  /\ Function(t, "Startup")
        /\ raknet' = [raknet EXCEPT !.active = started,
                                    !.addresses = IF started THEN 2 ELSE 0]
        /\ Returns(t, [host |-> CString(Mem(t).descriptor.hostAddress)], started)

RakPeer_Connect(t) ==
  \E result \in ConnectionAttemptResult :
    LET started == result = "CONNECTION_ATTEMPT_STARTED"
        key == Mem(t).publicKey
    IN  /\ Function(t, "Connect")
        /\ raknet' = [raknet EXCEPT !.attempt = started]
        /\ Returns(t, [host |-> Mem(t).host, password |-> Mem(t).password,
                       key |-> [mode |-> key.publicKeyMode,
                                remote |-> key.remoteServerPublicKey,
                                mine |-> key.myPublicKey]], started)

RakPeer_GetNumberOfAddresses(t) ==
  Function(t, "GetNumberOfAddresses") /\ Query(t, <<>>, raknet.addresses)

\* A string of RakNet's own, null beyond the last address.
RakPeer_GetLocalIP(t) ==
  /\ Function(t, "GetLocalIP")
  /\ Query(t, <<>>, IF Mem(t).index < raknet.addresses THEN <<Own>> ELSE NULL)

\* For the unassigned address, which GetInternalAddresses passes, the peer's
\* own addresses.
RakPeer_GetInternalID(t) ==
  /\ Function(t, "GetInternalID")
  /\ Query(t, <<>>, IF Mem(t).index < raknet.addresses THEN <<Own>> ELSE NULL)

\* A pointer to the peer's own GUID, into the list of remote systems, or to
\* the constant for no GUID.
RakPeer_GetGuidFromSystemAddress(t) ==
  LET target == Resolve(Mem(t).target)
  IN  /\ Function(t, "GetGuidFromSystemAddress")
      /\ Query(t, [target |-> target],
           IF target = {Own} THEN [to |-> "own", index |-> 0]
           ELSE IF SlotsOf(target) = {} THEN [to |-> "none", index |-> 0]
           ELSE [to |-> "list", index |-> CHOOSE i \in SlotsOf(target) : TRUE])

RakPeer_GetSystemAddressFromIndex(t) ==
  LET i == Mem(t).index
      s == raknet.slot[i].system
  IN  /\ Function(t, "GetSystemAddressFromIndex")
      /\ Query(t, <<>>, IF s = Nobody THEN [address |-> NoAddress, of |-> {Own}]
                        ELSE [address |-> InRakNet(s, i), of |-> {s}])

\* Writes to the caller's structure if RakNet finds the system.
RakPeer_GetStatistics_address(t) ==
  LET target == Resolve(Mem(t).target)
  IN  /\ Function(t, "GetStatistics")
      /\ Query(t, [target |-> target],
               IF SlotsOf(target) = {} THEN NULL ELSE <<[of |-> target]>>)

\* A ping by whose it is; RakNet's -1 is nobody's.
NobodysPing == {}

PingOf(target) == IF SlotsOf(target) = {} THEN NobodysPing ELSE target

RakPeer_GetAveragePing(t) ==
  LET target == ResolveTarget(Mem(t).target)
  IN  Function(t, "GetAveragePing") /\ Query(t, [target |-> target], PingOf(target))

RakPeer_GetLastPing(t) ==
  LET target == ResolveTarget(Mem(t).target)
  IN  Function(t, "GetLastPing") /\ Query(t, [target |-> target], PingOf(target))

RakPeer_Ping(t) ==
  Function(t, "Ping") /\ Query(t, [target |-> Resolve(Mem(t).target)], NULL)

RakPeer_CloseConnection(t) ==
  LET target == ResolveTarget(Mem(t).target)
  IN  /\ Function(t, "CloseConnection")
      /\ raknet' = Without(SlotsOf(target))
      /\ Returns(t, [target |-> target], NULL)

\* Closes all connections and frees the list of them.
RakPeer_Shutdown(t) ==
  /\ Function(t, "Shutdown")
  /\ raknet' = [Without(Slot) EXCEPT !.active = FALSE]
  /\ Returns(t, <<>>, NULL)

RakPeer_drop ==
  /\ At("main", "failed") \/ At("main", "down")
  /\ raknet' = [Without(Slot) EXCEPT !.active = FALSE]
  /\ call' = [call EXCEPT !["main"] = [at |-> "ended"]]
  /\ UNCHANGED <<setup, known, answer, calls, accepts>>

-----------------------------------------------------------------------------
\* Back in Rust.

Leave(t, methods, next) ==
  /\ At(t, "out")
  /\ call[t].method \in methods
  /\ call' = [call EXCEPT ![t] = next]
  /\ UNCHANGED <<raknet, calls, accepts>>

ReturnNothing(t) ==
  /\ Leave(t, {"SetOccasionalPing", "AllowConnectionResponseIPMigration",
               "SetUnreliableTimeout", "SetMaximumIncomingConnections",
               "SetTimeoutTime", "Ping", "CloseConnection"}, Idle)
  /\ UNCHANGED <<setup, known, answer>>

\* The programs end when a peer does not start.
ReturnStarted(t) ==
  LET ok == call[t].result
  IN  /\ Leave(t, {"InitializeSecurity", "Startup", "Connect"},
               IF ok THEN Idle ELSE [at |-> "failed"])
      /\ setup' = IF ok THEN setup ELSE <<>>
      /\ UNCHANGED <<known, answer>>

ReturnShutdown(t) ==
  Leave(t, {"Shutdown"}, [at |-> "down"]) /\ UNCHANGED <<setup, known, answer>>

\* Slip: one address too many.
Inclusive(i, n) == i <= n

InRange(i, n) == i < n

\* (0..number_of_addresses).map(..)
EachAddress(each, i, n) ==
  IF InRange(i, n)
  THEN [at |-> "in", method |-> each, meant |-> <<>>,
        mem |-> [index |-> i, number |-> n]]
  ELSE Idle

ReturnNumber(t) ==
  /\ Leave(t, {"GetNumberOfAddresses"},
           EachAddress(Mem(t).each, 0, call[t].result))
  /\ UNCHANGED <<setup, known, answer>>

ReturnNextAddress(t) ==
  /\ Leave(t, {"GetLocalIP", "GetInternalID"},
           EachAddress(call[t].method, Mem(t).index + 1, Mem(t).number))
  /\ UNCHANGED <<setup, known, answer>>

ReturnAddress(t) ==
  /\ Leave(t, {"GetSystemAddressFromIndex"}, Idle)
  /\ known' = [known EXCEPT
       ![t] = [address |-> AddressToRust(call[t].result.address),
               of |-> call[t].result.of]]
  /\ UNCHANGED <<setup, answer>>

\* Slip: the structure for the statistics is left as it was.
Uninitialised == [of |-> System \cup {Own}]

\* core::mem::zeroed()
Zeroed == NoStatistics

\* What a pointer to a GUID points to now.
GuidAt(p) ==
  IF p.to = "list" THEN raknet.guid[p.index]
  ELSE IF p.to = "own" THEN GuidOf(Own, UNASSIGNED_PLAYER_INDEX) ELSE NoGuid

Answered(t, method, of) ==
  /\ Leave(t, {method}, Idle)
  /\ answer' = [answer EXCEPT ![t] =
       [method |-> method, meant |-> call[t].meant.target, of |-> of,
        moved |-> call[t].moved]]
  /\ UNCHANGED <<setup, known>>

ReturnGuid(t) ==
  Answered(t, "GetGuidFromSystemAddress",
           {GuidToRust(GuidAt(call[t].result)).g} \ {MAX64})

ReturnStatistics(t) ==
  Answered(t, "GetStatistics",
           IF call[t].result = NULL THEN Zeroed.of ELSE call[t].result[1].of)

\* The number as it is, also -1.
ReturnAveragePing(t) == Answered(t, "GetAveragePing", call[t].result)

\* None for -1.
ReturnLastPing(t) ==
  LET res == IF call[t].result = NobodysPing THEN None ELSE Some(call[t].result)
  IN  Answered(t, "GetLastPing", IF res = None THEN {} ELSE res[1])

-----------------------------------------------------------------------------
Call(t) ==
  \/ RakPeer_SetOccasionalPing(t)
  \/ RakPeer_AllowConnectionResponseIPMigration(t)
  \/ RakPeer_SetUnreliableTimeout(t)
  \/ RakPeer_SetMaximumIncomingConnections(t)
  \/ RakPeer_SetTimeoutTime(t)
  \/ RakPeer_InitializeSecurity(t)
  \/ RakPeer_Startup(t)
  \/ RakPeer_Connect(t)
  \/ RakPeer_GetNumberOfAddresses(t)
  \/ RakPeer_GetLocalIP(t)
  \/ RakPeer_GetInternalID(t)
  \/ RakPeer_GetGuidFromSystemAddress(t)
  \/ RakPeer_GetSystemAddressFromIndex(t)
  \/ RakPeer_GetStatistics_address(t)
  \/ RakPeer_GetAveragePing(t)
  \/ RakPeer_GetLastPing(t)
  \/ RakPeer_Ping(t)
  \/ RakPeer_CloseConnection(t)
  \/ RakPeer_Shutdown(t)

Return(t) ==
  \/ ReturnNothing(t) \/ ReturnStarted(t) \/ ReturnShutdown(t)
  \/ ReturnNumber(t) \/ ReturnNextAddress(t) \/ ReturnAddress(t)
  \/ ReturnGuid(t) \/ ReturnStatistics(t)
  \/ ReturnAveragePing(t) \/ ReturnLastPing(t)

Next ==
  \/ SetUp \/ HostRefused \/ Spawn \/ Shutdown \/ RakPeer_drop
  \/ AskIndex \/ AskAddress \/ AskTarget \/ Quit
  \/ \E t \in Thread : Call(t) \/ Return(t)
  \/ \E s \in System, i \in Slot : Accept(s, i)
  \/ \E i \in Slot : Lose(i)

Spec == Init /\ [][Next]_vars

-----------------------------------------------------------------------------
TypeOK ==
  /\ raknet.timeout \in Nat /\ raknet.incoming \in 0 .. Cardinality(Slot)
  /\ \A i \in Slot : raknet.guid[i] \in RakNetGUID
  /\ \A t \in Thread :
       /\ AddressToC(known[t].address) \in SystemAddress
       /\ At(t, "in") /\ call[t].method \in {"CloseConnection", "GetLastPing"}
            => Mem(t).target \in AddressOrGUID
       /\ At(t, "out") /\ call[t].method = "GetStatistics"
            => call[t].result = NULL \/ call[t].result[1] \in RakNetStatistics
       /\ At(t, "in") /\ call[t].method = "Connect"
            => Mem(t).publicKey \in PublicKey({NULL, <<1>>, <<Own>>})
       /\ At(t, "in") /\ call[t].method = "Startup"
            => Mem(t).descriptor \in SocketDescriptor

\* What RakNet makes of the structures and strings a method passes is what the
\* program meant: the same system, host and key, however the address came
\* about, whatever is in the slot its index names by now, and while the
\* method's copies are alive (rakpeer.rs: the conversions and every method
\* with a pointer argument; the password of Connect is a property of its own).
ArgumentsArrive ==
  \A t \in Thread : At(t, "out") =>
    \A a \in DOMAIN call[t].meant \ {"password"} :
      call[t].seen[a] = call[t].meant[a]

\* The password RakNet compares is the one the program passed to Connect
\* (rakpeer.rs:1058-1062).
PasswordArrives ==
  \A t \in Thread : At(t, "out") /\ call[t].method = "Connect" =>
    call[t].seen.password = call[t].meant.password

\* A pointer the C function returned is read while what it points to is there:
\* RakNet's list of systems until Shutdown, as many local addresses as RakNet
\* said (rakpeer.rs:1089-1095, 1114; the programs' main threads shut the peer
\* down once the console has set stop and calls nothing more).
PointersLive ==
  \A t \in Thread : At(t, "out") =>
    /\ call[t].method = "GetGuidFromSystemAddress" /\ call[t].result.to = "list"
         => raknet.active
    /\ call[t].method = "GetLocalIP" => call[t].result # NULL

\* An answer is about the system that was asked for, or says that there is
\* none: also when that system leaves and another one takes its slot while
\* the call is going on.  Only a GUID may be the newcomer's, if the slot
\* changed hands before the method has read it through its pointer.
AnswersAboutAsked ==
  \A t \in Thread : answer[t].method # "none" =>
    answer[t].of \subseteq answer[t].meant \/ answer[t].moved

\* Every connection a server of these programs accepts is secured with its
\* keys, from the first one on (chat_server.rs:18-42, proxy.rs:118-139).
SecuredConnections ==
  \A i \in Slot : raknet.slot[i].system # Nobody /\ raknet.incoming > 0
    => raknet.slot[i].secured = {Own}

=============================================================================
