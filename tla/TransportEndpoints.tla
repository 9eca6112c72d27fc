------------------------ MODULE TransportEndpoints ------------------------
(***************************************************************************)
(* How endpoints come and go: the factories of clients, servers and files, *)
(* the translation of their configurations into socket options, the        *)
(* sockets that transport_socket.c creates option by option, the clean-up  *)
(* of a creation that fails half-way, and the socket files of unix         *)
(* servers, which outlive a process that ends without closing them.  The   *)
(* factories run without an await between the first native call and the    *)
(* registration, so a creation is one step.                                *)
(*                                                                         *)
(* EndpointSpec and its parts have names of their own: the proofs about    *)
(* the transport extend this module together with TransportShutdown.       *)
(***************************************************************************)
EXTENDS Naturals, FiniteSets

CONSTANTS
  Fd,        \* the descriptor numbers the process may have
  Path,      \* paths of unix sockets
  Address,   \* IP addresses of datagram clients
  Settings,  \* Settings[k]: the configurations that are tried for kind k
  None, Stale

ASSUME FdAssumption == Fd \subseteq Nat \ {0} /\ IsFiniteSet(Fd)
ASSUME NoneAssumption == {None, Stale} \cap (Fd \cup Path \cup Address) = {} /\ None # Stale

Servers == {"tcpServer", "udpServer", "unixServer"}
Clients == {"tcpClient", "udpClient", "unixClient"}
EndpointKind == Servers \cup Clients \cup {"file"}

\* The optional fields of the configuration classes that concern the socket.
CommonFields ==
  {"socketReceiveBufferSize", "socketSendBufferSize", "socketNonblock", "socketCloexec",
   "socketReceiveLowAt", "socketSendLowAt"}
TcpFields == CommonFields \cup
  {"socketReuseAddress", "socketReusePort", "socketKeepalive", "ipTtl", "ipFreebind",
   "tcpQuickack", "tcpDeferAccept", "tcpFastopen", "tcpNoDelay", "tcpKeepAliveIdle",
   "tcpKeepAliveMaxCount", "tcpKeepAliveIndividualCount", "tcpMaxSegmentSize", "tcpSynCount"}
UdpFields == CommonFields \cup
  {"socketReuseAddress", "socketReusePort", "socketBroadcast", "ipTtl", "ipFreebind",
   "ipMulticastAll", "ipMulticastInterface", "ipMulticastLoop", "ipMulticastTtl"}
UnixFields == CommonFields \cup {"socketKeepalive"}

Fields ==
  [tcpServer |-> TcpFields, tcpClient |-> TcpFields,
   udpServer |-> UdpFields, udpClient |-> UdpFields,
   unixServer |-> UnixFields, unixClient |-> UnixFields,
   file |-> {}]

\* A configuration sets fields that its class has.
ASSUME SettingsAssumption == \A k \in EndpointKind : Settings[k] \subseteq SUBSET Fields[k]

VARIABLES
  open,        \* the open descriptors of the process
  registered,  \* the registries: descriptor -> endpoint
  files,       \* what a path leads to: a listening descriptor, a stale file, nothing
  last,        \* the configuration of the endpoint created last
  leaked,      \* history: descriptors that a failed creation left open
  unlinked     \* history: paths that a client removed below an open server

endpointVars == <<open, registered, files, last, leaked, unlinked>>

----------------------------------------------------------------------------
(* A configuration is the set of its fields that are set; the value of a   *)
(* field stands for itself.  A socket option is a pair of its name and of  *)
(* the field it takes its value from.                                      *)

\* The options that each kind of socket knows; they are set one after the
\* other and the first that fails ends the creation.
TcpOptions == {"NONBLOCK", "CLOEXEC", "REUSEADDR", "REUSEPORT", "RCVBUF", "SNDBUF",
  "KEEPALIVE", "RCVLOWAT", "SNDLOWAT", "TTL", "FREEBIND", "QUICKACK", "DEFER_ACCEPT",
  "FASTOPEN", "KEEPIDLE", "KEEPCNT", "KEEPINTVL", "MAXSEG", "NODELAY", "SYNCNT"}
UdpOptions == {"NONBLOCK", "CLOEXEC", "REUSEADDR", "REUSEPORT", "RCVBUF", "SNDBUF",
  "BROADCAST", "RCVLOWAT", "SNDLOWAT", "TTL", "FREEBIND", "MULTICAST_ALL",
  "MULTICAST_IF", "MULTICAST_LOOP", "MULTICAST_TTL"}
UnixOptions == {"NONBLOCK", "CLOEXEC", "RCVBUF", "SNDBUF", "KEEPALIVE", "RCVLOWAT",
  "SNDLOWAT"}

Options ==
  [tcpServer |-> TcpOptions, tcpClient |-> TcpOptions,
   udpServer |-> UdpOptions, udpClient |-> UdpOptions,
   unixServer |-> UnixOptions, unixClient |-> UnixOptions,
   file |-> {}]

\* Mutant: the options of the two buffer sizes are exchanged.
UnixConfigurationSwapped ==
  {<<"NONBLOCK", "socketNonblock">>, <<"CLOEXEC", "socketCloexec">>,
   <<"KEEPALIVE", "socketKeepalive">>,
   <<"RCVBUF", "socketSendBufferSize">>, <<"SNDBUF", "socketReceiveBufferSize">>,
   <<"RCVLOWAT", "socketReceiveLowAt">>, <<"SNDLOWAT", "socketSendLowAt">>}
\* A translation pairs an option with the field whose presence sets its flag
\* and whose value is passed with it.
UnixConfiguration ==
  {<<"NONBLOCK", "socketNonblock">>, <<"CLOEXEC", "socketCloexec">>,
   <<"KEEPALIVE", "socketKeepalive">>,
   <<"RCVBUF", "socketReceiveBufferSize">>, <<"SNDBUF", "socketSendBufferSize">>,
   <<"RCVLOWAT", "socketReceiveLowAt">>, <<"SNDLOWAT", "socketSendLowAt">>}

\* tcpNoDelay is not translated, and the interval is taken from the idle time.
TcpClientConfiguration ==
  UnixConfiguration \cup
  {<<"REUSEADDR", "socketReuseAddress">>, <<"REUSEPORT", "socketReusePort">>,
   <<"TTL", "ipTtl">>, <<"FREEBIND", "ipFreebind">>,
   <<"QUICKACK", "tcpQuickack">>, <<"DEFER_ACCEPT", "tcpDeferAccept">>,
   <<"FASTOPEN", "tcpFastopen">>, <<"KEEPIDLE", "tcpKeepAliveIdle">>,
   <<"KEEPCNT", "tcpKeepAliveMaxCount">>, <<"KEEPINTVL", "tcpKeepAliveIdle">>,
   <<"MAXSEG", "tcpMaxSegmentSize">>, <<"SYNCNT", "tcpSynCount">>}
TcpServerConfiguration == TcpClientConfiguration \cup {<<"NODELAY", "tcpNoDelay">>}

\* ipMulticastLoop is an integer that is compared with true: never enabled.
UdpConfiguration ==
  {<<"NONBLOCK", "socketNonblock">>, <<"CLOEXEC", "socketCloexec">>,
   <<"REUSEADDR", "socketReuseAddress">>, <<"REUSEPORT", "socketReusePort">>,
   <<"BROADCAST", "socketBroadcast">>, <<"FREEBIND", "ipFreebind">>,
   <<"RCVBUF", "socketReceiveBufferSize">>, <<"SNDBUF", "socketSendBufferSize">>,
   <<"RCVLOWAT", "socketReceiveLowAt">>, <<"SNDLOWAT", "socketSendLowAt">>,
   <<"TTL", "ipTtl">>, <<"MULTICAST_ALL", "ipMulticastAll">>,
   <<"MULTICAST_IF", "ipMulticastInterface">>, <<"MULTICAST_TTL", "ipMulticastTtl">>}

Configuration ==
  [tcpServer |-> TcpServerConfiguration, tcpClient |-> TcpClientConfiguration,
   udpServer |-> UdpConfiguration, udpClient |-> UdpConfiguration,
   unixServer |-> UnixConfiguration, unixClient |-> UnixConfiguration,
   file |-> {}]

\* What the flags and values of a configuration say.
Flags(k, s) == {t \in Configuration[k] : t[2] \in s}

\* A datagram socket is always given SO_REUSEADDR.
Attempted(k, s) ==
  {t \in Flags(k, s) : t[1] \in Options[k]} \cup
  (IF k \in {"udpServer", "udpClient"} /\ "socketReuseAddress" \notin s
     THEN {<<"REUSEADDR", "always">>} ELSE {})

\* The kernel refuses to change SO_SNDLOWAT, and TCP_SYNCNT, which is set with the
\* size of a uint16_t where it expects an int.
Refused == {"SNDLOWAT", "SYNCNT"}
Settable(k, s) == \A t \in Attempted(k, s) : t[1] \notin Refused

\* fcntl(F_SETFL) ignores O_CLOEXEC.
Effective(k, s) == {t \in Attempted(k, s) : t[1] # "CLOEXEC"}
----------------------------------------------------------------------------
Binds(k) == k \in Servers \cup {"udpClient"}
Listens(k) == k \in {"tcpServer", "unixServer"}
Unix(k) == k \in {"unixServer", "unixClient"}

Free == Fd \ open
\* The kernel gives the lowest free number.
Lowest == CHOOSE fd \in Free : \A other \in Free : fd <= other

EndpointInit ==
  /\ open = {}
  /\ registered = <<>>
  /\ files = [p \in Path |-> None]
  /\ last = None
  /\ leaked = {}
  /\ unlinked = {}

With(f, x, z) == [y \in DOMAIN f \cup {x} |-> IF y = x THEN z ELSE f[y]]
Without(f, x) == [y \in DOMAIN f \ {x} |-> f[y]]

\* Mutant: the descriptor is stored only when the socket is bound.
StructureFdBound(fd, failure) == IF failure = "listen" THEN fd ELSE 0
\* What the native structure says of the descriptor when a creation fails: it
\* is stored when all options are set, before bind.
StructureFd(fd, failure) == IF failure \in {"bind", "listen"} THEN fd ELSE 0

\* Mutant: the clean-up destroys the structure as close() does.
FilesAfterFailureDestroyed(k, p, failure) ==
  IF k = "unixServer" THEN [files EXCEPT ![p] = None] ELSE files
\* The clean-up frees the structure and leaves the path: a listen that fails
\* after the bind leaves a file that nobody serves.
FilesAfterFailure(k, p, failure) ==
  IF k = "unixServer" /\ failure = "listen" THEN [files EXCEPT ![p] = Stale] ELSE files

\* The call that fails: of one of the options, of bind or of listen.
Failures(k, s, p) ==
  {failure \in {"option", "bind", "listen"} :
     /\ failure = "option" => Attempted(k, s) # {}
     /\ failure = "bind" => Settable(k, s) /\ Binds(k)
     /\ failure = "listen" => Settable(k, s) /\ Listens(k) /\ (Unix(k) => files[p] = None)}

\* A call after socket() fails.  The factory closes the descriptor that it
\* finds in the structure, and throws.  (If socket() or open() fails, for want
\* of a descriptor or another reason, nothing has happened.)
CreateFails(k, s, p) ==
  /\ Free # {}
  /\ \E failure \in Failures(k, s, p) :
       /\ IF StructureFd(Lowest, failure) = 0
            THEN open' = open \cup {Lowest}
            ELSE UNCHANGED open
       /\ leaked' = IF failure = "option" THEN leaked \cup {Lowest} ELSE leaked
       /\ files' = FilesAfterFailure(k, p, failure)
  /\ UNCHANGED <<registered, last, unlinked>>

\* Every call succeeds: the endpoint is registered under its descriptor.
RegisterEndpoint(k, p) ==
  /\ Free # {}
  /\ open' = open \cup {Lowest}
  /\ registered' = With(registered, Lowest, [kind |-> k, path |-> p, connecting |-> k = "unixClient"])
  /\ UNCHANGED leaked

OpenSockets(k) == {fd \in DOMAIN registered : registered[fd].kind = k}
ServersOf(p) == {fd \in OpenSockets("unixServer") : registered[fd].path = p}

CreateServer(k, s, p) ==
  /\ k \in Servers /\ Settable(k, s)
  /\ k = "unixServer" => files[p] = None
  /\ RegisterEndpoint(k, p)
  /\ files' = IF k = "unixServer" THEN [files EXCEPT ![p] = Lowest] ELSE files
  /\ unlinked' = IF k = "unixServer" /\ ServersOf(p) = {} THEN unlinked \ {p} ELSE unlinked
  /\ last' = [kind |-> k, settings |-> s]

CreateClient(k, s, p) ==
  /\ k \in {"tcpClient", "unixClient"} /\ Settable(k, s)
  /\ RegisterEndpoint(k, p)
  /\ last' = [kind |-> k, settings |-> s]
  /\ UNCHANGED <<files, unlinked>>

\* The factory passes the address of the source as the native function's
\* destination and the other way round; the socket is bound to the latter.
CreateUdpClient(s, source, destination) ==
  /\ Settable("udpClient", s)
  /\ RegisterEndpoint("udpClient", None)
  /\ last' = [kind |-> "udpClient", settings |-> s,
              asked |-> destination, destination |-> source, bound |-> destination]
  /\ UNCHANGED <<files, unlinked>>

OpenFile ==
  /\ RegisterEndpoint("file", None)
  /\ last' = [kind |-> "file", settings |-> {}]
  /\ UNCHANGED <<files, unlinked>>

Create ==
  \/ \E k \in EndpointKind : \E s \in Settings[k], p \in IF Unix(k) THEN Path ELSE {None} :
       CreateFails(k, s, p) \/ CreateServer(k, s, p) \/ CreateClient(k, s, p)
  \/ \E s \in Settings["udpClient"], source, destination \in Address :
       CreateUdpClient(s, source, destination)
  \/ OpenFile

\* The descriptor is closed and its endpoint leaves the registry.
Release(fd) ==
  /\ open' = open \ {fd}
  /\ registered' = Without(registered, fd)

\* transport_server_destroy, transport_client_destroy: the path of a unix
\* endpoint is removed, whoever listens there.
Unlink(fd) ==
  files' = IF Unix(registered[fd].kind) THEN [files EXCEPT ![registered[fd].path] = None] ELSE files

\* A server with nothing pending, a client or a file is closed.
Close(fd) ==
  /\ Release(fd)
  /\ Unlink(fd)
  /\ unlinked' = IF registered[fd].kind = "unixClient"
                   THEN unlinked \cup {registered[fd].path} ELSE unlinked
  /\ UNCHANGED <<last, leaked>>

\* A connect succeeds only at a path where somebody listens.
Connects(fd) ==
  /\ registered[fd].connecting
  /\ files[registered[fd].path] \in Fd
  /\ registered' = [registered EXCEPT ![fd].connecting = FALSE]
  /\ UNCHANGED <<open, files, last, leaked, unlinked>>

\* The error handler of unixStream closes, removes and destroys the client,
\* also when a server listens at the path and its backlog is full.
ConnectFails(fd) == registered[fd].connecting /\ Close(fd)

\* The process ends without closing anything; another one starts.
Crash ==
  /\ open' = {}
  /\ registered' = <<>>
  /\ files' = [p \in Path |-> IF files[p] \in Fd THEN Stale ELSE files[p]]
  /\ leaked' = {}
  /\ UNCHANGED <<last, unlinked>>

\* An application that knows of stale files removes them before it opens a
\* server, as the tests do.
RemoveStale(p) ==
  /\ files[p] = Stale
  /\ files' = [files EXCEPT ![p] = None]
  /\ UNCHANGED <<open, registered, last, leaked, unlinked>>

EndpointNext ==
  \/ Create
  \/ \E fd \in DOMAIN registered : Close(fd) \/ Connects(fd) \/ ConnectFails(fd)
  \/ Crash
  \/ \E p \in Path : RemoveStale(p)

EndpointSpec == EndpointInit /\ [][EndpointNext]_endpointVars
----------------------------------------------------------------------------
(* Properties.                                                             *)

\* Every open descriptor belongs to a registered endpoint, except those of
\* sockets whose creation failed at an option: the factories close the
\* descriptor of a failed bind or listen, and lose that of a failed option.
DescriptorsAccounted ==
  /\ open = DOMAIN registered \cup leaked
  /\ DOMAIN registered \cap leaked = {}

\* Refuted: a creation that fails leaves no descriptor behind.
NoDescriptorLost == open = DOMAIN registered

\* The path of an open unix server leads to it, and no path leads to a
\* descriptor that is closed or serves something else, as long as no unix
\* client of the path was closed or failed to connect.  Failed creations and
\* servers that come and go on the same path do not matter.
PathsLeadToServers ==
  \A p \in Path :
    /\ files[p] \in Fd => files[p] \in ServersOf(p)
    /\ p \notin unlinked => ServersOf(p) \subseteq {files[p]}

\* Refuted: whatever clients do, an open unix server can be reached.
ServersReachable == \A p \in Path : ServersOf(p) \subseteq {files[p]}

\* The socket option that each field of the configurations is named for.
NamedOption ==
  [socketNonblock |-> "NONBLOCK", socketCloexec |-> "CLOEXEC",
   socketReuseAddress |-> "REUSEADDR", socketReusePort |-> "REUSEPORT",
   socketKeepalive |-> "KEEPALIVE", socketBroadcast |-> "BROADCAST",
   socketReceiveBufferSize |-> "RCVBUF", socketSendBufferSize |-> "SNDBUF",
   socketReceiveLowAt |-> "RCVLOWAT", socketSendLowAt |-> "SNDLOWAT",
   ipTtl |-> "TTL", ipFreebind |-> "FREEBIND",
   ipMulticastAll |-> "MULTICAST_ALL", ipMulticastInterface |-> "MULTICAST_IF",
   ipMulticastLoop |-> "MULTICAST_LOOP", ipMulticastTtl |-> "MULTICAST_TTL",
   tcpQuickack |-> "QUICKACK", tcpDeferAccept |-> "DEFER_ACCEPT",
   tcpFastopen |-> "FASTOPEN", tcpNoDelay |-> "NODELAY",
   tcpKeepAliveIdle |-> "KEEPIDLE", tcpKeepAliveMaxCount |-> "KEEPCNT",
   tcpKeepAliveIndividualCount |-> "KEEPINTVL",
   tcpMaxSegmentSize |-> "MAXSEG", tcpSynCount |-> "SYNCNT"]

Asked(s) == {<<NamedOption[f], f>> : f \in s}
Given == {o \in Effective(last.kind, last.settings) : o[2] # "always"}

\* The fields that have no effect.
Ignored(k) ==
  {"socketCloexec", "ipMulticastLoop", "tcpKeepAliveIndividualCount"}
    \cup (IF k = "tcpClient" THEN {"tcpNoDelay"} ELSE {})

\* A socket that opens has the options that its fields are named for, each with
\* the value of its own field, and no other: except that the fields in Ignored
\* have no effect and the interval of keep-alive probes is set to their idle time.
OptionsAsNamed ==
  last # None =>
    Given \ {<<"KEEPINTVL", "tcpKeepAliveIdle">>} = Asked(last.settings \ Ignored(last.kind))

\* What docs/api/02-configuration.mdx says of fields where it does not say what
\* their names do.
Misnamed(k) ==
       (IF k \in {"tcpClient", "udpClient"}
          THEN {<<"REUSEPORT", "socketReuseAddress">>, <<"REUSEADDR", "socketReusePort">>} ELSE {})
  \cup (IF k = "tcpClient" THEN {<<"NODELAY", "tcpFastopen">>, <<"FASTOPEN", "tcpNoDelay">>} ELSE {})
  \cup (IF k \in {"udpServer", "udpClient"} THEN {<<"KEEPALIVE", "socketBroadcast">>} ELSE {})

Documented(k, s) ==
  LET misnamed == {t \in Misnamed(k) : t[2] \in s} IN
  misnamed \cup Asked(s \ {t[2] : t \in misnamed})

\* Refuted: every field has the effect that the documentation gives for it.
EveryOptionAsDocumented == last # None => Given = Documented(last.kind, last.settings)

\* Refuted: datagrams go to the address that was passed as their destination.
DatagramsGoToDestination ==
  last # None /\ last.kind = "udpClient" => last.destination = last.asked
=============================================================================
