----------------------- MODULE MCTransportEndpoints -----------------------
\* TransportEndpoints with a few configurations of each kind: none, the
\* defaults, numbers only, everything that can be set, and everything.
EXTENDS TransportEndpoints

UnixDefaults ==
  {"socketReceiveBufferSize", "socketSendBufferSize", "socketNonblock", "socketCloexec"}
TcpDefaults == UnixDefaults \cup {"tcpFastopen", "tcpNoDelay", "tcpQuickack", "tcpDeferAccept"}

\* The fields without those of the options that the kernel refuses.
Acceptable(fields) == fields \ {"socketSendLowAt", "tcpSynCount"}

MCSettings ==
  [tcpServer |-> {{}, TcpDefaults \cup {"socketReusePort"}, {"tcpKeepAliveIdle"},
                  Acceptable(TcpFields), TcpFields},
   tcpClient |-> {{}, TcpDefaults, {"tcpKeepAliveIndividualCount"}, Acceptable(TcpFields), {"tcpSynCount"}},
   udpServer |-> {{}, UnixDefaults \cup {"socketReusePort"}, Acceptable(UdpFields)},
   udpClient |-> {{}, UnixDefaults, Acceptable(UdpFields), UdpFields},
   unixServer |-> {UnixDefaults, Acceptable(UnixFields), UnixFields},
   unixClient |-> {UnixDefaults, {"socketReceiveLowAt"}},
   file |-> {{}}]
=============================================================================
