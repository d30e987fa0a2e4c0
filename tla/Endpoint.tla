------------------------------- MODULE Endpoint -------------------------------
(***************************************************************************)
(* The service address of config/endpoint.go and what net.Listen makes of  *)
(* it.  An address is a sequence of tokens: ":" and atoms, each atom       *)
(* standing for a run of characters with no colon in it ("lo" for          *)
(* 127.0.0.1, "any" for 0.0.0.0, the LocalIP atom for this host's          *)
(* interface address, "[" and "]" for IPv6 brackets, and port atoms).     *)
(* Only the colons matter to strings.Split and net.SplitHostPort, so the  *)
(* conversions are modelled on this token level.                           *)
(***************************************************************************)
EXTENDS Naturals, Sequences, SequencesExt

CONSTANTS
    LocalIP,   \* the atom EndPoint.LocalIP() prints: the first non-loopback
               \* IPv4 interface address
    PortOf     \* the port atoms, and the number strconv.Atoi reads in each

Colon == ":"

\* strings.Split(addr, ":"): the runs between colons; the empty string is
\* one empty run.
Split(addr) ==
    FoldLeft(LAMBDA acc, e : IF e = Colon THEN Append(acc, <<>>)
                             ELSE [acc EXCEPT ![Len(acc)] = Append(@, e)],
             <<<<>>>>, addr)

\* strconv.Atoi with its error dropped: a run that is one port atom reads
\* as its number, anything else as 0.
Atoi(run) == IF Len(run) = 1 /\ run[1] \in DOMAIN PortOf THEN PortOf[run[1]]
             ELSE 0

\* Mutant: the port read from the run before the first colon.
GetPortFirstRun(addr) ==
    CASE addr = <<>>           -> 0
      [] Len(Split(addr)) = 1  -> 80
      [] OTHER                 -> Atoi(Split(addr)[1])

\* EndPoint.GetPort, lines 48-59: "" is 0, an address with no colon is 80,
\* otherwise the run after the first colon.
GetPort(addr) ==
    CASE addr = <<>>           -> 0
      [] Len(Split(addr)) = 1  -> 80
      [] OTHER                 -> Atoi(Split(addr)[2])

-----------------------------------------------------------------------------
(* net.Listen("tcp", addr), ServiceDesc.Listen (runtime/service.go 26-28): *)
(* net.SplitHostPort cuts at the last colon, and a host that contains a    *)
(* colon must be bracketed.                                                *)

LastColon(addr) ==
    LET at == {i \in DOMAIN addr : addr[i] = Colon}
    IN IF at = {} THEN 0 ELSE CHOOSE i \in at : \A j \in at : j <= i

ListenHost(addr) == SubSeq(addr, 1, LastColon(addr) - 1)
ListenPort(addr) == Atoi(SubSeq(addr, LastColon(addr) + 1, Len(addr)))

Bracketed(host) ==
    Len(host) >= 2 /\ host[1] = "[" /\ host[Len(host)] = "]"

\* Listen succeeds: there is a port, and a host with a colon is bracketed.
Listens(addr) ==
    /\ LastColon(addr) > 0
    /\ ListenPort(addr) # 0
    /\ Colon \in ToSet(ListenHost(addr)) => Bracketed(ListenHost(addr))

\* The host part binds every interface: empty, 0.0.0.0 or [::].
Wildcard(host) ==
    host \in {<<>>, <<"any">>, <<"[", Colon, Colon, "]">>}

\* A TCP connection to LocalIP:port reaches the listener on addr.
Reaches(addr, port) ==
    /\ Listens(addr)
    /\ Wildcard(ListenHost(addr)) \/ ListenHost(addr) = <<LocalIP>>
    /\ port = ListenPort(addr)

=============================================================================
