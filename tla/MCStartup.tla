------------------------------ MODULE MCStartup ------------------------------
(* Lists of interface addresses for checking Startup with TLC.             *)
EXTENDS Startup

\* Loopback only; with an IPv6 loopback; an interface with IPv4; one behind an
\* interface without an address.
MCInterfaces == {<<"packet", "127.0.0.1">>, <<"packet", "127.0.0.1", "::1">>,
                 <<"packet", "127.0.0.1", "ipv4", "::1", "ipv6">>, <<"127.0.0.1", "null", "ipv4">>}
==============================================================================
