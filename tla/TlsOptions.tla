----------------------------- MODULE TlsOptions ------------------------------
(***************************************************************************)
(* Command-line options of ssl_client2.c and ssl_server2.c.  Both parse    *)
(* their options with the same code (the server's is a copy of the         *)
(* client's).  An argument is <<key, value>>, or <<word>> without "=".  An *)
(* option that is only handed to the library is checked and not kept.      *)
(***************************************************************************)
EXTENDS TlsWire, SequencesExt

CONSTANTS CurveMax,     \* CURVE_LIST_SIZE - 1
          KnownCurves,  \* names the library knows
          FragLens      \* accepted values of max_frag_len: 512, 1024, 2048, 4096

ASSUME OptionsAssumption == CurveMax \in Nat /\ FragLens \subseteq 1..MaxContent

\* Minor version numbers.
Minor == [ssl3 |-> 0, tls1 |-> 1, tls1_1 |-> 2, dtls1 |-> 2, tls1_2 |-> 3, dtls1_2 |-> 3]

\* The options of two parts of the list.
AllOf(f, g) == [k \in DOMAIN f \cup DOMAIN g |-> IF k \in DOMAIN f THEN f[k] ELSE g[k]]

\* The assignment for one option.
SetOption(o, k, v) ==
    CASE k = "force_version" ->
            [o EXCEPT !.min_version = Minor[v], !.max_version = Minor[v],
                      !.transport = IF v \in {"dtls1", "dtls1_2"} THEN 1 ELSE @]
      [] k \in {"min_version", "max_version"} -> [o EXCEPT ![k] = Minor[v]]
      [] k = "dtls" -> [o EXCEPT !.transport = v]
      [] k = "renegotiation" -> [o EXCEPT !.renegotiation = (v # 0)]
      [] OTHER -> IF k \in DOMAIN o THEN [o EXCEPT ![k] = v] ELSE o

\* ret after one argument; every value but 0 ends the loop over argv with usage.
Usage(accepts, a) ==
    IF Len(a) = 1 \/ a[1] \notin DOMAIN accepts THEN 1
    ELSE IF a[2] \in accepts[a[1]] THEN 0
    ELSE IF a[1] = "force_ciphersuite" THEN 2 ELSE 1

\* The options after one argument.
ParseArg(accepts, o, a) == IF Usage(accepts, a) = 0 THEN SetOption(o, a[1], a[2]) ELSE o

\* Variant with a mistake: an upper end that is not given stays open.
ForceSuiteKeepsMax(o) ==
    LET s == Suites[o.force_ciphersuite]
    IN  [o |-> IF o.force_ciphersuite = "" THEN o
               ELSE [o EXCEPT !.min_version = IF @ < s.min THEN s.min ELSE @,
                              !.arc4 = IF s.rc4 THEN 1 ELSE @],
         ret |-> 0]

\* A forced ciphersuite narrows the version range to the versions it supports.
ForceSuite(o) ==
    LET s == Suites[o.force_ciphersuite]
        Clash == \/ o.max_version # -1 /\ s.min > o.max_version
                 \/ o.min_version # -1 /\ s.max < o.min_version
        max == IF o.max_version = -1 \/ o.max_version > s.max THEN s.max ELSE o.max_version
        min == IF o.min_version >= s.min THEN o.min_version
               ELSE IF o.transport = 1 /\ s.min < 2 THEN 2 ELSE s.min
    IN  IF o.force_ciphersuite = "" THEN [o |-> o, ret |-> 0]
        ELSE IF Clash \/ (s.rc4 /\ o.arc4 = 0) THEN [o |-> o, ret |-> 2]
        ELSE [o |-> [o EXCEPT !.max_version = max, !.min_version = min,
                              !.arc4 = IF s.rc4 THEN 1 ELSE @],
              ret |-> 0]

\* The list of curves: every name up to CurveMax must be known, and there may
\* be no more.
CurvesOk(curves) ==
    \/ curves \in {<<>>, <<"none">>, <<"default">>}
    \/ Len(curves) <= CurveMax /\ \A i \in DOMAIN curves : curves[i] \in KnownCurves

\* The part of the library's configuration that the handshake depends on.
Configured(o, suites, requiredByDefault) ==
    [min |-> IF o.min_version = -1 THEN 1 ELSE o.min_version,
     max |-> IF o.max_version = -1 THEN 3 ELSE o.max_version,
     suites |-> suites,
     arc4 |-> o.arc4 = 1,
     verify |-> o.auth_mode = "required" \/ (o.auth_mode = "" /\ requiredByDefault),
     renegotiation |-> o.renegotiation]

AllSuites(o) ==
    [v \in 0..3 |-> IF o.force_ciphersuite = "" THEN DOMAIN Suites ELSE {o.force_ciphersuite}]
==============================================================================
