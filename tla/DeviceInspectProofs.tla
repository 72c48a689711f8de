------------------------- MODULE DeviceInspectProofs -------------------------
(***************************************************************************)
(* Theorems about DeviceInspect, for any number of endpoints that fail:    *)
(* first what the tables of the nine drivers have in common, then what an  *)
(* inspection makes of them.                                               *)
(***************************************************************************)
EXTENDS DeviceInspect, FunctionTheorems, FiniteSetTheorems, TLAPS

-----------------------------------------------------------------------------
(* Verdicts *)

\* A verdict that passes the wanted value alone, or also class c.
Wide(v, C) == /\ "good" \in DOMAIN v /\ DOMAIN v \subseteq Classes
              /\ \A c \in DOMAIN v : v[c] = "pass" => c \in {"good", "there", "off"} \cup C
Strict(v) == Wide(v, {})

\* An item passes only where the property allows it.
Fair(i, v) == \A c \in DOMAIN v :
    v[c] = "pass" => c \in {"good", "there", "off"} \/ <<i, c>> \in Lenient

\* A row judges every class whichever of its endpoints was read, and fairly.
FairRow(r) ==
    /\ "good" \in DOMAIN r.both /\ DOMAIN r.both \subseteq Classes
    /\ DOMAIN r.only = DOMAIN r.both
    /\ DOMAIN r.other \in {{}, DOMAIN r.both}
    /\ Fair(r.id, r.both) /\ Fair(r.id, r.only)

\* The rows A judge the items S, each once; where an endpoint is missed as a
\* group, the group names the items of its rows.
Table(A, S) == /\ Ids(A) = S
               /\ \A q, r \in A : q.id = r.id => q = r
               /\ \A r \in A : FairRow(r)
ApiTable(A, S, g) == /\ Table(A, S)
                     /\ \A r \in A : /\ Fair(r.id, r.other)
                                     /\ r.from \in DOMAIN g => r.id \in g[r.from] \cup OwnBranch
CliTable(A, S, n) == /\ Table(A, S)
                     /\ \A r \in A : /\ r.also = "config" /\ DOMAIN r.other # {}
                                     /\ r.from \in n

LEMMA OnePair ==
  ASSUME NEW e, NEW f, NEW v, NEW o, NEW p, NEW ids,
         "good" \in DOMAIN v, DOMAIN v \subseteq Classes, DOMAIN o = DOMAIN v,
         DOMAIN p \in {{}, DOMAIN v}, \A i \in ids : Fair(i, v) /\ Fair(i, o)
  PROVE  /\ Table(Pairs(e, f, v, o, p, ids), ids)
         /\ \A r \in Pairs(e, f, v, o, p, ids) :
              r.from = e /\ r.also = f /\ r.other = p /\ r.id \in ids
  <1> DEFINE A == Pairs(e, f, v, o, p, ids)
  <1>1. \A r \in A : \E i \in ids :
          r = [id |-> i, from |-> e, also |-> f, both |-> v, only |-> o, other |-> p]
    BY DEF Pairs
  <1>2. \A i \in ids :
          [id |-> i, from |-> e, also |-> f, both |-> v, only |-> o, other |-> p] \in A
    BY DEF Pairs
  <1> HIDE DEF A
  <1>3. Ids(A) = ids
    <2>1. \A i \in ids : \E r \in A : r.id = i
      BY <1>2
    <2>2. \A r \in A : r.id \in ids
      BY <1>1
    <2> QED
      BY <2>1, <2>2 DEF Ids
  <1>4. \A q, r \in A : q.id = r.id => q = r
    BY <1>1
  <1>5. \A r \in A : FairRow(r) /\ r.from = e /\ r.also = f /\ r.other = p /\ r.id \in ids
    BY <1>1 DEF FairRow
  <1> QED
    BY <1>3, <1>4, <1>5 DEF Table, A

LEMMA WideIsFair ==
  ASSUME NEW v, NEW C, Wide(v, C), NEW ids, \A i \in ids, c \in C : <<i, c>> \in Lenient
  PROVE  \A i \in ids : Fair(i, v)
  BY DEF Wide, Fair

LEMMA WideRows ==
  ASSUME NEW e, NEW v, NEW C, NEW ids, NEW g, Wide(v, C),
         \A i \in ids, c \in C : <<i, c>> \in Lenient,
         e \in DOMAIN g => ids \subseteq g[e] \cup OwnBranch
  PROVE  ApiTable(Rows(e, v, ids), ids, g)
  <1>1. DOMAIN NoVerdict = {}
    BY DEF NoVerdict
  <1>2. \A i : Fair(i, NoVerdict)
    BY <1>1 DEF Fair
  <1>3. \A i \in ids : Fair(i, v)
    BY WideIsFair
  <1> DEFINE A == Pairs(e, e, v, v, NoVerdict, ids)
  <1>4. /\ Table(A, ids)
        /\ \A r \in A : r.from = e /\ r.other = NoVerdict /\ r.id \in ids
    BY <1>1, <1>3, OnePair DEF Wide
  <1> HIDE DEF A
  <1>5. ApiTable(A, ids, g)
    BY <1>2, <1>4 DEF ApiTable
  <1> QED
    BY <1>5 DEF Rows, A

LEMMA StrictRows ==
  ASSUME NEW e, NEW v, NEW ids, NEW g, Strict(v),
         e \in DOMAIN g => ids \subseteq g[e] \cup OwnBranch
  PROVE  ApiTable(Rows(e, v, ids), ids, g)
  BY WideRows DEF Strict

LEMMA WidePairs ==
  ASSUME NEW e, NEW f, NEW v, NEW o, NEW p, NEW C, NEW ids, NEW g,
         Wide(v, C), Wide(o, C), DOMAIN o = DOMAIN v,
         p = NoVerdict \/ (Wide(p, C) /\ DOMAIN p = DOMAIN v),
         \A i \in ids, c \in C : <<i, c>> \in Lenient,
         e \in DOMAIN g => ids \subseteq g[e] \cup OwnBranch
  PROVE  ApiTable(Pairs(e, f, v, o, p, ids), ids, g)
  <1>1. DOMAIN NoVerdict = {} /\ \A i : Fair(i, NoVerdict)
    BY DEF NoVerdict, Fair
  <1>2. \A i \in ids : Fair(i, v) /\ Fair(i, o) /\ Fair(i, p)
    BY <1>1 DEF Wide, Fair
  <1>3. DOMAIN p \in {{}, DOMAIN v}
    BY <1>1
  <1>4. "good" \in DOMAIN v /\ DOMAIN v \subseteq Classes
    BY DEF Wide
  <1> DEFINE A == Pairs(e, f, v, o, p, ids)
  <1>5. /\ Table(A, ids)
        /\ \A r \in A : r.from = e /\ r.other = p /\ r.id \in ids
    BY <1>2, <1>3, <1>4, OnePair
  <1> HIDE DEF A
  <1>6. ApiTable(A, ids, g)
    BY <1>2, <1>5 DEF ApiTable
  <1> QED
    BY <1>6 DEF A

LEMMA StrictPairs ==
  ASSUME NEW e, NEW f, NEW v, NEW o, NEW p, NEW ids, NEW g,
         Strict(v), Strict(o), DOMAIN o = DOMAIN v,
         p = NoVerdict \/ (Strict(p) /\ DOMAIN p = DOMAIN v),
         e \in DOMAIN g => ids \subseteq g[e] \cup OwnBranch
  PROVE  ApiTable(Pairs(e, f, v, o, p, ids), ids, g)
  BY WidePairs DEF Strict

LEMMA WideLines ==
  ASSUME NEW e, NEW v, NEW C, NEW ids, NEW n, Wide(v, C), e \in n,
         \A i \in ids, c \in C : <<i, c>> \in Lenient
  PROVE  CliTable(Lines(e, v, ids), ids, n)
  <1>1. DOMAIN Always(v.absent, v) = DOMAIN v
    BY DEF Always
  <1>2. DOMAIN v # {}
    BY DEF Wide
  <1>3. \A i \in ids : Fair(i, v)
    BY WideIsFair
  <1> DEFINE p == Always(v.absent, v)
             A == Pairs(e, "config", v, v, p, ids)
  <1>4. /\ Table(A, ids)
        /\ \A r \in A : r.from = e /\ r.also = "config" /\ r.other = p
    BY <1>1, <1>3, OnePair DEF Wide
  <1>5. DOMAIN p # {}
    BY <1>1, <1>2
  <1> HIDE DEF A, p
  <1>6. CliTable(A, ids, n)
    BY <1>4, <1>5 DEF CliTable
  <1> QED
    BY <1>6 DEF Lines, A, p

LEMMA StrictLines ==
  ASSUME NEW e, NEW v, NEW ids, NEW n, Strict(v), e \in n
  PROVE  CliTable(Lines(e, v, ids), ids, n)
  BY WideLines DEF Strict

LEMMA Joined ==
  ASSUME NEW A, NEW B, NEW S, NEW T, Table(A, S), Table(B, T), S \cap T = {}
  PROVE  Table(A \cup B, S \cup T)
  <1>1. \A q \in A, r \in B : q.id # r.id
    BY DEF Table, Ids
  <1> QED
    BY <1>1 DEF Table, Ids

LEMMA ApiJoined ==
  ASSUME NEW A, NEW B, NEW S, NEW T, NEW g, ApiTable(A, S, g), ApiTable(B, T, g), S \cap T = {}
  PROVE  ApiTable(A \cup B, S \cup T, g)
  BY Joined DEF ApiTable

LEMMA CliJoined ==
  ASSUME NEW A, NEW B, NEW S, NEW T, NEW n, CliTable(A, S, n), CliTable(B, T, n), S \cap T = {}
  PROVE  CliTable(A \cup B, S \cup T, n)
  BY Joined DEF CliTable

LEMMA ApiThree ==
  ASSUME NEW A, NEW B, NEW C, NEW S, NEW T, NEW U, NEW g,
         ApiTable(A, S, g), ApiTable(B, T, g), ApiTable(C, U, g),
         S \cap T = {}, (S \cup T) \cap U = {}
  PROVE  ApiTable(A \cup B \cup C, S \cup T \cup U, g)
  <1>1. ApiTable(A \cup B, S \cup T, g)
    BY ApiJoined
  <1> QED
    BY <1>1, ApiJoined

LEMMA ApiFour ==
  ASSUME NEW A, NEW B, NEW C, NEW D, NEW S, NEW T, NEW U, NEW V, NEW g,
         ApiTable(A, S, g), ApiTable(B, T, g), ApiTable(C, U, g), ApiTable(D, V, g),
         S \cap T = {}, (S \cup T) \cap U = {}, (S \cup T \cup U) \cap V = {}
  PROVE  ApiTable(A \cup B \cup C \cup D, S \cup T \cup U \cup V, g)
  <1>1. ApiTable(A \cup B \cup C, S \cup T \cup U, g)
    BY ApiThree
  <1> QED
    BY <1>1, ApiJoined

LEMMA CliFour ==
  ASSUME NEW A, NEW B, NEW C, NEW D, NEW S, NEW T, NEW U, NEW V, NEW n,
         CliTable(A, S, n), CliTable(B, T, n), CliTable(C, U, n), CliTable(D, V, n),
         S \cap T = {}, (S \cup T) \cap U = {}, (S \cup T \cup U) \cap V = {}
  PROVE  CliTable(A \cup B \cup C \cup D, S \cup T \cup U \cup V, n)
  <1>1. CliTable(A \cup B, S \cup T, n)
    BY CliJoined
  <1>2. CliTable(A \cup B \cup C, S \cup T \cup U, n)
    BY <1>1, CliJoined
  <1> QED
    BY <1>2, CliJoined

\* The verdicts shared by the drivers.
LEMMA Verdicts ==
  /\ Strict(Present) /\ Strict(Wanted) /\ Strict(Flag) /\ Strict(Number) /\ Strict(Listed)
  /\ Wide(Unlisted, {"absent"}) /\ Wide(Account, {"empty"})
  /\ Wide(Flag ++ Odd, {"odd"}) /\ Wide(Flag ++ Half, {"half"})
  /\ Wide(Present ++ Odd, {"odd"})
  <1>1. Strict(Present) /\ Strict(Flag) /\ Strict(Listed)
    BY DEF Strict, Wide, Classes, Present, Flag, Listed
  <1>2. Strict(Wanted) /\ Strict(Number)
    BY DEF Strict, Wide, Classes, Present, Flag, Wanted, Number, ++
  <1>3. Wide(Unlisted, {"absent"}) /\ Wide(Account, {"empty"})
    BY DEF Wide, Classes, Unlisted, Account
  <1>4. /\ Wide(Flag ++ Odd, {"odd"}) /\ Wide(Flag ++ Half, {"half"})
        /\ Wide(Present ++ Odd, {"odd"})
    BY DEF Wide, Classes, Flag, Present, Odd, Half, ++
  <1> QED
    BY <1>1, <1>2, <1>3, <1>4

-----------------------------------------------------------------------------
(* Tables, driver by driver: one step for the rows of one endpoint and one *)
(* verdict, then their union. <1>g is about the groups of items missed     *)
(* together, a step s about the verdicts of this driver alone.             *)

LEMMA FortigateTable ==
  ApiTable(FortigateBasics \cup FortigateGlobal \cup FortigateAccess \cup FortigateLogs,
           FortigateItems, FortigateGroups)
  <1> DEFINE g == FortigateGroups
  <1>0. /\ DOMAIN g = {"global"}
        /\ g["global"] = {"fgt-prelogin-banner", "fgt-postlogin-banner", "fgt-hostname",
                 "fgt-timezone", "fgt-tls-version", "fgt-idle-timeout", "fgt-lockout",
                 "fgt-strong-crypto", "fgt-admin-telnet", "fgt-admin-ports",
                 "fgt-ssl-static-keys", "fgt-gui-hostname", "fgt-cpu-log"}
    BY DEF FortigateGroups
  <1> HIDE DEF g
  <1>1. ApiTable(FortigateBasics, {"fgt-dns", "fgt-wan-mgmt"}, g)
    <2>1. ApiTable(Rows("dns", Wanted, {"fgt-dns"}), {"fgt-dns"}, g)
      BY <1>0, StrictRows, Verdicts
    <2>2. ApiTable(Rows("interface", Unlisted, {"fgt-wan-mgmt"}), {"fgt-wan-mgmt"}, g)
      BY <1>0, WideRows, Verdicts DEF Lenient
    <2> QED
      BY <2>1, <2>2, ApiJoined DEF FortigateBasics
  <1>2. ApiTable(FortigateGlobal, g["global"], g)
    <2> DEFINE T(v, ids) == ApiTable(Rows("global", v, ids), ids, g)
    <2>1. T(Wanted, {"fgt-prelogin-banner", "fgt-postlogin-banner", "fgt-strong-crypto",
                     "fgt-admin-ports"})
      BY <1>0, StrictRows, Verdicts
    <2>2. T(Present, {"fgt-timezone"})
      BY <1>0, StrictRows, Verdicts
    <2> DEFINE v3 == [good |-> "pass", bad |-> "warn", absent |-> "warn"]
    <2>3. T(v3, {"fgt-hostname"})
      <3>1. Strict(v3)
        BY DEF Strict, Wide, Classes
      <3> QED
        BY <1>0, <3>1, StrictRows
    <2>4. T(Flag ++ Soft ++ Odd, {"fgt-tls-version"})
      <3>1. Wide(Flag ++ Soft ++ Odd, {"odd"})
        BY DEF Wide, Classes, Flag, Soft, Odd, ++
      <3> QED
        BY <1>0, <3>1, WideRows DEF Lenient
    <2>5. T(Number ++ Soft, {"fgt-idle-timeout"})
      <3>1. Strict(Number ++ Soft)
        BY DEF Strict, Wide, Classes, Flag, Number, Soft, ++
      <3> QED
        BY <1>0, <3>1, StrictRows
    <2>6. T(Number, {"fgt-lockout"})
      BY <1>0, StrictRows, Verdicts
    <2>7. T(Flag, {"fgt-admin-telnet", "fgt-ssl-static-keys", "fgt-gui-hostname", "fgt-cpu-log"})
      BY <1>0, StrictRows, Verdicts
    <2> DEFINE R(v, ids) == Rows("global", v, ids)
               A4 == R(Wanted, {"fgt-prelogin-banner", "fgt-postlogin-banner",
                                "fgt-strong-crypto", "fgt-admin-ports"})
                     \cup R(Present, {"fgt-timezone"})
                     \cup R(v3, {"fgt-hostname"})
                     \cup R(Flag ++ Soft ++ Odd, {"fgt-tls-version"})
               S4 == {"fgt-prelogin-banner", "fgt-postlogin-banner", "fgt-strong-crypto",
                      "fgt-admin-ports", "fgt-timezone", "fgt-hostname", "fgt-tls-version"}
    <2>8. ApiTable(A4, S4, g)
      BY <2>1, <2>2, <2>3, <2>4, ApiFour
    <2> QED
      BY <1>0, <2>5, <2>6, <2>7, <2>8, ApiFour DEF FortigateGlobal
  <1> DEFINE access == {"fgt-encrypted-mgmt", "fgt-trusthost", "fgt-admin-default", "fgt-pwd-policy",
                        "fgt-ntp"}
             logs == {"fgt-snmp-v1v2c", "fgt-syslog", "fgt-event-logging", "fgt-faz-encryption",
                      "fgt-usb-autoinstall"}
  <1>3. ApiTable(FortigateAccess, access, g)
    <2> DEFINE T(e, v, ids) == ApiTable(Rows(e, v, ids), ids, g)
               v1 == [good |-> "pass", bad |-> "fail", empty |-> "pass"]
    <2>1. T("interface", Unlisted, {"fgt-encrypted-mgmt"})
      BY <1>0, WideRows, Verdicts DEF Lenient
    <2>2. T("admin", v1, {"fgt-trusthost"})
      <3>1. Wide(v1, {"empty"})
        BY DEF Wide, Classes
      <3> QED
        BY <1>0, <3>1, WideRows DEF Lenient
    <2>3. T("admin", Account, {"fgt-admin-default"})
      BY <1>0, WideRows, Verdicts DEF Lenient
    <2>4. T("pwd_policy", Number, {"fgt-pwd-policy"})
      BY <1>0, StrictRows, Verdicts
    <2>5. T("ntp", Wanted, {"fgt-ntp"})
      BY <1>0, StrictRows, Verdicts
    <2>6. ApiTable(Rows("interface", Unlisted, {"fgt-encrypted-mgmt"})
                   \cup Rows("admin", v1, {"fgt-trusthost"})
                   \cup Rows("admin", Account, {"fgt-admin-default"})
                   \cup Rows("pwd_policy", Number, {"fgt-pwd-policy"}),
                   {"fgt-encrypted-mgmt", "fgt-trusthost", "fgt-admin-default", "fgt-pwd-policy"}, g)
      BY <2>1, <2>2, <2>3, <2>4, ApiFour
    <2> QED
      BY <2>5, <2>6, ApiJoined DEF FortigateAccess
  <1>4. ApiTable(FortigateLogs, logs, g)
    <2> DEFINE T(e, v, ids) == ApiTable(Rows(e, v, ids), ids, g)
               off == [off |-> "pass"] ++ Odd
               snmp == Flag ++ off
               snmpOnly == off ++ Always("manual", snmp)
               syslog == Wanted ++ Soft
               syslogOnly == [soft |-> "fail"] ++ syslog
               faz == [good |-> "pass", bad |-> "fail", absent |-> "na"] ++ Unused
    <2>1. ApiTable(Pairs("snmp_sysinfo", "snmp_community", snmp, snmpOnly, NoVerdict,
                         {"fgt-snmp-v1v2c"}), {"fgt-snmp-v1v2c"}, g)
      <3>1. Wide(snmp, {"odd"}) /\ Wide(snmpOnly, {"odd"}) /\ DOMAIN snmpOnly = DOMAIN snmp
        BY DEF Wide, Classes, Flag, Odd, Always, ++
      <3> HIDE DEF snmp, snmpOnly
      <3> QED
        BY <1>0, <3>1, WidePairs DEF Lenient
    <2>2. ApiTable(Pairs("syslog", "faz", syslog, syslogOnly, NoVerdict, {"fgt-syslog"}),
                   {"fgt-syslog"}, g)
      <3>1. Strict(syslog) /\ Strict(syslogOnly) /\ DOMAIN syslogOnly = DOMAIN syslog
        BY DEF Strict, Wide, Classes, Wanted, Present, Soft, ++
      <3> HIDE DEF syslog, syslogOnly
      <3> QED
        BY <1>0, <3>1, StrictPairs
    <2>3. T("eventfilter", Flag, {"fgt-event-logging"})
      BY <1>0, StrictRows, Verdicts
    <2>4. T("faz", faz, {"fgt-faz-encryption"})
      <3>1. Strict(faz)
        BY DEF Strict, Wide, Classes, Unused, ++
      <3> HIDE DEF faz
      <3> QED
        BY <1>0, <3>1, StrictRows
    <2>5. T("auto_install", Wanted, {"fgt-usb-autoinstall"})
      BY <1>0, StrictRows, Verdicts
    <2>6. ApiTable(Pairs("snmp_sysinfo", "snmp_community", snmp, snmpOnly, NoVerdict,
                         {"fgt-snmp-v1v2c"})
                   \cup Pairs("syslog", "faz", syslog, syslogOnly, NoVerdict, {"fgt-syslog"})
                   \cup Rows("eventfilter", Flag, {"fgt-event-logging"})
                   \cup Rows("faz", faz, {"fgt-faz-encryption"}),
                   {"fgt-snmp-v1v2c", "fgt-syslog", "fgt-event-logging", "fgt-faz-encryption"}, g)
      <3> HIDE DEF snmp, snmpOnly, syslog, syslogOnly, faz
      <3> QED
        BY <2>1, <2>2, <2>3, <2>4, ApiFour
    <2> QED
      BY <2>5, <2>6, ApiJoined DEF FortigateLogs
  <1>5. FortigateItems = {"fgt-dns", "fgt-wan-mgmt"} \cup g["global"] \cup access \cup logs
    BY <1>0 DEF FortigateItems
  <1> QED
    BY <1>0, <1>1, <1>2, <1>3, <1>4, <1>5, ApiFour DEF g

LEMMA PaloaltoTable ==
  ApiTable(PaloaltoSystem \cup PaloaltoSetting \cup PaloaltoPasswords \cup PaloaltoRest,
           PaloaltoItems, PaloaltoGroups)
  <1> DEFINE g == PaloaltoGroups
  <1>g. /\ DOMAIN g = {"system", "setting", "pwd_complexity", "users", "snmp", "log_settings",
                       "pwd_profiles"}
        /\ g["system"] = {"pan-hostname", "pan-timezone", "pan-login-banner", "pan-permitted-ip",
           "pan-disable-telnet", "pan-disable-http", "pan-ntp", "pan-ntp-auth",
           "pan-update-verify"}
        /\ g["setting"] = {"pan-idle-timeout", "pan-lockout", "pan-log-high-dp"}
        /\ g["pwd_complexity"] = {"pan-pwd-complexity", "pan-pwd-minlen", "pan-pwd-uppercase",
           "pan-pwd-lowercase", "pan-pwd-numeric", "pan-pwd-special", "pan-pwd-expiry",
           "pan-pwd-differs", "pan-pwd-history"}
        /\ g["users"] = {"pan-superuser", "pan-admin-default"}
        /\ g["snmp"] = {"pan-snmp-v2c"}
        /\ g["log_settings"] = {"pan-log-forward"}
        /\ g["pwd_profiles"] = {"pan-pwd-profiles"}
    BY DEF PaloaltoGroups
  <1> HIDE DEF g
  <1> DEFINE T(e, v, ids) == ApiTable(Rows(e, v, ids), ids, g)
             I1 == {"pan-hostname", "pan-timezone", "pan-login-banner", "pan-permitted-ip",
                   "pan-disable-telnet", "pan-disable-http", "pan-update-verify", "pan-ntp",
                   "pan-ntp-auth"}
             I2 == {"pan-idle-timeout", "pan-lockout", "pan-log-high-dp"}
             I3 == {"pan-pwd-complexity", "pan-pwd-minlen", "pan-pwd-uppercase",
                   "pan-pwd-lowercase", "pan-pwd-numeric", "pan-pwd-special", "pan-pwd-differs",
                   "pan-pwd-history", "pan-pwd-expiry", "pan-pwd-profiles"}
             I4 == {"pan-superuser", "pan-admin-default", "pan-snmp-v2c", "pan-log-forward"}
  <1>1. ApiTable(PaloaltoSystem, I1, g)
    <2> DEFINE v1 == Present ++ Soft
               v2 == [good |-> "pass", bad |-> "warn"] ++ Half ++ Unused
    <2>s. Strict(v1) /\ Wide(v2, {"half"})
      BY DEF Strict, Wide, Classes, Present, Soft, Half, Unused, ++
    <2> HIDE DEF v1, v2
    <2>1. T("system", Present, {"pan-hostname", "pan-timezone", "pan-login-banner"})
      BY <1>g, Verdicts, StrictRows
    <2>2. T("system", Wanted, {"pan-permitted-ip", "pan-disable-telnet", "pan-disable-http",
         "pan-update-verify"})
      BY <1>g, Verdicts, StrictRows
    <2>3. T("system", v1, {"pan-ntp"})
      BY <1>g, <2>s, StrictRows
    <2>4. T("system", v2, {"pan-ntp-auth"})
      BY <1>g, <2>s, WideRows DEF Lenient
    <2> QED
      BY <2>1, <2>2, <2>3, <2>4, ApiFour DEF PaloaltoSystem, v1, v2
  <1>2. ApiTable(PaloaltoSetting, I2, g)
    <2> DEFINE v1 == Wanted ++ [nan |-> "manual"]
               v2 == (Wanted ++ [nan |-> "manual"]) ++ Soft ++ Half ++ [vague |-> "pass"]
    <2>s. Strict(v1) /\ Wide(v2, {"half", "vague"})
      <3> DEFINE limit == Wanted ++ [nan |-> "manual"]
                 soft == limit ++ Soft
                 lockout == soft ++ Half
      <3>1. /\ DOMAIN limit = {"good", "absent", "bad", "nan"}
            /\ \A c \in DOMAIN limit : limit[c] = "pass" => c = "good"
        BY DEF Wanted, Present, ++
      <3>2. Strict(v1)
        BY <3>1 DEF Strict, Wide, Classes
      <3> HIDE DEF limit
      <3>3. /\ DOMAIN soft = {"good", "absent", "bad", "nan", "soft"}
            /\ \A c \in DOMAIN soft : soft[c] = "pass" => c = "good"
        BY <3>1 DEF Soft, ++
      <3> HIDE DEF soft
      <3>4. /\ DOMAIN lockout = {"good", "absent", "bad", "nan", "soft", "half"}
            /\ \A c \in DOMAIN lockout : lockout[c] = "pass" => c \in {"good", "half"}
        BY <3>3 DEF Half, ++
      <3> HIDE DEF lockout
      <3>5. Wide(lockout ++ [vague |-> "pass"], {"half", "vague"})
        BY <3>4 DEF Wide, Classes, ++
      <3> QED
        BY <3>2, <3>5 DEF lockout, soft, limit
    <2> HIDE DEF v1, v2
    <2>1. T("setting", v1, {"pan-idle-timeout"})
      BY <1>g, <2>s, StrictRows
    <2>2. T("setting", v2, {"pan-lockout"})
      BY <1>g, <2>s, WideRows DEF Lenient
    <2>3. T("setting", Wanted, {"pan-log-high-dp"})
      BY <1>g, Verdicts, StrictRows
    <2> QED
      BY <2>1, <2>2, <2>3, ApiThree DEF PaloaltoSetting, v1, v2
  <1>3. ApiTable(PaloaltoPasswords, I3, g)
    <2> DEFINE v1 == Wanted ++ [nan |-> "manual"]
               v2 == Wanted ++ [nan |-> "fail"] ++ Unused
               v3 == [good |-> "pass", bad |-> "warn"]
    <2>s. Strict(v1) /\ Strict(v2) /\ Strict(v3)
      BY DEF Strict, Wide, Classes, Wanted, Present, Unused, ++
    <2> HIDE DEF v1, v2, v3
    <2>1. T("pwd_complexity", Wanted, {"pan-pwd-complexity"})
      BY <1>g, Verdicts, StrictRows
    <2>2. T("pwd_complexity", v1, {"pan-pwd-minlen"})
      BY <1>g, <2>s, StrictRows
    <2>3. T("pwd_complexity", v2, {"pan-pwd-uppercase", "pan-pwd-lowercase", "pan-pwd-numeric",
         "pan-pwd-special", "pan-pwd-differs", "pan-pwd-history", "pan-pwd-expiry"})
      BY <1>g, <2>s, StrictRows
    <2>4. T("pwd_profiles", v3, {"pan-pwd-profiles"})
      BY <1>g, <2>s, StrictRows
    <2> QED
      BY <2>1, <2>2, <2>3, <2>4, ApiFour DEF PaloaltoPasswords, v1, v2, v3
  <1>4. ApiTable(PaloaltoRest, I4, g)
    <2> DEFINE v1 == [good |-> "pass", bad |-> "warn", empty |-> "pass"]
               logs == [good |-> "pass", there |-> "pass", bad |-> "fail"] ++ Half
               first == [there |-> "fail"]
                        ++ ([good |-> "pass", there |-> "pass", bad |-> "fail"] ++ Half)
               second == [good |-> "fail", half |-> "fail"]
                         ++ ([good |-> "pass", there |-> "pass", bad |-> "fail"] ++ Half)
    <2>s. /\ Wide(logs, {"half"}) /\ Wide(first, {"half"}) /\ Wide(second, {"half"})
          /\ Wide(v1, {"empty"})
      BY DEF Wide, Classes, Half, ++
    <2> HIDE DEF v1, logs, first, second
    <2>1. T("users", v1, {"pan-superuser"})
      BY <1>g, <2>s, WideRows DEF Lenient
    <2>2. T("users", Account, {"pan-admin-default"})
      BY <1>g, Verdicts, WideRows DEF Lenient
    <2>3. T("snmp", Flag ++ Half, {"pan-snmp-v2c"})
      BY <1>g, Verdicts, WideRows DEF Lenient
    <2>4. ApiTable(Pairs("log_settings", "log_shared", logs, first, second, {"pan-log-forward"}),
         {"pan-log-forward"}, g)
        <3>1. DOMAIN first = DOMAIN logs /\ DOMAIN second = DOMAIN logs
        BY DEF first, second, logs, Half, ++
      <3> QED
        BY <1>g, <2>s, <3>1, WidePairs DEF Lenient
    <2> QED
      BY <2>1, <2>2, <2>3, <2>4, ApiFour DEF PaloaltoRest, v1, logs, first, second
  <1>5. PaloaltoItems = I1 \cup I2 \cup I3 \cup I4
    BY DEF PaloaltoItems
  <1> QED
    BY <1>1, <1>2, <1>3, <1>4, <1>5, ApiFour DEF g

LEMMA F5Table ==
  ApiTable(F5Management \cup F5Passwords \cup F5Remote, F5Items, F5Groups)
  <1> DEFINE g == F5Groups
  <1>g. /\ DOMAIN g = {"global_settings", "sshd", "httpd", "ntp", "pwd_policy", "users", "syslog",
                       "cli", "remote_user"}
        /\ g["global_settings"] = {"f5-gui-banner", "f5-console-timeout"}
        /\ g["sshd"] = {"f5-sshd-banner", "f5-sshd-timeout", "f5-sshd-allow", "f5-ssh-algos"}
        /\ g["httpd"] = {"f5-httpd-allow", "f5-gui-timeout", "f5-tls-version"}
        /\ g["ntp"] = {"f5-ntp", "f5-timezone"}
        /\ g["pwd_policy"] = {"f5-pwd-policy", "f5-pwd-minlen", "f5-pwd-complexity",
           "f5-login-failures", "f5-pwd-maxage", "f5-pwd-memory", "f5-pwd-warning"}
        /\ g["users"] = {"f5-admin-default"}
        /\ g["syslog"] = {"f5-syslog-remote"}
        /\ g["cli"] = {"f5-tmsh-timeout"}
        /\ g["remote_user"] = {"f5-remote-role", "f5-remote-partition", "f5-remote-console"}
    BY DEF F5Groups
  <1> HIDE DEF g
  <1> DEFINE T(e, v, ids) == ApiTable(Rows(e, v, ids), ids, g)
             I1 == {"f5-gui-banner", "f5-console-timeout", "f5-sshd-banner", "f5-sshd-timeout",
                   "f5-sshd-allow", "f5-ssh-algos", "f5-httpd-allow", "f5-gui-timeout",
                   "f5-tls-version", "f5-tmsh-timeout"}
             I2 == {"f5-hostname", "f5-ntp", "f5-timezone", "f5-pwd-policy", "f5-pwd-minlen",
                   "f5-pwd-complexity", "f5-login-failures", "f5-pwd-maxage", "f5-pwd-memory",
                   "f5-pwd-warning", "f5-admin-default"}
             I3 == {"f5-remote-role", "f5-remote-partition", "f5-remote-console", "f5-snmp-v1v2c",
                   "f5-syslog-remote"}
  <1>1. ApiTable(F5Management, I1, g)
    <2> DEFINE banner == Wanted ++ Soft
               algos == [good |-> "pass", bad |-> "fail", absent |-> "warn"] ++ Half
    <2>s. Strict(banner) /\ Wide(algos, {"half"})
      BY DEF Strict, Wide, Classes, Wanted, Present, Soft, Half, ++
    <2> HIDE DEF banner, algos
    <2>1. T("global_settings", banner, {"f5-gui-banner"})
      BY <1>g, <2>s, StrictRows
    <2>2. T("global_settings", Number, {"f5-console-timeout"})
      BY <1>g, Verdicts, StrictRows
    <2>3. T("sshd", banner, {"f5-sshd-banner"})
      BY <1>g, <2>s, StrictRows
    <2>4. T("sshd", Number, {"f5-sshd-timeout"})
      BY <1>g, Verdicts, StrictRows
    <2>5. T("sshd", Wanted, {"f5-sshd-allow"})
      BY <1>g, Verdicts, StrictRows
    <2>6. T("sshd", algos, {"f5-ssh-algos"})
      BY <1>g, <2>s, WideRows DEF Lenient
    <2>7. T("httpd", Wanted, {"f5-httpd-allow"})
      BY <1>g, Verdicts, StrictRows
    <2>8. T("httpd", Number, {"f5-gui-timeout"})
      BY <1>g, Verdicts, StrictRows
    <2>9. T("httpd", Flag ++ Odd, {"f5-tls-version"})
      BY <1>g, Verdicts, WideRows DEF Lenient
    <2>10. T("cli", Number, {"f5-tmsh-timeout"})
      BY <1>g, Verdicts, StrictRows
    <2> DEFINE A == Rows("global_settings", banner, {"f5-gui-banner"})
                    \cup Rows("global_settings", Number, {"f5-console-timeout"})
                    \cup Rows("sshd", banner, {"f5-sshd-banner"})
                    \cup Rows("sshd", Number, {"f5-sshd-timeout"})
               SA == {"f5-gui-banner", "f5-console-timeout", "f5-sshd-banner", "f5-sshd-timeout"}
    <2>11. ApiTable(A, SA, g)
      BY <2>1, <2>2, <2>3, <2>4, ApiFour
    <2> DEFINE B == A
                    \cup Rows("sshd", Wanted, {"f5-sshd-allow"})
                    \cup Rows("sshd", algos, {"f5-ssh-algos"})
                    \cup Rows("httpd", Wanted, {"f5-httpd-allow"})
               SB == {"f5-gui-banner", "f5-console-timeout", "f5-sshd-banner", "f5-sshd-timeout",
                     "f5-sshd-allow", "f5-ssh-algos", "f5-httpd-allow"}
    <2>12. ApiTable(B, SB, g)
      BY <2>11, <2>5, <2>6, <2>7, ApiFour
    <2> QED
      BY <2>12, <2>8, <2>9, <2>10, ApiFour DEF F5Management, banner, algos
  <1>2. ApiTable(F5Passwords, I2, g)
    <2> DEFINE ntp == Listed ++ Soft
    <2>s. Strict(ntp)
      BY DEF Strict, Wide, Classes, Listed, Soft, ++
    <2> HIDE DEF ntp
    <2>1. ApiTable(Rows("global_settings", Present, {"f5-hostname"}), {"f5-hostname"}, g)
      BY StrictRows, Verdicts DEF OwnBranch
    <2>2. T("ntp", ntp, {"f5-ntp"})
      BY <1>g, <2>s, StrictRows
    <2>3. T("ntp", Present, {"f5-timezone"})
      BY <1>g, Verdicts, StrictRows
    <2>4. T("pwd_policy", Wanted, {"f5-pwd-policy"})
      BY <1>g, Verdicts, StrictRows
    <2>5. T("pwd_policy", Number, {"f5-pwd-minlen", "f5-pwd-complexity", "f5-login-failures",
         "f5-pwd-maxage", "f5-pwd-memory", "f5-pwd-warning"})
      BY <1>g, Verdicts, StrictRows
    <2>6. T("users", Account, {"f5-admin-default"})
      BY <1>g, Verdicts, WideRows DEF Lenient
    <2> DEFINE A == Rows("global_settings", Present, {"f5-hostname"})
                    \cup Rows("ntp", ntp, {"f5-ntp"})
                    \cup Rows("ntp", Present, {"f5-timezone"})
                    \cup Rows("pwd_policy", Wanted, {"f5-pwd-policy"})
               SA == {"f5-hostname", "f5-ntp", "f5-timezone", "f5-pwd-policy"}
    <2>7. ApiTable(A, SA, g)
      BY <2>1, <2>2, <2>3, <2>4, ApiFour
    <2> QED
      BY <2>7, <2>5, <2>6, ApiThree DEF F5Passwords, ntp
  <1>3. ApiTable(F5Remote, I3, g)
    <2> DEFINE remote == Flag ++ Unused
               local == Always("manual", Flag ++ Unused)
               snmp == Flag ++ Soft
               syslog == [good |-> "pass", empty |-> "warn"]
    <2>s. Strict(remote) /\ Strict(local) /\ Strict(snmp) /\ Strict(syslog)
      BY DEF Strict, Wide, Classes, Flag, Soft, Unused, Always, ++
    <2> HIDE DEF remote, local, snmp, syslog
    <2>1. ApiTable(Pairs("remote_user", "auth_source", remote, local, NoVerdict,
         {"f5-remote-role", "f5-remote-partition", "f5-remote-console"}), {"f5-remote-role",
         "f5-remote-partition", "f5-remote-console"}, g)
        <3>1. DOMAIN local = DOMAIN remote
        BY DEF local, remote, Always
      <3> QED
        BY <1>g, <2>s, <3>1, StrictPairs
    <2>2. T("snmp", snmp, {"f5-snmp-v1v2c"})
      BY <1>g, <2>s, StrictRows
    <2>3. T("syslog", syslog, {"f5-syslog-remote"})
      BY <1>g, <2>s, StrictRows
    <2> QED
      BY <2>1, <2>2, <2>3, ApiThree DEF F5Remote, remote, local, snmp, syslog
  <1>4. F5Items = I1 \cup I2 \cup I3
    BY DEF F5Items
  <1> QED
    BY <1>1, <1>2, <1>3, <1>4, ApiThree DEF g

LEMMA NetscalerTable ==
  ApiTable(NetscalerRows, NetscalerItems, <<>>)
  <1> DEFINE g == <<>>
  <1>g. DOMAIN g = {}
    OBVIOUS
  <1> HIDE DEF g
  <1> DEFINE T(e, v, ids) == ApiTable(Rows(e, v, ids), ids, g)
  <1> DEFINE v1 == Unlisted ++ [empty |-> "manual"]
             v2 == [good |-> "pass", bad |-> "warn", absent |-> "warn"] ++ Odd
             v3 == [good |-> "pass", bad |-> "fail"]
             v4 == [good |-> "pass", empty |-> "warn"]
             v5 == [good |-> "pass", bad |-> "manual", empty |-> "manual"]
  <1>s. Wide(v2, {"odd"}) /\ Strict(v3) /\ Strict(v4) /\ Strict(v5) /\ Wide(v1, {"absent"})
    BY DEF Strict, Wide, Classes, Unlisted, Odd, ++
  <1> HIDE DEF v1, v2, v3, v4, v5
  <1>1. T("nsip", v1, {"ns-nsip-telnet", "ns-nsip-ftp", "ns-nsip-gui", "ns-nsip-restrict"})
    BY <1>g, <1>s, WideRows DEF Lenient
  <1>2. T("systemparameter", Number, {"ns-timeout", "ns-min-password"})
    BY <1>g, Verdicts, StrictRows
  <1>3. T("systemparameter", Flag ++ Odd, {"ns-strong-password"})
    BY <1>g, Verdicts, WideRows DEF Lenient
  <1>4. T("sslparameter", v2, {"ns-ssl-reneg"})
    BY <1>g, <1>s, WideRows DEF Lenient
  <1>5. T("ntpserver", Listed, {"ns-ntp"})
    BY <1>g, Verdicts, StrictRows
  <1>6. T("snmpcommunity", v3, {"ns-snmp-community"})
    BY <1>g, <1>s, StrictRows
  <1>7. T("auditsyslogaction", v4, {"ns-syslog"})
    BY <1>g, <1>s, StrictRows
  <1>8. T("systemuser", v5, {"ns-default-nsroot"})
    BY <1>g, <1>s, StrictRows
  <1> DEFINE A == Rows("nsip", v1, {"ns-nsip-telnet", "ns-nsip-ftp", "ns-nsip-gui",
                   "ns-nsip-restrict"})
                  \cup Rows("systemparameter", Number, {"ns-timeout", "ns-min-password"})
                  \cup Rows("systemparameter", Flag ++ Odd, {"ns-strong-password"})
                  \cup Rows("sslparameter", v2, {"ns-ssl-reneg"})
             SA == {"ns-nsip-telnet", "ns-nsip-ftp", "ns-nsip-gui", "ns-nsip-restrict",
                   "ns-timeout", "ns-min-password", "ns-strong-password", "ns-ssl-reneg"}
  <1>9. ApiTable(A, SA, g)
    BY <1>1, <1>2, <1>3, <1>4, ApiFour
  <1> DEFINE B == A
                  \cup Rows("ntpserver", Listed, {"ns-ntp"})
                  \cup Rows("snmpcommunity", v3, {"ns-snmp-community"})
                  \cup Rows("auditsyslogaction", v4, {"ns-syslog"})
             SB == {"ns-nsip-telnet", "ns-nsip-ftp", "ns-nsip-gui", "ns-nsip-restrict",
                   "ns-timeout", "ns-min-password", "ns-strong-password", "ns-ssl-reneg",
                   "ns-ntp", "ns-snmp-community", "ns-syslog"}
  <1>10. ApiTable(B, SB, g)
    BY <1>9, <1>5, <1>6, <1>7, ApiFour
  <1> QED
    BY <1>10, <1>8, ApiJoined DEF NetscalerRows, NetscalerItems, g, v1, v2, v3, v4, v5

LEMMA VcenterTable ==
  ApiTable(VcenterRows, VcenterItems, <<>>)
  <1> DEFINE g == <<>>
  <1>g. DOMAIN g = {}
    OBVIOUS
  <1> HIDE DEF g
  <1> DEFINE T(e, v, ids) == ApiTable(Rows(e, v, ids), ids, g)
  <1> DEFINE list == Listed ++ [odd |-> "fail"]
             dcui == [good |-> "manual", bad |-> "manual"]
  <1>s. Strict(list) /\ Strict(dcui)
    BY DEF Strict, Wide, Classes, Listed, ++
  <1> HIDE DEF list, dcui
  <1>1. T("ntp", list, {"vc-ntp"})
    BY <1>g, <1>s, StrictRows
  <1>2. T("timesync", Wanted, {"vc-timesync"})
    BY <1>g, Verdicts, StrictRows
  <1>3. T("ssh", Unlisted, {"vc-ssh"})
    BY <1>g, Verdicts, WideRows DEF Lenient
  <1>4. T("shell", Unlisted, {"vc-shell"})
    BY <1>g, Verdicts, WideRows DEF Lenient
  <1>5. T("dcui", dcui, {"vc-dcui"})
    BY <1>g, <1>s, StrictRows
  <1>6. T("syslog", list, {"vc-syslog"})
    BY <1>g, <1>s, StrictRows
  <1>7. T("global_policy", Number, {"vc-pwd-maxage"})
    BY <1>g, Verdicts, StrictRows
  <1>8. T("root", Number, {"vc-root-expiry"})
    BY <1>g, Verdicts, StrictRows
  <1> DEFINE A == Rows("ntp", list, {"vc-ntp"})
                  \cup Rows("timesync", Wanted, {"vc-timesync"})
                  \cup Rows("ssh", Unlisted, {"vc-ssh"})
                  \cup Rows("shell", Unlisted, {"vc-shell"})
             SA == {"vc-ntp", "vc-timesync", "vc-ssh", "vc-shell"}
  <1>9. ApiTable(A, SA, g)
    BY <1>1, <1>2, <1>3, <1>4, ApiFour
  <1> DEFINE B == A
                  \cup Rows("dcui", dcui, {"vc-dcui"})
                  \cup Rows("syslog", list, {"vc-syslog"})
                  \cup Rows("global_policy", Number, {"vc-pwd-maxage"})
             SB == {"vc-ntp", "vc-timesync", "vc-ssh", "vc-shell", "vc-dcui", "vc-syslog",
                   "vc-pwd-maxage"}
  <1>10. ApiTable(B, SB, g)
    BY <1>9, <1>5, <1>6, <1>7, ApiFour
  <1> QED
    BY <1>10, <1>8, ApiJoined DEF VcenterRows, VcenterItems, g, list, dcui

LEMMA NetappTable ==
  ApiTable(NetappRows \cup NetappSnmp, NetappItems, <<>>)
  <1> DEFINE g == <<>>
  <1>g. DOMAIN g = {}
    OBVIOUS
  <1> HIDE DEF g
  <1> DEFINE T(e, v, ids) == ApiTable(Rows(e, v, ids), ids, g)
             I1 == {"netapp-ntp", "netapp-timezone", "netapp-ssh-ciphers", "netapp-ssh-macs",
                   "netapp-audit", "netapp-audit-dest", "netapp-banner", "netapp-admin-default"}
             I2 == {"netapp-snmp-v1v2c"}
  <1>1. ApiTable(NetappRows, I1, g)
    <2> DEFINE dest == [good |-> "pass", empty |-> "warn"]
    <2>s. Strict(dest)
      BY DEF Strict, Wide, Classes
    <2> HIDE DEF dest
    <2>1. T("ntp", Listed, {"netapp-ntp"})
      BY <1>g, Verdicts, StrictRows
    <2>2. T("cluster", Present, {"netapp-timezone"})
      BY <1>g, Verdicts, StrictRows
    <2>3. T("ssh", Unlisted, {"netapp-ssh-ciphers", "netapp-ssh-macs"})
      BY <1>g, Verdicts, WideRows DEF Lenient
    <2>4. T("audit", Wanted, {"netapp-audit"})
      BY <1>g, Verdicts, StrictRows
    <2>5. T("audit_dest", dest, {"netapp-audit-dest"})
      BY <1>g, <2>s, StrictRows
    <2>6. T("login_msg", Listed, {"netapp-banner"})
      BY <1>g, Verdicts, StrictRows
    <2>7. T("accounts", Account, {"netapp-admin-default"})
      BY <1>g, Verdicts, WideRows DEF Lenient
    <2> DEFINE A == Rows("ntp", Listed, {"netapp-ntp"})
                    \cup Rows("cluster", Present, {"netapp-timezone"})
                    \cup Rows("ssh", Unlisted, {"netapp-ssh-ciphers", "netapp-ssh-macs"})
                    \cup Rows("audit", Wanted, {"netapp-audit"})
               SA == {"netapp-ntp", "netapp-timezone", "netapp-ssh-ciphers", "netapp-ssh-macs",
                     "netapp-audit"}
    <2>8. ApiTable(A, SA, g)
      BY <2>1, <2>2, <2>3, <2>4, ApiFour
    <2> QED
      BY <2>8, <2>5, <2>6, <2>7, ApiFour DEF NetappRows, dest
  <1>2. ApiTable(NetappSnmp, I2, g)
    <2> DEFINE snmp == Flag ++ NetappUsers
               only == [off |-> "pass"] ++ Always("manual", Flag ++ NetappUsers)
    <2>s. Wide(snmp, {"empty"}) /\ Wide(only, {"empty"})
      BY DEF Wide, Classes, Flag, NetappUsers, Always, ++
    <2> HIDE DEF snmp, only
    <2>1. ApiTable(Pairs("snmp", "snmp_users", snmp, only, NoVerdict, {"netapp-snmp-v1v2c"}),
         {"netapp-snmp-v1v2c"}, g)
        <3>1. DOMAIN only = DOMAIN snmp
        BY DEF only, snmp, Always, Flag, NetappUsers, ++
      <3> QED
        BY <1>g, <2>s, <3>1, WidePairs DEF Lenient
    <2> QED
      BY <2>1 DEF NetappSnmp, snmp, only
  <1>3. NetappItems = I1 \cup I2
    BY DEF NetappItems
  <1> QED
    BY <1>1, <1>2, <1>3, ApiJoined DEF g

LEMMA ArubaTable ==
  ApiTable(ArubaRows, ArubaItems, <<>>)
  <1> DEFINE g == <<>>
  <1>g. DOMAIN g = {}
    OBVIOUS
  <1> HIDE DEF g
  <1> DEFINE T(e, v, ids) == ApiTable(Rows(e, v, ids), ids, g)
  <1> DEFINE text == Listed ++ [absent |-> "manual"]
             ciphers == Flag ++ [odd |-> "manual"]
             user == [good |-> "pass", bad |-> "manual", empty |-> "manual"]
  <1>s. Strict(text) /\ Strict(user) /\ Strict(ciphers)
    BY DEF Strict, Wide, Classes, Listed, Flag, ++
  <1> HIDE DEF text, ciphers, user
  <1>1. T("telnet", Flag, {"aruba-telnet"})
    BY <1>g, Verdicts, StrictRows
  <1>2. T("ssh", Flag ++ Odd, {"aruba-ssh-dsa"})
    BY <1>g, Verdicts, WideRows DEF Lenient
  <1>3. T("ssh", ciphers, {"aruba-ssh-ciphers"})
    BY <1>g, <1>s, StrictRows
  <1>4. T("snmp_community", Flag ++ Odd, {"aruba-snmp-v1v2c", "aruba-snmp-default"})
    BY <1>g, Verdicts, WideRows DEF Lenient
  <1>5. T("ntp_servers", text, {"aruba-ntp"})
    BY <1>g, <1>s, StrictRows
  <1>6. T("banner", text, {"aruba-banner"})
    BY <1>g, <1>s, StrictRows
  <1>7. T("password_policy", Flag, {"aruba-pwd-policy"})
    BY <1>g, Verdicts, StrictRows
  <1>8. T("password_policy", Number, {"aruba-pwd-minlen"})
    BY <1>g, Verdicts, StrictRows
  <1>9. T("mgmt_user", user, {"aruba-admin-default"})
    BY <1>g, <1>s, StrictRows
  <1> DEFINE A == Rows("telnet", Flag, {"aruba-telnet"})
                  \cup Rows("ssh", Flag ++ Odd, {"aruba-ssh-dsa"})
                  \cup Rows("ssh", ciphers, {"aruba-ssh-ciphers"})
                  \cup Rows("snmp_community", Flag ++ Odd, {"aruba-snmp-v1v2c", "aruba-snmp-default"})
             SA == {"aruba-telnet", "aruba-ssh-dsa", "aruba-ssh-ciphers", "aruba-snmp-v1v2c",
                   "aruba-snmp-default"}
  <1>10. ApiTable(A, SA, g)
    BY <1>1, <1>2, <1>3, <1>4, ApiFour
  <1> DEFINE B == A
                  \cup Rows("ntp_servers", text, {"aruba-ntp"})
                  \cup Rows("banner", text, {"aruba-banner"})
                  \cup Rows("password_policy", Flag, {"aruba-pwd-policy"})
             SB == {"aruba-telnet", "aruba-ssh-dsa", "aruba-ssh-ciphers", "aruba-snmp-v1v2c",
                   "aruba-snmp-default", "aruba-ntp", "aruba-banner", "aruba-pwd-policy"}
  <1>11. ApiTable(B, SB, g)
    BY <1>10, <1>5, <1>6, <1>7, ApiFour
  <1> QED
    BY <1>11, <1>8, <1>9, ApiThree DEF ArubaRows, ArubaItems, g, text, ciphers, user

LEMMA CiscoTable ==
  CliTable(CiscoAccess \cup CiscoServices, CiscoItems, {"passwords", "aaa", "web", "logging",
           "snmp", "ssh", "ntp", "line"})
  <1> DEFINE n == {"passwords", "aaa", "web", "logging", "snmp", "ssh", "ntp", "line"}
  <1> DEFINE T(e, v, ids) == CliTable(Lines(e, v, ids), ids, n)
             I1 == {"cisco-web-mgmt", "cisco-vty-ssh", "cisco-vty-acl", "cisco-ssh-algo",
                   "cisco-ssh-ver", "cisco-pwd-encryption", "cisco-enable-secret",
                   "cisco-user-secret"}
             I2 == {"cisco-snmp-community", "cisco-ntp", "cisco-ntp-auth", "cisco-logging",
                   "cisco-login-log", "cisco-timestamps", "cisco-aaa", "cisco-aaa-auth-login",
                   "cisco-banner", "cisco-exec-timeout"}
  <1>1. CliTable(CiscoAccess, I1, n)
    <2> DEFINE vty == Flag ++ Soft
               ver == [good |-> "pass", absent |-> "warn"]
               secret == [good |-> "pass", bad |-> "fail", absent |-> "warn"]
               user == [good |-> "pass", bad |-> "fail", absent |-> "na"] ++ Half
    <2>s. Strict(vty) /\ Strict(ver) /\ Strict(secret) /\ Wide(user, {"half"})
      BY DEF Strict, Wide, Classes, Flag, Soft, Half, ++
    <2> HIDE DEF vty, ver, secret, user
    <2>1. T("web", Unlisted, {"cisco-web-mgmt"})
      BY Verdicts, WideLines DEF Lenient
    <2>2. T("line", vty, {"cisco-vty-ssh"})
      BY <2>s, StrictLines
    <2>3. T("line", Flag, {"cisco-vty-acl"})
      BY Verdicts, StrictLines
    <2>4. T("ssh", Flag ++ Half, {"cisco-ssh-algo"})
      BY Verdicts, WideLines DEF Lenient
    <2>5. T("ssh", ver, {"cisco-ssh-ver"})
      BY <2>s, StrictLines
    <2>6. T("passwords", Present, {"cisco-pwd-encryption"})
      BY Verdicts, StrictLines
    <2>7. T("passwords", secret, {"cisco-enable-secret"})
      BY <2>s, StrictLines
    <2>8. T("passwords", user, {"cisco-user-secret"})
      BY <2>s, WideLines DEF Lenient
    <2> DEFINE A == Lines("web", Unlisted, {"cisco-web-mgmt"})
                    \cup Lines("line", vty, {"cisco-vty-ssh"})
                    \cup Lines("line", Flag, {"cisco-vty-acl"})
                    \cup Lines("ssh", Flag ++ Half, {"cisco-ssh-algo"})
               SA == {"cisco-web-mgmt", "cisco-vty-ssh", "cisco-vty-acl", "cisco-ssh-algo"}
    <2>9. CliTable(A, SA, n)
      BY <2>1, <2>2, <2>3, <2>4, CliFour
    <2> DEFINE B == A
                    \cup Lines("ssh", ver, {"cisco-ssh-ver"})
                    \cup Lines("passwords", Present, {"cisco-pwd-encryption"})
                    \cup Lines("passwords", secret, {"cisco-enable-secret"})
               SB == {"cisco-web-mgmt", "cisco-vty-ssh", "cisco-vty-acl", "cisco-ssh-algo",
                     "cisco-ssh-ver", "cisco-pwd-encryption", "cisco-enable-secret"}
    <2>10. CliTable(B, SB, n)
      BY <2>9, <2>5, <2>6, <2>7, CliFour
    <2> QED
      BY <2>10, <2>8, CliJoined DEF CiscoAccess, vty, ver, secret, user
  <1>2. CliTable(CiscoServices, I2, n)
    <2> DEFINE soft == Present ++ Soft
               auth == [good |-> "pass", bad |-> "fail", absent |-> "na"]
    <2>s. Strict(soft) /\ Strict(auth)
      BY DEF Strict, Wide, Classes, Present, Soft, ++
    <2> HIDE DEF soft, auth
    <2>1. T("snmp", Unlisted, {"cisco-snmp-community"})
      BY Verdicts, WideLines DEF Lenient
    <2>2. T("ntp", soft, {"cisco-ntp"})
      BY <2>s, StrictLines
    <2>3. T("ntp", auth, {"cisco-ntp-auth"})
      BY <2>s, StrictLines
    <2>4. T("logging", Present, {"cisco-logging"})
      BY Verdicts, StrictLines
    <2>5. T("logging", Wanted, {"cisco-login-log"})
      BY Verdicts, StrictLines
    <2>6. T("logging", soft, {"cisco-timestamps"})
      BY <2>s, StrictLines
    <2>7. T("aaa", Present, {"cisco-aaa", "cisco-aaa-auth-login", "cisco-banner"})
      BY Verdicts, StrictLines
    <2>8. T("line", Unlisted, {"cisco-exec-timeout"})
      BY Verdicts, WideLines DEF Lenient
    <2> DEFINE A == Lines("snmp", Unlisted, {"cisco-snmp-community"})
                    \cup Lines("ntp", soft, {"cisco-ntp"})
                    \cup Lines("ntp", auth, {"cisco-ntp-auth"})
                    \cup Lines("logging", Present, {"cisco-logging"})
               SA == {"cisco-snmp-community", "cisco-ntp", "cisco-ntp-auth", "cisco-logging"}
    <2>9. CliTable(A, SA, n)
      BY <2>1, <2>2, <2>3, <2>4, CliFour
    <2> DEFINE B == A
                    \cup Lines("logging", Wanted, {"cisco-login-log"})
                    \cup Lines("logging", soft, {"cisco-timestamps"})
                    \cup Lines("aaa", Present, {"cisco-aaa", "cisco-aaa-auth-login",
                         "cisco-banner"})
               SB == {"cisco-snmp-community", "cisco-ntp", "cisco-ntp-auth", "cisco-logging",
                     "cisco-login-log", "cisco-timestamps", "cisco-aaa", "cisco-aaa-auth-login",
                     "cisco-banner"}
    <2>10. CliTable(B, SB, n)
      BY <2>9, <2>5, <2>6, <2>7, CliFour
    <2> QED
      BY <2>10, <2>8, CliJoined DEF CiscoServices, soft, auth
  <1>3. CiscoItems = I1 \cup I2
    BY DEF CiscoItems
  <1> QED
    BY <1>1, <1>2, <1>3, CliJoined

LEMMA FortiauthTable ==
  CliTable(FortiauthRows, FortiauthItems, {"router", "interface", "dns", "global", "ha"})
  <1> DEFINE n == {"router", "interface", "dns", "global", "ha"}
  <1> DEFINE T(e, v, ids) == CliTable(Lines(e, v, ids), ids, n)
  <1>1. T("interface", Flag, {"fac-mgmt-access"})
    BY Verdicts, StrictLines
  <1>2. T("global", Present ++ Odd, {"fac-allowed-hosts"})
    BY Verdicts, WideLines DEF Lenient
  <1>3. T("global", Present, {"fac-timezone"})
    BY Verdicts, StrictLines
  <1>4. T("global", Flag ++ Odd, {"fac-admin-maintainer"})
    BY Verdicts, WideLines DEF Lenient
  <1>5. T("dns", Present ++ Odd, {"fac-dns"})
    BY Verdicts, WideLines DEF Lenient
  <1> DEFINE A == Lines("interface", Flag, {"fac-mgmt-access"})
                  \cup Lines("global", Present ++ Odd, {"fac-allowed-hosts"})
                  \cup Lines("global", Present, {"fac-timezone"})
                  \cup Lines("global", Flag ++ Odd, {"fac-admin-maintainer"})
             SA == {"fac-mgmt-access", "fac-allowed-hosts", "fac-timezone",
                    "fac-admin-maintainer"}
  <1>6. CliTable(A, SA, n)
    BY <1>1, <1>2, <1>3, <1>4, CliFour
  <1> QED
    BY <1>5, <1>6, CliJoined DEF FortiauthRows, FortiauthItems

-----------------------------------------------------------------------------
(* Drivers *)

\* An API driver's rows judge its family's catalogue; an item whose row was not
\* judged is missed, and nothing else is.
ApiSound(d, S) ==
    /\ d.kind = "api" /\ d.answers \subseteq Answers
    /\ ApiTable(d.rows, S, d.groups)
    /\ \A e \in DOMAIN d.groups : d.groups[e] \subseteq S
    /\ d.inline = Ids({r \in d.rows : r.from \notin DOMAIN d.groups}) \cup (S \cap OwnBranch)

\* A CLI driver's rows are about its sections, and it misses no item.
Sections(d) == {d.endpoints[i] : i \in 1..Len(d.endpoints)}
CliSound(d, S) ==
    /\ d.kind = "cli" /\ d.answers = {"ok", "cut", "raise"} /\ Len(d.endpoints) \in Nat \ {0}
    /\ CliTable(d.rows, S, Sections(d))
    /\ d.groups = <<>> /\ d.inline = {}

LEMMA ApiDriver ==
  ASSUME NEW points, NEW login, NEW answers, NEW rows, NEW groups, NEW S,
         answers \subseteq Answers, ApiTable(rows, S, groups),
         \A e \in DOMAIN groups : groups[e] \subseteq S
  PROVE  ApiSound(Api(points, login, answers, rows, groups), S)
  <1> DEFINE d == Api(points, login, answers, rows, groups)
  <1>1. /\ d.kind = "api" /\ d.answers = answers /\ d.rows = rows /\ d.groups = groups
        /\ d.inline = Ids({r \in rows : r.from \notin DOMAIN groups}) \cup (Ids(rows) \cap OwnBranch)
    BY DEF Api
  <1> HIDE DEF d
  <1>2. Ids(rows) = S
    BY DEF ApiTable, Table
  <1>3. ApiSound(d, S)
    BY <1>1, <1>2 DEF ApiSound
  <1> QED
    BY <1>3 DEF d

LEMMA ApiDrivers ==
  /\ ApiSound(Fortigate, FortigateItems) /\ ApiSound(Paloalto, PaloaltoItems)
  /\ ApiSound(F5, F5Items) /\ ApiSound(Netscaler, NetscalerItems)
  /\ ApiSound(Vcenter, VcenterItems) /\ ApiSound(Netapp, NetappItems)
  /\ ApiSound(Aruba, ArubaItems)
  <1> DEFINE Within(g, S) == \A e \in DOMAIN g : g[e] \subseteq S
  <1>1. Within(FortigateGroups, FortigateItems)
    BY DEF FortigateGroups, FortigateItems
  <1>2. Within(PaloaltoGroups, PaloaltoItems)
    BY DEF PaloaltoGroups, PaloaltoItems
  <1>3. Within(F5Groups, F5Items)
    BY DEF F5Groups, F5Items
  <1>4. \A S : Within(<<>>, S)
    OBVIOUS
  <1>5. {"ok", "error"} \subseteq Answers
    BY DEF Answers
  <1>6. ApiSound(Fortigate, FortigateItems)
    BY <1>1, FortigateTable, ApiDriver DEF Fortigate
  <1>7. ApiSound(Paloalto, PaloaltoItems)
    BY <1>2, PaloaltoTable, ApiDriver DEF Paloalto
  <1>8. ApiSound(F5, F5Items)
    BY <1>3, F5Table, ApiDriver DEF F5
  <1>9. ApiSound(Netscaler, NetscalerItems)
    BY <1>4, NetscalerTable, ApiDriver DEF Netscaler
  <1>10. ApiSound(Vcenter, VcenterItems)
    BY <1>4, VcenterTable, ApiDriver DEF Vcenter
  <1>11. ApiSound(Netapp, NetappItems)
    BY <1>4, NetappTable, ApiDriver DEF Netapp
  <1>12. ApiSound(Aruba, ArubaItems)
    <2> DEFINE p == <<"snmp_community", "ntp_servers", "telnet", "ssh", "banner",
                      "password_policy", "mgmt_user">>
               a == {"ok", "error"}
    <2>1. a \subseteq Answers /\ Within(<<>>, ArubaItems)
      BY <1>4, <1>5
    <2> HIDE DEF p, a
    <2>2. ApiSound(Api(p, "session", a, ArubaRows, <<>>), ArubaItems)
      BY <2>1, ArubaTable, ApiDriver
    <2> QED
      BY <2>2 DEF Aruba, p, a
  <1> QED
    BY <1>6, <1>7, <1>8, <1>9, <1>10, <1>11, <1>12

LEMMA CliDriver ==
  ASSUME NEW points, NEW rows, NEW S, NEW n, CliTable(rows, S, n),
         Len(points) \in Nat \ {0}, \A e \in n : \E i \in 1..Len(points) : points[i] = e
  PROVE  CliSound(Cli(points, rows), S)
  <1> DEFINE d == Cli(points, rows)
  <1>1. /\ d.kind = "cli" /\ d.answers = {"ok", "cut", "raise"} /\ d.rows = rows
        /\ d.groups = <<>> /\ d.inline = {} /\ d.endpoints = points
    BY DEF Cli
  <1> HIDE DEF d
  <1>2. n \subseteq Sections(d)
    BY <1>1 DEF Sections
  <1>3. CliTable(rows, S, Sections(d))
    BY <1>2 DEF CliTable
  <1>4. CliSound(d, S)
    BY <1>1, <1>3 DEF CliSound
  <1> QED
    BY <1>4 DEF d

LEMMA CliDrivers == CliSound(Cisco, CiscoItems) /\ CliSound(Fortiauth, FortiauthItems)
  <1>1. CliSound(Cisco, CiscoItems)
    <2> DEFINE p == <<"passwords", "aaa", "web", "logging", "snmp", "ssh", "ntp", "line">>
               n == {"passwords", "aaa", "web", "logging", "snmp", "ssh", "ntp", "line"}
    <2>1. /\ Len(p) = 8 /\ p[1] = "passwords" /\ p[2] = "aaa" /\ p[3] = "web"
          /\ p[4] = "logging" /\ p[5] = "snmp" /\ p[6] = "ssh" /\ p[7] = "ntp" /\ p[8] = "line"
      OBVIOUS
    <2> HIDE DEF p
    <2>2. \A e \in n : \E i \in 1..Len(p) : p[i] = e
      BY <2>1
    <2>3. CliSound(Cli(p, CiscoAccess \cup CiscoServices), CiscoItems)
      BY <2>1, <2>2, CiscoTable, CliDriver
    <2> QED
      BY <2>3 DEF Cisco, p
  <1>2. CliSound(Fortiauth, FortiauthItems)
    <2> DEFINE p == <<"router", "interface", "dns", "global", "ha">>
               n == {"router", "interface", "dns", "global", "ha"}
    <2>1. /\ Len(p) = 5 /\ p[1] = "router" /\ p[2] = "interface" /\ p[3] = "dns"
          /\ p[4] = "global" /\ p[5] = "ha"
      OBVIOUS
    <2> HIDE DEF p
    <2>2. \A e \in n : \E i \in 1..Len(p) : p[i] = e
      BY <2>1
    <2>3. CliSound(Cli(p, FortiauthRows), FortiauthItems)
      BY <2>1, <2>2, FortiauthTable, CliDriver
    <2> QED
      BY <2>3 DEF Fortiauth, p
  <1> QED
    BY <1>1, <1>2

LEMMA SoundDriver ==
  ASSUME device \in DOMAIN Drivers
  PROVE  ApiSound(Driver, Items[device]) \/ CliSound(Driver, Items[device])
  <1>1. device \in {"fortigate", "paloalto", "f5", "netscaler", "vcenter", "cisco", "netapp",
                    "aruba", "fortiauth"}
    BY DEF Drivers
  <1>2. CASE device \in {"cisco", "fortiauth"}
    <2>1. \/ Driver = Cisco /\ Items[device] = CiscoItems
          \/ Driver = Fortiauth /\ Items[device] = FortiauthItems
      BY <1>2 DEF Driver, Drivers, Items
    <2> QED
      BY <2>1, CliDrivers
  <1>3. CASE device \in {"fortigate", "paloalto", "f5", "netscaler"}
    <2>1. \/ Driver = Fortigate /\ Items[device] = FortigateItems
          \/ Driver = Paloalto /\ Items[device] = PaloaltoItems
          \/ Driver = F5 /\ Items[device] = F5Items
          \/ Driver = Netscaler /\ Items[device] = NetscalerItems
      BY <1>3 DEF Driver, Drivers, Items
    <2> QED
      BY <2>1, ApiDrivers
  <1>4. CASE device \in {"vcenter", "netapp", "aruba"}
    <2>1. \/ Driver = Vcenter /\ Items[device] = VcenterItems
          \/ Driver = Netapp /\ Items[device] = NetappItems
          \/ Driver = Aruba /\ Items[device] = ArubaItems
      BY <1>4 DEF Driver, Drivers, Items
    <2> QED
      BY <2>1, ApiDrivers
  <1> QED
    BY <1>1, <1>2, <1>3, <1>4

-----------------------------------------------------------------------------
(* The catalogue is finite: its items are added five at a time. *)

LEMMA FiveMore ==
  ASSUME NEW S, IsFiniteSet(S), NEW a, NEW b, NEW c, NEW d, NEW e
  PROVE  IsFiniteSet(S \cup {a, b, c, d, e})
  <1>1. IsFiniteSet(S \cup {a})
    BY FS_AddElement
  <1>2. IsFiniteSet((S \cup {a}) \cup {b})
    BY <1>1, FS_AddElement
  <1>3. IsFiniteSet(((S \cup {a}) \cup {b}) \cup {c})
    BY <1>2, FS_AddElement
  <1>4. IsFiniteSet((((S \cup {a}) \cup {b}) \cup {c}) \cup {d})
    BY <1>3, FS_AddElement
  <1>5. IsFiniteSet(((((S \cup {a}) \cup {b}) \cup {c}) \cup {d}) \cup {e})
    BY <1>4, FS_AddElement
  <1>6. S \cup {a, b, c, d, e} = ((((S \cup {a}) \cup {b}) \cup {c}) \cup {d}) \cup {e}
    OBVIOUS
  <1> QED
    BY <1>5, <1>6

LEMMA FiniteItems ==
  ASSUME device \in DOMAIN Drivers
  PROVE  IsFiniteSet(Items[device])
  <1>0. IsFiniteSet({})
    BY FS_EmptySet
  <1>1. IsFiniteSet(FortigateItems)
    <2> DEFINE A == {} \cup {"fgt-dns", "fgt-wan-mgmt", "fgt-prelogin-banner",
                  "fgt-postlogin-banner", "fgt-timezone"}
    <2>1. IsFiniteSet(A)
      BY <1>0, FiveMore
    <2> DEFINE B == A \cup {"fgt-ntp", "fgt-hostname", "fgt-tls-version", "fgt-pwd-policy",
                  "fgt-lockout"}
    <2>2. IsFiniteSet(B)
      BY <2>1, FiveMore
    <2> DEFINE C == B \cup {"fgt-admin-default", "fgt-trusthost", "fgt-idle-timeout",
                  "fgt-encrypted-mgmt", "fgt-admin-telnet"}
    <2>3. IsFiniteSet(C)
      BY <2>2, FiveMore
    <2> DEFINE D == C \cup {"fgt-admin-ports", "fgt-strong-crypto", "fgt-ssl-static-keys",
                  "fgt-gui-hostname", "fgt-cpu-log"}
    <2>4. IsFiniteSet(D)
      BY <2>3, FiveMore
    <2> DEFINE E == D \cup {"fgt-snmp-v1v2c", "fgt-syslog", "fgt-event-logging",
                  "fgt-faz-encryption", "fgt-usb-autoinstall"}
    <2>5. IsFiniteSet(E)
      BY <2>4, FiveMore
    <2>6. FortigateItems = E
      BY DEF FortigateItems
    <2> QED
      BY <2>5, <2>6
  <1>2. IsFiniteSet(PaloaltoItems)
    <2> DEFINE A == {} \cup {"pan-hostname", "pan-timezone", "pan-login-banner",
                  "pan-permitted-ip", "pan-disable-telnet"}
    <2>1. IsFiniteSet(A)
      BY <1>0, FiveMore
    <2> DEFINE B == A \cup {"pan-disable-http", "pan-ntp", "pan-ntp-auth", "pan-update-verify",
                  "pan-idle-timeout"}
    <2>2. IsFiniteSet(B)
      BY <2>1, FiveMore
    <2> DEFINE C == B \cup {"pan-log-high-dp", "pan-lockout", "pan-pwd-complexity",
                  "pan-pwd-minlen", "pan-pwd-uppercase"}
    <2>3. IsFiniteSet(C)
      BY <2>2, FiveMore
    <2> DEFINE D == C \cup {"pan-pwd-lowercase", "pan-pwd-numeric", "pan-pwd-special",
                  "pan-pwd-expiry", "pan-pwd-differs"}
    <2>4. IsFiniteSet(D)
      BY <2>3, FiveMore
    <2> DEFINE E == D \cup {"pan-pwd-history", "pan-pwd-profiles", "pan-superuser",
                  "pan-admin-default", "pan-snmp-v2c"}
    <2>5. IsFiniteSet(E)
      BY <2>4, FiveMore
    <2> DEFINE F == E \cup {"pan-log-forward", "pan-log-forward", "pan-log-forward",
                  "pan-log-forward", "pan-log-forward"}
    <2>6. IsFiniteSet(F)
      BY <2>5, FiveMore
    <2>7. PaloaltoItems = F
      BY DEF PaloaltoItems
    <2> QED
      BY <2>6, <2>7
  <1>3. IsFiniteSet(F5Items)
    <2> DEFINE A == {} \cup {"f5-gui-banner", "f5-console-timeout", "f5-sshd-banner",
                  "f5-sshd-timeout", "f5-ssh-algos"}
    <2>1. IsFiniteSet(A)
      BY <1>0, FiveMore
    <2> DEFINE B == A \cup {"f5-tmsh-timeout", "f5-sshd-allow", "f5-httpd-allow",
                  "f5-gui-timeout", "f5-tls-version"}
    <2>2. IsFiniteSet(B)
      BY <2>1, FiveMore
    <2> DEFINE C == B \cup {"f5-hostname", "f5-ntp", "f5-timezone", "f5-pwd-policy",
                  "f5-pwd-minlen"}
    <2>3. IsFiniteSet(C)
      BY <2>2, FiveMore
    <2> DEFINE D == C \cup {"f5-pwd-maxage", "f5-pwd-memory", "f5-pwd-warning",
                  "f5-pwd-complexity", "f5-login-failures"}
    <2>4. IsFiniteSet(D)
      BY <2>3, FiveMore
    <2> DEFINE E == D \cup {"f5-admin-default", "f5-remote-role", "f5-remote-partition",
                  "f5-remote-console", "f5-snmp-v1v2c"}
    <2>5. IsFiniteSet(E)
      BY <2>4, FiveMore
    <2> DEFINE F == E \cup {"f5-syslog-remote", "f5-syslog-remote", "f5-syslog-remote",
                  "f5-syslog-remote", "f5-syslog-remote"}
    <2>6. IsFiniteSet(F)
      BY <2>5, FiveMore
    <2>7. F5Items = F
      BY DEF F5Items
    <2> QED
      BY <2>6, <2>7
  <1>4. IsFiniteSet(NetscalerItems)
    <2> DEFINE A == {} \cup {"ns-nsip-telnet", "ns-nsip-ftp", "ns-nsip-gui", "ns-nsip-restrict",
                  "ns-timeout"}
    <2>1. IsFiniteSet(A)
      BY <1>0, FiveMore
    <2> DEFINE B == A \cup {"ns-strong-password", "ns-min-password", "ns-ssl-reneg", "ns-ntp",
                  "ns-snmp-community"}
    <2>2. IsFiniteSet(B)
      BY <2>1, FiveMore
    <2> DEFINE C == B \cup {"ns-syslog", "ns-default-nsroot", "ns-default-nsroot",
                  "ns-default-nsroot", "ns-default-nsroot"}
    <2>3. IsFiniteSet(C)
      BY <2>2, FiveMore
    <2>4. NetscalerItems = C
      BY DEF NetscalerItems
    <2> QED
      BY <2>3, <2>4
  <1>5. IsFiniteSet(VcenterItems)
    <2> DEFINE A == {} \cup {"vc-ntp", "vc-timesync", "vc-ssh", "vc-shell", "vc-dcui"}
    <2>1. IsFiniteSet(A)
      BY <1>0, FiveMore
    <2> DEFINE B == A \cup {"vc-syslog", "vc-pwd-maxage", "vc-root-expiry", "vc-root-expiry",
                  "vc-root-expiry"}
    <2>2. IsFiniteSet(B)
      BY <2>1, FiveMore
    <2>3. VcenterItems = B
      BY DEF VcenterItems
    <2> QED
      BY <2>2, <2>3
  <1>6. IsFiniteSet(CiscoItems)
    <2> DEFINE A == {} \cup {"cisco-web-mgmt", "cisco-vty-ssh", "cisco-vty-acl", "cisco-ssh-algo",
                  "cisco-ssh-ver"}
    <2>1. IsFiniteSet(A)
      BY <1>0, FiveMore
    <2> DEFINE B == A \cup {"cisco-pwd-encryption", "cisco-enable-secret", "cisco-user-secret",
                  "cisco-snmp-community", "cisco-ntp"}
    <2>2. IsFiniteSet(B)
      BY <2>1, FiveMore
    <2> DEFINE C == B \cup {"cisco-ntp-auth", "cisco-logging", "cisco-timestamps",
                  "cisco-login-log", "cisco-aaa"}
    <2>3. IsFiniteSet(C)
      BY <2>2, FiveMore
    <2> DEFINE D == C \cup {"cisco-aaa-auth-login", "cisco-banner", "cisco-exec-timeout",
                  "cisco-exec-timeout", "cisco-exec-timeout"}
    <2>4. IsFiniteSet(D)
      BY <2>3, FiveMore
    <2>5. CiscoItems = D
      BY DEF CiscoItems
    <2> QED
      BY <2>4, <2>5
  <1>7. IsFiniteSet(NetappItems)
    <2> DEFINE A == {} \cup {"netapp-ntp", "netapp-timezone", "netapp-ssh-ciphers",
                  "netapp-ssh-macs", "netapp-snmp-v1v2c"}
    <2>1. IsFiniteSet(A)
      BY <1>0, FiveMore
    <2> DEFINE B == A \cup {"netapp-audit", "netapp-audit-dest", "netapp-banner",
                  "netapp-admin-default", "netapp-admin-default"}
    <2>2. IsFiniteSet(B)
      BY <2>1, FiveMore
    <2>3. NetappItems = B
      BY DEF NetappItems
    <2> QED
      BY <2>2, <2>3
  <1>8. IsFiniteSet(ArubaItems)
    <2> DEFINE A == {} \cup {"aruba-telnet", "aruba-ssh-dsa", "aruba-ssh-ciphers",
                  "aruba-snmp-v1v2c", "aruba-snmp-default"}
    <2>1. IsFiniteSet(A)
      BY <1>0, FiveMore
    <2> DEFINE B == A \cup {"aruba-ntp", "aruba-banner", "aruba-pwd-policy", "aruba-pwd-minlen",
                  "aruba-admin-default"}
    <2>2. IsFiniteSet(B)
      BY <2>1, FiveMore
    <2>3. ArubaItems = B
      BY DEF ArubaItems
    <2> QED
      BY <2>2, <2>3
  <1>9. IsFiniteSet(FortiauthItems)
    <2> DEFINE A == {} \cup {"fac-mgmt-access", "fac-allowed-hosts", "fac-admin-maintainer",
                  "fac-dns", "fac-timezone"}
    <2>1. IsFiniteSet(A)
      BY <1>0, FiveMore
    <2>2. FortiauthItems = A
      BY DEF FortiauthItems
    <2> QED
      BY <2>1, <2>2
  <1>10. device \in {"fortigate", "paloalto", "f5", "netscaler", "vcenter", "cisco", "netapp",
                     "aruba", "fortiauth"}
    BY DEF Drivers
  <1>11. Items[device] \in {FortigateItems, PaloaltoItems, F5Items, NetscalerItems, VcenterItems,
                            CiscoItems, NetappItems, ArubaItems, FortiauthItems}
    BY <1>10 DEF Items
  <1> QED
    BY <1>1, <1>2, <1>3, <1>4, <1>5, <1>6, <1>7, <1>8, <1>9, <1>11

-----------------------------------------------------------------------------
(* A report *)

\* What the inspection makes of what it could read.
Reported(read) == (UNION {Findings(r, read) : r \in Known(read)}) \cup Unread(read)

LEMMA InReported ==
  ASSUME NEW read
  PROVE  \A x : x \in Reported(read)
                <=> x \in Unread(read) \/ \E r \in Known(read) : x \in Findings(r, read)
  <1> DEFINE F(r) == Findings(r, read)
             K == Known(read)
             M == UNION {F(r) : r \in K}
  <1>1. Reported(read) = M \cup Unread(read)
    BY DEF Reported
  <1>2. \A x : x \in M <=> \E r \in K : x \in F(r)
    <2> HIDE DEF F, K
    <2> QED
      OBVIOUS
  <1> HIDE DEF M
  <1> QED
    BY <1>1, <1>2

LEMMA InFindings ==
  ASSUME NEW r, NEW read, NEW x, x \in Findings(r, read)
  PROVE  \E c \in Classes \cap DOMAIN r.both : \E s \in Seen(r, c) :
           x = [id |-> r.id, class |-> c, status |-> Judge(r, s, read)]
  <1>1. PICK c \in Classes \cap DOMAIN r.both :
          x \in [id : {r.id}, class : {c}, status : {Judge(r, s, read) : s \in Seen(r, c)}]
    BY DEF Findings
  <1>2. x = [id |-> x.id, class |-> x.class, status |-> x.status]
        /\ x.id = r.id /\ x.class = c /\ x.status \in {Judge(r, s, read) : s \in Seen(r, c)}
    BY <1>1
  <1>3. PICK s \in Seen(r, c) : x.status = Judge(r, s, read)
    BY <1>2
  <1> QED
    BY <1>2, <1>3

LEMMA InUnread ==
  ASSUME NEW read, NEW x, x \in Unread(read)
  PROVE  /\ x = [id |-> x.id, class |-> "any", status |-> "manual"]
         /\ x.id \in Missed(read) /\ x.id \notin Ids(Known(read))
  BY DEF Unread

LEMMA GoodIsFound ==
  ASSUME NEW r, NEW read, "good" \in DOMAIN r.both
  PROVE  \E x \in Findings(r, read) : x.id = r.id
  <1>1. "good" \in Classes \cap DOMAIN r.both /\ "good" \in Seen(r, "good")
    BY DEF Classes, Seen
  <1> DEFINE F(c) == [id : {r.id}, class : {c}, status : {Judge(r, s, read) : s \in Seen(r, c)}]
             x == [id |-> r.id, class |-> "good", status |-> Judge(r, "good", read)]
  <1>2. x \in F("good")
    BY <1>1
  <1>3. Findings(r, read) = UNION {F(c) : c \in Classes \cap DOMAIN r.both}
    BY DEF Findings
  <1>4. x.id = r.id
    OBVIOUS
  <1> HIDE DEF F, x
  <1>5. x \in Findings(r, read)
    BY <1>1, <1>2, <1>3
  <1> QED
    BY <1>4, <1>5

\* Every item is judged or missed, so the report covers the catalogue.
LEMMA Covered ==
  ASSUME NEW S, NEW read, Table(Driver.rows, S), Missed(read) \subseteq S,
         \A r \in Driver.rows : Judged(r, read) \/ r.id \in Missed(read)
  PROVE  {i.id : i \in Reported(read)} = S
  <1>1. \A i \in Reported(read) : i.id \in S
    <2> SUFFICES ASSUME NEW i \in Reported(read)
                 PROVE  i.id \in S
      OBVIOUS
    <2>1. CASE i \in Unread(read)
      BY <2>1, InUnread
    <2>2. CASE \E r \in Known(read) : i \in Findings(r, read)
      <3>1. PICK r \in Driver.rows : i \in Findings(r, read)
        BY <2>2 DEF Known
      <3>2. i.id = r.id
        BY <3>1, InFindings
      <3> QED
        BY <3>1, <3>2 DEF Table, Ids
    <2> QED
      BY <2>1, <2>2, InReported
  <1>2. \A id \in S : \E i \in Reported(read) : i.id = id
    <2> SUFFICES ASSUME NEW id \in S
                 PROVE  \E i \in Reported(read) : i.id = id
      OBVIOUS
    <2>1. PICK r \in Driver.rows : r.id = id
      BY DEF Table, Ids
    <2>2. CASE id \in Ids(Known(read))
      <3>1. PICK q \in Known(read) : q.id = id
        BY <2>2 DEF Ids
      <3>2. "good" \in DOMAIN q.both
        BY <3>1 DEF Known, Table, FairRow
      <3>3. PICK x \in Findings(q, read) : x.id = id
        BY <3>1, <3>2, GoodIsFound
      <3> QED
        BY <3>1, <3>3, InReported
    <2>3. CASE id \notin Ids(Known(read))
      <3>1. r \notin Known(read)
        BY <2>1, <2>3 DEF Ids
      <3>2. id \in Missed(read)
        BY <2>1, <3>1 DEF Known
      <3> DEFINE x == [id |-> id, class |-> "any", status |-> "manual"]
      <3>3. x \in Unread(read)
        BY <2>3, <3>2 DEF Unread
      <3>4. x.id = id
        OBVIOUS
      <3> HIDE DEF x
      <3> QED
        BY <3>3, <3>4, InReported
    <2> QED
      BY <2>2, <2>3
  <1> QED
    BY <1>1, <1>2

\* An uncut reading gives an item in a class one status.
LEMMA OneStatus ==
  ASSUME NEW S, NEW read, Table(Driver.rows, S), cut = "no"
  PROVE  /\ \A x, y \in Reported(read) : x.id = y.id /\ x.class = y.class => x = y
         /\ \A x \in Reported(read) : x.class \in Classes \cup {"any"}
  <1>1. \A r, c : Seen(r, c) = {c}
    BY DEF Seen, PartlyRead
  <1>2. \A r \in Known(read) : \A x \in Findings(r, read) :
          /\ x.class \in Classes
          /\ x = [id |-> r.id, class |-> x.class, status |-> Judge(r, x.class, read)]
    BY <1>1, InFindings
  <1>3. \A x \in Reported(read) :
          x \in Unread(read) \/ \E r \in Known(read) : x \in Findings(r, read)
    BY InReported
  <1>4. "any" \notin Classes
    BY DEF Classes
  <1>5. ASSUME NEW x \in Reported(read), NEW y \in Reported(read),
               x.id = y.id, x.class = y.class
        PROVE  x = y
    <2>1. CASE x \in Unread(read)
      <3>1. x = [id |-> x.id, class |-> "any", status |-> "manual"]
        BY <2>1, InUnread
      <3>2. y.class = "any"
        BY <1>5, <3>1
      <3>3. y \in Unread(read)
        BY <1>2, <1>3, <1>4, <3>2
      <3>4. y = [id |-> y.id, class |-> "any", status |-> "manual"]
        BY <3>3, InUnread
      <3> QED
        BY <1>5, <3>1, <3>4
    <2>2. CASE x \notin Unread(read)
      <3>1. PICK q \in Known(read) : x \in Findings(q, read)
        BY <1>3, <2>2
      <3>2. /\ x.class \in Classes
            /\ x = [id |-> q.id, class |-> x.class, status |-> Judge(q, x.class, read)]
        BY <1>2, <3>1
      <3>3. y \notin Unread(read)
        BY <1>4, <1>5, <3>2, InUnread
      <3>4. PICK r \in Known(read) : y \in Findings(r, read)
        BY <1>3, <3>3
      <3>5. y = [id |-> r.id, class |-> y.class, status |-> Judge(r, y.class, read)]
        BY <1>2, <3>4
      <3>6. q.id = x.id /\ r.id = y.id
        BY <3>2, <3>5
      <3>7. q = r
        BY <1>5, <3>1, <3>4, <3>6 DEF Known, Table
      <3> QED
        BY <1>5, <3>2, <3>5, <3>7
    <2> QED
      BY <2>1, <2>2
  <1>6. \A x \in Reported(read) : x.class \in Classes \cup {"any"}
    BY <1>2, <1>3, InUnread
  <1> QED
    BY <1>5, <1>6

LEMMA FiniteReport ==
  ASSUME NEW S, NEW R, IsFiniteSet(S), \A x \in R : x.id \in S /\ x.class \in Classes \cup {"any"},
         \A x, y \in R : x.id = y.id /\ x.class = y.class => x = y
  PROVE  Cardinality({<<x.id, x.class>> : x \in R}) = Cardinality(R)
  <1> DEFINE Q == {<<x.id, x.class>> : x \in R}
             f == [x \in R |-> <<x.id, x.class>>]
             five == {"good", "soft", "bad", "absent", "odd"}
             ten == five \cup {"empty", "unused", "off", "there", "any"}
             All == ten \cup {"half", "nan", "vague", "any", "good"}
  <1>1. IsFiniteSet(All)
    <2>1. IsFiniteSet({} \cup five)
      BY FS_EmptySet, FiveMore
    <2>2. {} \cup five = five
      OBVIOUS
    <2>3. IsFiniteSet(five)
      BY <2>1, <2>2
    <2>4. IsFiniteSet(ten)
      BY <2>3, FiveMore
    <2> QED
      BY <2>4, FiveMore
  <1>2. IsFiniteSet(S \X All)
    BY <1>1, FS_Product
  <1>3. Classes \cup {"any"} \subseteq All
    BY DEF Classes
  <1>4. Q \subseteq S \X All
    <2>1. \A x \in R : x.id \in S /\ x.class \in All
      BY <1>3
    <2> HIDE DEF All
    <2> QED
      BY <2>1
  <1>5. IsFiniteSet(Q)
    BY <1>2, <1>4, FS_Subset
  <1>6. f \in Bijection(R, Q)
    <2>1. f \in [R -> Q]
      OBVIOUS
    <2>2. \A x, y \in R : f[x] = f[y] => x = y
      OBVIOUS
    <2>3. \A q \in Q : \E x \in R : f[x] = q
      OBVIOUS
    <2> QED
      BY <2>1, <2>2, <2>3 DEF Bijection, Injection, Surjection, IsInjective
  <1>7. ExistsBijection(Q, R)
    BY <1>6, Fun_ExistsBijSymmetric DEF ExistsBijection
  <1> HIDE DEF Q, f, All
  <1>8. Cardinality(Q) = Cardinality(R)
    BY <1>5, <1>7, FS_Bijection
  <1> QED
    BY <1>8 DEF Q

\* What passes was judged by a row of its item, fairly where the first endpoint was read.
LEMMA Passed ==
  ASSUME NEW S, NEW read, Table(Driver.rows, S), cut = "no",
         NEW x \in Reported(read), x.status = "pass"
  PROVE  \E r \in Driver.rows :
           /\ r.id = x.id /\ Judged(r, read)
           /\ \/ x.class \in {"good", "there", "off"} \/ <<x.id, x.class>> \in Lenient
              \/ r.from \notin read /\ x.class \in DOMAIN r.other /\ r.other[x.class] = "pass"
  <1>1. x \notin Unread(read)
    <2> SUFFICES ASSUME x \in Unread(read)
                 PROVE  FALSE
      OBVIOUS
    <2>1. x = [id |-> x.id, class |-> "any", status |-> "manual"]
      BY InUnread
    <2> QED
      BY <2>1
  <1>2. PICK r \in Known(read) : x \in Findings(r, read)
    BY <1>1, InReported
  <1>3. r \in Driver.rows /\ Judged(r, read) /\ FairRow(r)
    BY DEF Known, Table
  <1>4. \A c : Seen(r, c) = {c}
    BY DEF Seen, PartlyRead
  <1>5. PICK c \in Classes \cap DOMAIN r.both :
          x = [id |-> r.id, class |-> c, status |-> Judge(r, c, read)]
    BY <1>2, <1>4, InFindings
  <1>6. x.id = r.id /\ x.class = c /\ Judge(r, c, read) = "pass" /\ c \in DOMAIN r.both
    BY <1>5
  <1>7. CASE r.from \in read
    <2>1. r.both[c] = "pass" \/ r.only[c] = "pass"
      BY <1>6, <1>7 DEF Judge
    <2>2. c \in {"good", "there", "off"} \/ <<r.id, c>> \in Lenient
      BY <1>3, <1>6, <2>1 DEF FairRow, Fair
    <2> QED
      BY <1>3, <1>6, <2>2
  <1>8. CASE r.from \notin read
    <2>1. r.other[c] = "pass" /\ DOMAIN r.other # {}
      BY <1>3, <1>6, <1>8 DEF Judge, Judged
    <2>2. c \in DOMAIN r.other
      BY <1>3, <1>6, <2>1 DEF FairRow
    <2> QED
      BY <1>3, <1>6, <1>8, <2>1, <2>2
  <1> QED
    BY <1>7, <1>8

LEMMA ItemsOnce ==
  ASSUME NEW S, NEW read, Table(Driver.rows, S), IsFiniteSet(S), cut = "no",
         {i.id : i \in Reported(read)} = S
  PROVE  Cardinality({<<i.id, i.class>> : i \in Reported(read)}) = Cardinality(Reported(read))
  <1> DEFINE R == Reported(read)
  <1>1. \A x, y \in R : x.id = y.id /\ x.class = y.class => x = y
    BY OneStatus
  <1>2. \A x \in R : x.id \in S /\ x.class \in Classes \cup {"any"}
    BY OneStatus
  <1> HIDE DEF R
  <1>3. Cardinality({<<i.id, i.class>> : i \in R}) = Cardinality(R)
    BY <1>1, <1>2, FiniteReport
  <1> QED
    BY <1>3 DEF R

-----------------------------------------------------------------------------
(* The invariant *)

InspectTyped ==
    /\ device \in DOMAIN Drivers
    /\ pc \in {"idle", "login", "fetch", "logout", "judge", "done", "failed"}
    /\ next \in Nat /\ session \in {"none", "open", "released", "left", "stray", "token"}
    /\ cut \in {"no", "near", "far"} /\ raised \in BOOLEAN

\* Until the last answer nothing was cut off and nothing raised; an API is never cut off.
Unbroken ==
    /\ pc \in {"idle", "login", "fetch"} => cut = "no" /\ ~raised
    /\ Driver.kind = "api" => cut = "no"

\* A configuration that was not cut off was read up to `next`, in the end to its last section.
Whole == Driver.kind = "cli" =>
    /\ empty = {}
    /\ pc \in {"idle", "login", "fetch"} => next \in 1..Last
    /\ cut = "no" /\ ~raised =>
          /\ \A i \in 1..(next - 1) : Driver.endpoints[i] \in data
          /\ pc \in {"logout", "judge"} => next = Last + 1

\* An open session is one to log out of.
GivenBack == session = "open" => pc \in {"fetch", "logout"}

InspectInv == /\ InspectTyped /\ Unbroken /\ Whole /\ GivenBack
              /\ ItemsComplete /\ NoFalsePass

LEMMA Kinds ==
  ASSUME device \in DOMAIN Drivers
  PROVE  /\ Driver.kind \in {"api", "cli"}
         /\ Driver.kind = "api" => /\ Driver.answers \subseteq Answers
                                   /\ ApiSound(Driver, Items[device])
         /\ Driver.kind = "cli" => /\ Driver.answers = {"ok", "cut", "raise"}
                                   /\ Last \in Nat \ {0}
                                   /\ CliSound(Driver, Items[device])
  <1>1. ApiSound(Driver, Items[device]) \/ CliSound(Driver, Items[device])
    BY SoundDriver
  <1>2. Driver.kind = "cli" => Last \in Nat \ {0}
    BY <1>1 DEF ApiSound, CliSound, Last
  <1> QED
    BY <1>1, <1>2 DEF ApiSound, CliSound

LEMMA InspectInit ==
  ASSUME Init
  PROVE  InspectInv
  <1>1. InspectTyped /\ Unbroken /\ GivenBack
    BY DEF Init, InspectTyped, Unbroken, GivenBack
  <1>2. Whole
    <2>1. Driver.kind = "cli" => Last \in Nat \ {0}
      BY Kinds DEF Init
    <2> QED
      BY <2>1 DEF Init, Whole
  <1>3. ItemsComplete /\ NoFalsePass
    BY DEF Init, ItemsComplete, NoFalsePass
  <1> QED
    BY <1>1, <1>2, <1>3 DEF InspectInv

\* Reading and judging leave what was read in order.
LEMMA ReadingStays ==
  ASSUME InspectInv, [Next]_vars
  PROVE  InspectTyped' /\ Unbroken' /\ Whole' /\ GivenBack'
  <1> USE DEF InspectInv, InspectTyped
  <1>1. /\ Driver.kind \in {"api", "cli"}
        /\ Driver.kind = "api" => Driver.answers \subseteq {"ok", "empty", "error", "raise"}
        /\ Driver.kind = "cli" => Driver.answers = {"ok", "cut", "raise"} /\ Last \in Nat \ {0}
    BY Kinds DEF Answers
  <1>2. device' = device /\ Driver' = Driver /\ Last' = Last
    BY DEF Next, vars, Inspect, Login, Fetch, Logout, Raise, Report, Driver, Last
  <1>3. CASE UNCHANGED vars
    BY <1>2, <1>3 DEF vars, Unbroken, Whole, GivenBack
  <1>4. CASE Inspect
    BY <1>2, <1>4 DEF Inspect, Unbroken, Whole, GivenBack
  <1>5. CASE Login
    BY <1>2, <1>5 DEF Login, Unbroken, Whole, GivenBack
  <1>6. CASE Fetch
    <2>1. PICK a \in Driver.answers, e \in {Driver.endpoints[next]} :
            /\ data' = IF a \in {"ok", "empty"} THEN data \cup {e} ELSE data
            /\ empty' = IF a = "empty" THEN empty \cup {e} ELSE empty
            /\ IF a = "cut" THEN cut' \in {"near", "far"} ELSE UNCHANGED cut
            /\ raised' = (a = "raise")
            /\ pc' = IF a \in {"raise", "cut"} \/ next = Last THEN Onward(a) ELSE "fetch"
      BY <1>6 DEF Fetch
    <2>2. pc = "fetch" /\ next' = next + 1 /\ session' = session /\ cut = "no" /\ ~raised
      BY <1>6 DEF Fetch, Unbroken
    <2>3. Onward(a) = IF session = "open" THEN "logout" ELSE "judge"
      BY DEF Onward
    <2>4. InspectTyped'
      BY <1>2, <2>1, <2>2, <2>3
    <2>5. Unbroken'
      BY <1>1, <1>2, <2>1, <2>2, <2>3 DEF Unbroken
    <2>6. GivenBack'
      BY <2>1, <2>2, <2>3 DEF GivenBack
    <2>7. ASSUME Driver.kind = "cli"
          PROVE  /\ empty' = {}
                 /\ pc' \in {"idle", "login", "fetch"} => next' \in 1..Last
                 /\ cut' = "no" /\ ~raised' =>
                       /\ \A i \in 1..(next' - 1) : Driver.endpoints[i] \in data'
                       /\ pc' \in {"logout", "judge"} => next' = Last + 1
      <3>1. a \in {"ok", "cut", "raise"} /\ next \in 1..Last /\ Last \in Nat
        BY <1>1, <2>1, <2>2, <2>7 DEF Whole
      <3>2. empty' = {}
        BY <2>1, <2>7, <3>1 DEF Whole
      <3>3. pc' \in {"idle", "login", "fetch"} => next' \in 1..Last
        BY <2>1, <2>2, <2>3, <3>1
      <3>4. ASSUME cut' = "no", ~raised'
            PROVE  a = "ok"
        BY <2>1, <3>1, <3>4
      <3>5. ASSUME a = "ok", NEW i \in 1..(next' - 1)
            PROVE  Driver.endpoints[i] \in data'
        <4>1. data' = data \cup {Driver.endpoints[next]}
          BY <2>1, <3>5
        <4>2. i = next \/ i \in 1..(next - 1)
          BY <2>2, <3>1
        <4>3. \A k \in 1..(next - 1) : Driver.endpoints[k] \in data
          BY <2>2, <2>7 DEF Whole
        <4> QED
          BY <4>1, <4>2, <4>3
      <3>6. ASSUME a = "ok", pc' \in {"logout", "judge"}
            PROVE  next' = Last + 1
        BY <2>1, <2>2, <3>6
      <3> QED
        BY <3>2, <3>3, <3>4, <3>5, <3>6
    <2>8. Whole'
      BY <1>2, <2>7 DEF Whole
    <2> QED
      BY <2>4, <2>5, <2>6, <2>8
  <1>7. CASE Logout
    BY <1>2, <1>7 DEF Logout, Unbroken, Whole, GivenBack
  <1>8. CASE Raise
    BY <1>2, <1>8 DEF Raise, Unbroken, Whole, GivenBack
  <1>9. CASE Report
    BY <1>2, <1>9 DEF Report, Unbroken, Whole, GivenBack
  <1> QED
    BY <1>3, <1>4, <1>5, <1>6, <1>7, <1>8, <1>9 DEF Next

\* What an API driver reports.
LEMMA ApiReport ==
  ASSUME InspectInv, pc = "judge", NEW S, ApiSound(Driver, S)
  PROVE  /\ {i.id : i \in Reported(Readable)} = S
         /\ \A x \in Reported(Readable) : x.status = "pass" =>
               /\ \E r \in Driver.rows : r.id = x.id /\ {r.from, r.also} \cap Read # {}
               /\ x.class \in {"good", "there", "off"} \/ <<x.id, x.class>> \in Lenient
  <1>1. /\ Driver.kind = "api" /\ Table(Driver.rows, S) /\ Ids(Driver.rows) = S
        /\ \A r \in Driver.rows :
              /\ Fair(r.id, r.other)
              /\ r.from \in DOMAIN Driver.groups =>
                    r.id \in Driver.groups[r.from] \cup OwnBranch
        /\ \A e \in DOMAIN Driver.groups : Driver.groups[e] \subseteq S
        /\ Driver.inline = Ids({r \in Driver.rows : r.from \notin DOMAIN Driver.groups})
                           \cup (S \cap OwnBranch)
    BY DEF ApiSound, ApiTable, Table
  <1>2. Readable = Read
    BY <1>1 DEF Readable
  <1>3. cut = "no"
    BY <1>1 DEF InspectInv, Unbroken
  <1>4. \A r \in Driver.rows : r.id \in S
    BY <1>1 DEF Ids
  <1>5. Missed(Read) \subseteq S
    BY <1>1, <1>4 DEF Missed
  <1>6. ASSUME NEW r \in Driver.rows, ~Judged(r, Read)
        PROVE  r.id \in Missed(Read)
    <2>1. r.from \notin Read
      BY <1>6 DEF Judged
    <2>2. CASE r.id \in Driver.inline
      BY <1>6, <2>2 DEF Missed
    <2>3. CASE r.id \notin Driver.inline
      <3>1. r.from \in DOMAIN Driver.groups /\ r.id \notin OwnBranch
        BY <1>1, <1>4, <2>3 DEF Ids
      <3>2. r.id \in Driver.groups[r.from] /\ r.from \in DOMAIN Driver.groups \ Read
        BY <1>1, <2>1, <3>1
      <3> QED
        BY <3>2 DEF Missed
    <2> QED
      BY <2>2, <2>3
  <1>7. {i.id : i \in Reported(Read)} = S
    BY <1>1, <1>5, <1>6, Covered
  <1>8. ASSUME NEW x \in Reported(Read), x.status = "pass"
        PROVE  /\ \E r \in Driver.rows : r.id = x.id /\ {r.from, r.also} \cap Read # {}
               /\ x.class \in {"good", "there", "off"} \/ <<x.id, x.class>> \in Lenient
    <2>1. PICK r \in Driver.rows :
            /\ r.id = x.id /\ Judged(r, Read)
            /\ \/ x.class \in {"good", "there", "off"} \/ <<x.id, x.class>> \in Lenient
               \/ r.from \notin Read /\ x.class \in DOMAIN r.other /\ r.other[x.class] = "pass"
      BY <1>1, <1>3, <1>8, Passed
    <2>2. {r.from, r.also} \cap Read # {}
      BY <2>1 DEF Judged
    <2>3. x.class \in DOMAIN r.other /\ r.other[x.class] = "pass" =>
             x.class \in {"good", "there", "off"} \/ <<r.id, x.class>> \in Lenient
      BY <1>1 DEF Fair
    <2> QED
      BY <2>1, <2>2, <2>3
  <1> QED
    BY <1>2, <1>7, <1>8

\* What a CLI driver reports: nothing is missed, what was not read looks absent.
LEMMA CliReport ==
  ASSUME InspectInv, pc = "judge", ~raised, NEW S, CliSound(Driver, S)
  PROVE  /\ {i.id : i \in Reported(Readable)} = S
         /\ cut = "no" => \A x \in Reported(Readable) : x.status = "pass" =>
               /\ \E r \in Driver.rows : r.id = x.id /\ {r.from, r.also} \cap Read # {}
               /\ x.class \in {"good", "there", "off"} \/ <<x.id, x.class>> \in Lenient
  <1>1. /\ Driver.kind = "cli" /\ Table(Driver.rows, S)
        /\ \A r \in Driver.rows : r.also = "config" /\ DOMAIN r.other # {}
                                  /\ r.from \in Sections(Driver)
        /\ Driver.groups = <<>> /\ Driver.inline = {}
    BY DEF CliSound, CliTable
  <1>2. Readable = data \cup PartlyRead \cup {"config"}
    BY <1>1 DEF Readable
  <1>3. \A r \in Driver.rows : Judged(r, Readable)
    BY <1>1, <1>2 DEF Judged
  <1>4. Missed(Readable) = {}
    BY <1>1 DEF Missed
  <1>5. {i.id : i \in Reported(Readable)} = S
    BY <1>1, <1>3, <1>4, Covered
  <1>6. ASSUME cut = "no", NEW x \in Reported(Readable), x.status = "pass"
        PROVE  /\ \E r \in Driver.rows : r.id = x.id /\ {r.from, r.also} \cap Read # {}
               /\ x.class \in {"good", "there", "off"} \/ <<x.id, x.class>> \in Lenient
    <2>1. empty = {} /\ next = Last + 1 /\ \A i \in 1..(next - 1) : Driver.endpoints[i] \in data
      BY <1>1, <1>6 DEF InspectInv, Whole
    <2>2. Last \in Nat \ {0} /\ Last = Len(Driver.endpoints)
      BY <1>1, Kinds DEF InspectInv, InspectTyped, Last
    <2>3. \A i \in 1..Len(Driver.endpoints) : Driver.endpoints[i] \in data
      BY <2>1, <2>2
    <2>4. Sections(Driver) \subseteq data
      BY <2>3 DEF Sections
    <2>5. PICK r \in Driver.rows :
            /\ r.id = x.id
            /\ \/ x.class \in {"good", "there", "off"} \/ <<x.id, x.class>> \in Lenient
               \/ r.from \notin Readable
      BY <1>1, <1>6, Passed
    <2>6. r.from \in data
      BY <1>1, <2>4
    <2>7. r.from \in Readable /\ r.from \in Read
      BY <1>2, <2>1, <2>6 DEF Read
    <2> QED
      BY <2>5, <2>7
  <1> QED
    BY <1>5, <1>6

LEMMA ReportIsRight ==
  ASSUME InspectInv, Report
  PROVE  ItemsComplete' /\ NoFalsePass'
  <1> DEFINE S == Items[device]
             R == Reported(Readable)
             Fine(x) == /\ \E r \in Driver.rows : r.id = x.id /\ {r.from, r.also} \cap Read # {}
                        /\ x.class \in {"good", "there", "off"} \/ <<x.id, x.class>> \in Lenient
  <1>1. /\ pc = "judge" /\ ~raised /\ (Driver.kind = "cli" => Complete)
        /\ device' = device /\ cut' = cut /\ data' = data /\ empty' = empty
    BY DEF Report, Accepted
  <1>2. items' = R
    BY DEF Report, Reported
  <1>3. device \in DOMAIN Drivers /\ IsFiniteSet(S)
    BY FiniteItems DEF InspectInv, InspectTyped
  <1>4. ApiSound(Driver, S) \/ CliSound(Driver, S)
    BY <1>3, SoundDriver
  <1>5. Table(Driver.rows, S)
    BY <1>4 DEF ApiSound, CliSound, ApiTable, CliTable
  <1>6. {i.id : i \in R} = S /\ (cut = "no" => \A x \in R : x.status = "pass" => Fine(x))
    BY <1>1, <1>4, ApiReport, CliReport
  <1>7. cut = "no" => Cardinality({<<i.id, i.class>> : i \in R}) = Cardinality(R)
    BY <1>3, <1>5, <1>6, ItemsOnce
  <1> HIDE DEF R
  <1>9. ItemsComplete'
    <2>1. {i.id : i \in items'} = Items[device']
      BY <1>1, <1>2, <1>6
    <2>2. cut' = "no" => Cardinality({<<i.id, i.class>> : i \in items'}) = Cardinality(items')
      BY <1>1, <1>2, <1>7
    <2> QED
      BY <2>1, <2>2 DEF ItemsComplete
  <1>10. NoFalsePass'
    <2>1. Driver' = Driver /\ Read' = Read
      BY <1>1 DEF Driver, Read
    <2>2. cut' = "no" => \A x \in items' : x.status = "pass" => Fine(x)
      BY <1>1, <1>2, <1>6
    <2> QED
      BY <2>1, <2>2 DEF NoFalsePass
  <1> QED
    BY <1>9, <1>10

LEMMA InspectStep ==
  ASSUME InspectInv, [Next]_vars
  PROVE  InspectInv'
  <1>1. InspectTyped' /\ Unbroken' /\ Whole' /\ GivenBack'
    BY ReadingStays
  <1>2. CASE UNCHANGED vars
    <2>1. /\ pc' = pc /\ device' = device /\ cut' = cut /\ items' = items
          /\ Driver' = Driver /\ Read' = Read
      BY <1>2 DEF vars, Driver, Read
    <2>2. ItemsComplete'
      BY <2>1 DEF InspectInv, ItemsComplete
    <2>3. NoFalsePass'
      BY <2>1 DEF InspectInv, NoFalsePass
    <2> QED
      BY <1>1, <2>2, <2>3 DEF InspectInv
  <1>3. CASE Report
    BY <1>1, <1>3, ReportIsRight DEF InspectInv
  <1>4. CASE Inspect \/ Login \/ Fetch \/ Logout \/ Raise
    <2>1. pc' # "done"
      BY <1>4 DEF Inspect, Login, Fetch, Logout, Raise, Onward
    <2> QED
      BY <1>1, <2>1 DEF InspectInv, ItemsComplete, NoFalsePass
  <1> QED
    BY <1>2, <1>3, <1>4 DEF Next

\* What was read of a device stays in order, and its report is right.
THEOREM InspectInvariant == Spec => []InspectInv
  <1>1. Init => InspectInv
    BY InspectInit
  <1>2. InspectInv /\ [Next]_vars => InspectInv'
    BY InspectStep
  <1> QED
    BY <1>1, <1>2, PTL DEF Spec

-----------------------------------------------------------------------------
(* Theorems *)

\* Whichever endpoints of whichever device fail, and wherever a configuration
\* stops, a report names each item of the family's catalogue, and gives it one
\* status: no inspection shrinks a report (check_items.py: items_for).
THEOREM ReportCoversCatalogue == Spec => []ItemsComplete
  <1>1. InspectInv => ItemsComplete
    BY DEF InspectInv
  <1> QED
    BY <1>1, InspectInvariant, PTL

\* Of a device read to the end, an item that passes was judged from an answer
\* that has what is wanted: an endpoint that fails or answers nothing never
\* makes an item pass (the add, res and miss of the drivers' inspect), but for
\* the items and the answers on which a driver is lenient, which Lenient lists.
THEOREM PassedIsRead == Spec => []NoFalsePass
  <1>1. InspectInv => NoFalsePass
    BY DEF InspectInv
  <1> QED
    BY <1>1, InspectInvariant, PTL

\* Whether an inspection reports or raises, it has asked for the end of the
\* session it has the handle of (vcenter.py, aruba.py: the finally clause of
\* inspect; cisco.py, fortiauth.py: that of the reading).
THEOREM LogoutIsAsked == Spec => []LogoutAsked
  <1>1. InspectInv => LogoutAsked
    BY DEF InspectInv, GivenBack, LogoutAsked
  <1> QED
    BY <1>1, InspectInvariant, PTL
==============================================================================
