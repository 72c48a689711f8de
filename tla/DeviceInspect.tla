---------------------------- MODULE DeviceInspect ----------------------------
(***************************************************************************)
(* One inspection of a network device (app/drivers/: inspect): log in, ask *)
(* every endpoint in turn, log out, judge the items.                       *)
(*                                                                         *)
(* An API driver asks endpoints and records those that answer with an      *)
(* error; a CLI driver reads one configuration, which may stop at any      *)
(* line. An item's status depends on what was read and on the item's own   *)
(* class, so `items` gives it for every class the item may be in: all the  *)
(* reports that this reading of the device can lead to.                    *)
(* A definition just before the one it varies is a wrong variant.          *)
(***************************************************************************)
EXTENDS DeviceTables, Naturals, FiniteSets

CONSTANT MaxErrors  \* bound on the endpoints without a usable answer, unless all lack one

ASSUME InspectAssumption == MaxErrors \in Nat

VARIABLES
    pc,         \* "idle", "login", "fetch", "logout", "judge", "done", "failed"
    device,     \* device_type
    next,       \* the endpoint or section to read
    data,       \* data: endpoints that answered, sections read whole
    empty,      \* the endpoints among them whose answer holds no result
    cut,        \* "no", or a CLI output stopped after `data`: "near" a line `end`, or "far"
    session,    \* "none", "open", logged out of: "released", or the logout failed: "left";
                \* what inspect has no handle of, or no way to end: "stray", "token"
    raised,     \* inspect is to raise
    items       \* result["items"]: id and status, for each class

vars == <<pc, device, next, data, empty, cut, session, raised, items>>

-----------------------------------------------------------------------------
(* The drivers. `answers`: what a request may come to. "error" is recorded *)
(* for the endpoint, "raise" ends the inspection.                          *)

Answers == {"ok", "empty", "error", "raise"}
Api(endpoints, login, answers, rows, groups) ==
    [kind |-> "api", endpoints |-> endpoints, login |-> login, answers |-> answers,
     rows |-> rows, groups |-> groups,
     inline |-> Ids({r \in rows : r.from \notin DOMAIN groups}) \cup (Ids(rows) \cap OwnBranch)]
Cli(sections, rows) ==
    [kind |-> "cli", endpoints |-> sections, login |-> "session", answers |-> {"ok", "cut", "raise"},
     rows |-> rows, groups |-> <<>>, inline |-> {}]

Fortigate == Api(<<"global", "dns", "ntp", "snmp_sysinfo", "snmp_community", "admin", "pwd_policy",
    "interface", "syslog", "auto_install", "eventfilter", "faz">>, "none", Answers,
    FortigateBasics \cup FortigateGlobal \cup FortigateAccess \cup FortigateLogs, FortigateGroups)

Paloalto == Api(<<"system", "setting", "users", "pwd_complexity", "snmp", "log_settings",
    "log_shared", "pwd_profiles">>, "none", Answers,
    PaloaltoSystem \cup PaloaltoSetting \cup PaloaltoPasswords \cup PaloaltoRest, PaloaltoGroups)

\* f5 asks for a token, or else uses HTTP Basic, and has no logout.
F5 == Api(<<"version", "global_settings", "sshd", "httpd", "ntp", "syslog", "snmp", "pwd_policy",
    "users", "cli", "auth_source", "remote_user">>, "token", Answers,
    F5Management \cup F5Passwords \cup F5Remote, F5Groups)

Netscaler == Api(<<"systemparameter", "nsip", "ntpserver", "snmpcommunity", "auditsyslogaction",
    "sslparameter", "systemuser">>, "none", Answers, NetscalerRows, <<>>)

Vcenter == Api(<<"ntp", "timesync", "ssh", "shell", "dcui", "syslog", "global_policy", "root",
    "version">>, "session", Answers, VcenterRows, <<>>)

Netapp == Api(<<"cluster", "ntp", "snmp", "snmp_users", "ssh", "audit", "audit_dest", "login_msg",
    "accounts">>, "none", Answers, NetappRows \cup NetappSnmp, <<>>)

\* _show records whatever goes wrong.
Aruba == Api(<<"snmp_community", "ntp_servers", "telnet", "ssh", "banner",
    "password_policy", "mgmt_user">>, "session", {"ok", "error"}, ArubaRows, <<>>)

Cisco == Cli(<<"passwords", "aaa", "web", "logging", "snmp", "ssh", "ntp", "line">>,
    CiscoAccess \cup CiscoServices)

Fortiauth == Cli(<<"router", "interface", "dns", "global", "ha">>, FortiauthRows)

Drivers == [fortigate |-> Fortigate, paloalto |-> Paloalto, f5 |-> F5, netscaler |-> Netscaler,
            vcenter |-> Vcenter, cisco |-> Cisco, netapp |-> Netapp, aruba |-> Aruba,
            fortiauth |-> Fortiauth]
Items == [fortigate |-> FortigateItems, paloalto |-> PaloaltoItems, f5 |-> F5Items,
          netscaler |-> NetscalerItems, vcenter |-> VcenterItems, cisco |-> CiscoItems,
          netapp |-> NetappItems, aruba |-> ArubaItems, fortiauth |-> FortiauthItems]

Driver == Drivers[device]
Last == Len(Driver.endpoints)
-----------------------------------------------------------------------------
(* Reading the device *)

Init ==
    /\ pc = "idle" /\ device \in DOMAIN Drivers /\ next = 1
    /\ data = {} /\ empty = {} /\ cut = "no"
    /\ session = "none" /\ raised = FALSE /\ items = {}

Inspect ==
    /\ pc = "idle"
    /\ pc' = IF Driver.login = "none" THEN "fetch" ELSE "login"
    /\ UNCHANGED <<device, next, data, empty, cut, session, raised, items>>

\* _session, _login, _connect, _open, _auth_headers. A login whose reply is lost or not
\* understood, or that fails after the transport was opened, may leave something open.
Login ==
    /\ pc = "login"
    /\ \/ /\ pc' = "fetch"
          /\ session' \in IF Driver.login = "token" THEN {"none", "token"} ELSE {"open"}
       \/ pc' = "failed" /\ session' \in {"none", "stray"}
    /\ UNCHANGED <<device, next, data, empty, cut, raised, items>>

Unusable == Cardinality(empty) + next - 1 - Cardinality(data)
Failing == Unusable < MaxErrors \/ Unusable = next - 1

\* What follows the last answer: the finally clause, where there is a session.
OnwardWithoutFinally(answer) == IF session = "open" /\ answer # "raise" THEN "logout" ELSE "judge"
Onward(answer) == IF session = "open" THEN "logout" ELSE "judge"

\* Where an output may stop within five lines after a line `end` that is not its last: every
\* section of fortiauth ends with one, of cisco the text of a banner may hold one.
MayEnd(e) == device = "fortiauth" \/ e = "aaa"

\* One endpoint, or one section of the configuration.
Fetch ==
    /\ pc = "fetch"
    /\ \E a \in Driver.answers, e \in {Driver.endpoints[next]} :
          /\ a \in {"empty", "error"} => Failing
          /\ data' = IF a \in {"ok", "empty"} THEN data \cup {e} ELSE data
          /\ empty' = IF a = "empty" THEN empty \cup {e} ELSE empty
          /\ IF a = "cut" THEN cut' \in {"far"} \cup (IF MayEnd(e) THEN {"near"} ELSE {})
             ELSE UNCHANGED cut
          /\ raised' = (a = "raise")
          /\ next' = next + 1
          /\ pc' = IF a \in {"raise", "cut"} \/ next = Last THEN Onward(a) ELSE "fetch"
    /\ UNCHANGED <<device, session, items>>

\* The driver asks for the end of its session; that the request fails changes nothing.
Logout ==
    /\ pc = "logout" /\ pc' = "judge"
    /\ session' \in {"released"} \cup (IF Driver.kind = "api" THEN {"left"} ELSE {})
    /\ UNCHANGED <<device, next, data, empty, cut, raised, items>>

-----------------------------------------------------------------------------
(* Judging the items *)

Classes == {"good", "soft", "bad", "absent", "odd", "empty", "unused", "off", "there", "half",
            "nan", "vague"}
Read == data \ empty

Judge(r, class, read) ==
    IF r.from \in read THEN IF r.also \in read THEN r.both[class] ELSE r.only[class]
    ELSE r.other[class]
Judged(r, read) == r.from \in read \/ (r.also \in read /\ DOMAIN r.other # {})

Missed(read) ==
    (UNION {Driver.groups[e] : e \in DOMAIN Driver.groups \ read})
    \cup {r.id : r \in {r \in Driver.rows : r.id \in Driver.inline /\ ~Judged(r, read)}}

\* _config_complete: a line `end` among the last five of the output.
Complete == cut # "far"

\* What the lines read of an item's section look like.
PartlyRead == IF cut = "near" THEN {Driver.endpoints[next - 1]} ELSE {}
Seen(r, class) ==
    IF r.from \in PartlyRead THEN {"absent", class} \cup (IF class = "bad" THEN {"good"} ELSE {})
    ELSE {class}

Readable == IF Driver.kind = "api" THEN Read ELSE data \cup PartlyRead \cup {"config"}
Known(read) == {r \in Driver.rows : Judged(r, read)}
Findings(r, read) ==
    UNION {[id : {r.id}, class : {c}, status : {Judge(r, s, read) : s \in Seen(r, c)}]
           : c \in Classes \cap DOMAIN r.both}
Unread(read) ==
    [id : Missed(read) \ Ids(Known(read)), class : {"any"}, status : {"manual"}]

Accepted == ~raised /\ data # {} /\ (Driver.kind = "cli" => Complete)
Raise == /\ pc = "judge" /\ ~Accepted
         /\ pc' = "failed"
         /\ UNCHANGED <<device, next, data, empty, cut, session, raised, items>>

Report ==
    /\ pc = "judge" /\ Accepted
    /\ items' = (UNION {Findings(r, Readable) : r \in Known(Readable)}) \cup Unread(Readable)
    /\ pc' = "done"
    /\ UNCHANGED <<device, next, data, empty, cut, session, raised>>

Next == Inspect \/ Login \/ Fetch \/ Logout \/ Raise \/ Report

Spec == Init /\ [][Next]_vars

-----------------------------------------------------------------------------
(* Properties *)

\* Whatever fails on the way, a report names each item of the family's catalogue once: an item
\* left out would count as changed and shrink the totals.
ItemsComplete == pc = "done" =>
    /\ {i.id : i \in items} = Items[device]
    /\ cut = "no" => Cardinality({<<i.id, i.class>> : i \in items}) = Cardinality(items)

\* Items that pass where the answer lacks what they ask for, or holds something the driver
\* does not know.
Lenient ==
    {<<i, "absent">> : i \in {"fgt-wan-mgmt", "fgt-encrypted-mgmt", "ns-nsip-telnet", "ns-nsip-ftp",
        "ns-nsip-gui", "ns-nsip-restrict", "vc-ssh", "vc-shell", "netapp-ssh-ciphers",
        "netapp-ssh-macs", "cisco-web-mgmt", "cisco-snmp-community", "cisco-exec-timeout"}}
    \cup {<<i, "empty">> : i \in {"fgt-trusthost", "fgt-admin-default", "pan-superuser",
        "pan-admin-default", "f5-admin-default", "netapp-admin-default", "netapp-snmp-v1v2c"}}
    \cup {<<i, "half">> : i \in {"pan-ntp-auth", "pan-lockout", "pan-snmp-v2c", "pan-log-forward",
        "f5-ssh-algos", "cisco-ssh-algo", "cisco-user-secret"}}
    \cup {<<i, "odd">> : i \in {"fgt-tls-version", "fgt-snmp-v1v2c", "f5-tls-version",
        "ns-strong-password", "ns-ssl-reneg", "aruba-ssh-dsa", "aruba-snmp-v1v2c",
        "aruba-snmp-default", "fac-allowed-hosts", "fac-admin-maintainer", "fac-dns"}}
    \cup {<<"pan-lockout", "vague">>}

\* An item of a device that was read to the end passes only if one of its endpoints was read,
\* and the device has what is wanted or the driver is lenient on it: an endpoint that fails, or
\* answers with a field missing, makes no other item pass.
NoFalsePass == pc = "done" /\ cut = "no" =>
    \A i \in {i \in items : i.status = "pass"} :
        /\ \E r \in Driver.rows : r.id = i.id /\ {r.from, r.also} \cap Read # {}
        /\ i.class \in {"good", "there", "off"} \/ <<i.id, i.class>> \in Lenient

\* No item passes on a value to_int cannot read (base.py: to_int). pan-lockout does.
UnreadableNeverPasses == pc = "done" =>
    \A i \in items : i.class \in {"nan", "vague"} => i.status # "pass"

\* A configuration that was cut off is not judged (_config_complete). It is, if it was cut
\* near a line `end` that is not its last.
CutRefused == pc = "done" => cut = "no"

\* However an inspection ends, it has asked the device for the end of the session it has the
\* handle of (a controller has 64 of them). Tokens of f5 and sessions lost at the login are
\* not asked for.
LogoutAsked == pc \in {"done", "failed"} => session # "open"
=============================================================================
