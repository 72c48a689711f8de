---------------------------- MODULE DeviceTables ----------------------------
(***************************************************************************)
(* What the device drivers (app/drivers/) say of each check item.          *)
(*                                                                         *)
(* A device is described by one class per item, what its answer shows:     *)
(*   good, soft, bad   the wanted value, a borderline one, a wrong one;    *)
(*   absent, empty     no such field or line; a list without entries;      *)
(*   half              part of what is asked for, the rest not there;      *)
(*   odd, nan, vague   a value the driver does not know; where a number is *)
(*                     due, one to_int cannot read, in the first or in the *)
(*                     second field the item looks at;                     *)
(*   unused, off       the function the item is about is not in use;       *)
(*   there             the wanted value, in the second place to look.      *)
(* A verdict maps the classes an item can have to the status it gets.      *)
(*                                                                         *)
(* A row gives an item's endpoint (`from`), the second one it looks at     *)
(* (`also`), and its verdicts when both were read, when only the first     *)
(* was, and when only the second was (no verdict: the item is missed).     *)
(***************************************************************************)
EXTENDS Catalogue, Sequences

\* The verdicts of v, and those of w for the classes v does not name.
v ++ w == [c \in DOMAIN v \cup DOMAIN w |-> IF c \in DOMAIN v THEN v[c] ELSE w[c]]

Present  == [good |-> "pass", absent |-> "fail"]
Wanted   == Present ++ [bad |-> "fail"]
Flag     == [good |-> "pass", bad |-> "fail", absent |-> "manual"]
Number   == Flag ++ [nan |-> "manual"]
Unlisted == [good |-> "pass", bad |-> "fail", absent |-> "pass"]
Listed   == [good |-> "pass", empty |-> "fail"]
Account  == [good |-> "pass", bad |-> "manual", empty |-> "pass"]
Soft     == [soft |-> "warn"]
Half     == [half |-> "pass"]
Odd      == [odd |-> "pass"]
Unused   == [unused |-> "na"]

NoVerdict == [c \in {} |-> "manual"]
Always(s, v) == [c \in DOMAIN v |-> s]

Pairs(first, second, both, only, other, ids) ==
    {[id |-> i, from |-> first, also |-> second, both |-> both, only |-> only, other |-> other]
     : i \in ids}
Rows(endpoint, verdict, ids) == Pairs(endpoint, endpoint, verdict, verdict, NoVerdict, ids)
\* A line of a CLI configuration: where it was not read, it looks absent.
Lines(section, verdict, ids) ==
    Pairs(section, "config", verdict, verdict, Always(verdict.absent, verdict), ids)

Ids(rows) == {r.id : r \in rows}

-----------------------------------------------------------------------------
(* fortigate.py *)

FortigateBasics ==
    Rows("dns", Wanted, {"fgt-dns"}) \cup Rows("interface", Unlisted, {"fgt-wan-mgmt"})

FortigateGlobal ==
    LET Global(verdict, ids) == Rows("global", verdict, ids)
    IN  Global(Wanted, {"fgt-prelogin-banner", "fgt-postlogin-banner", "fgt-strong-crypto",
                        "fgt-admin-ports"})
        \cup Global(Present, {"fgt-timezone"})
        \cup Global([good |-> "pass", bad |-> "warn", absent |-> "warn"], {"fgt-hostname"})
        \cup Global(Flag ++ Soft ++ Odd, {"fgt-tls-version"})
        \cup Global(Number ++ Soft, {"fgt-idle-timeout"})
        \cup Global(Number, {"fgt-lockout"})
        \cup Global(Flag, {"fgt-admin-telnet", "fgt-ssl-static-keys", "fgt-gui-hostname",
                           "fgt-cpu-log"})

FortigateAccess ==
    Rows("interface", Unlisted, {"fgt-encrypted-mgmt"})
    \cup Rows("admin", [good |-> "pass", bad |-> "fail", empty |-> "pass"], {"fgt-trusthost"})
    \cup Rows("admin", Account, {"fgt-admin-default"})
    \cup Rows("pwd_policy", Number, {"fgt-pwd-policy"})
    \cup Rows("ntp", Wanted, {"fgt-ntp"})

\* `soft` of fgt-syslog: no syslog, but FortiAnalyzer is on.
FortigateLogs ==
    LET off == [off |-> "pass"] ++ Odd
        snmp == Flag ++ off
        syslog == Wanted ++ Soft
    IN  Pairs("snmp_sysinfo", "snmp_community", snmp, off ++ Always("manual", snmp), NoVerdict,
              {"fgt-snmp-v1v2c"})
        \cup Pairs("syslog", "faz", syslog, [soft |-> "fail"] ++ syslog, NoVerdict, {"fgt-syslog"})
        \cup Rows("eventfilter", Flag, {"fgt-event-logging"})
        \cup Rows("faz", [good |-> "pass", bad |-> "fail", absent |-> "na"] ++ Unused,
                  {"fgt-faz-encryption"})
        \cup Rows("auto_install", Wanted, {"fgt-usb-autoinstall"})

FortigateGroupsFirstOnly == [global |-> {"fgt-prelogin-banner"}]
FortigateGroups ==
    [global |-> {"fgt-prelogin-banner", "fgt-postlogin-banner", "fgt-hostname", "fgt-timezone",
                 "fgt-tls-version", "fgt-idle-timeout", "fgt-lockout", "fgt-strong-crypto",
                 "fgt-admin-telnet", "fgt-admin-ports", "fgt-ssl-static-keys", "fgt-gui-hostname",
                 "fgt-cpu-log"}]

-----------------------------------------------------------------------------
(* paloalto.py *)

\* `half` of pan-ntp-auth: a server without authentication-type.
PaloaltoSystem ==
    LET System(verdict, ids) == Rows("system", verdict, ids)
    IN  System(Present, {"pan-hostname", "pan-timezone", "pan-login-banner"})
        \cup System(Wanted, {"pan-permitted-ip", "pan-disable-telnet", "pan-disable-http",
                             "pan-update-verify"})
        \cup System(Present ++ Soft, {"pan-ntp"})
        \cup System([good |-> "pass", bad |-> "warn"] ++ Half ++ Unused, {"pan-ntp-auth"})

\* The second field of pan-lockout, lockout-time, is looked at if it is a number.
PaloaltoSetting ==
    LET limit == Wanted ++ [nan |-> "manual"]
        lockout == limit ++ Soft ++ Half ++ [vague |-> "pass"]
    IN  Rows("setting", limit, {"pan-idle-timeout"})
        \cup Rows("setting", lockout, {"pan-lockout"})
        \cup Rows("setting", Wanted, {"pan-log-high-dp"})

\* `unused`: the complexity rules are off altogether.
PaloaltoPasswords ==
    LET Complexity(verdict, ids) == Rows("pwd_complexity", verdict, ids)
    IN  Complexity(Wanted, {"pan-pwd-complexity"})
        \cup Complexity(Wanted ++ [nan |-> "manual"], {"pan-pwd-minlen"})
        \cup Complexity(Wanted ++ [nan |-> "fail"] ++ Unused,
                {"pan-pwd-uppercase", "pan-pwd-lowercase", "pan-pwd-numeric", "pan-pwd-special",
                 "pan-pwd-differs", "pan-pwd-history", "pan-pwd-expiry"})
        \cup Rows("pwd_profiles", [good |-> "pass", bad |-> "warn"], {"pan-pwd-profiles"})

\* Log forwarding is looked for in two places; either alone gives a verdict. `half`: a
\* syslog element without an entry; an access-setting of neither version.
PaloaltoRest ==
    LET logs == [good |-> "pass", there |-> "pass", bad |-> "fail"] ++ Half
    IN  Rows("users", [good |-> "pass", bad |-> "warn", empty |-> "pass"], {"pan-superuser"})
        \cup Rows("users", Account, {"pan-admin-default"})
        \cup Rows("snmp", Flag ++ Half, {"pan-snmp-v2c"})
        \cup Pairs("log_settings", "log_shared", logs, [there |-> "fail"] ++ logs,
                   [good |-> "fail", half |-> "fail"] ++ logs, {"pan-log-forward"})

PaloaltoGroups ==
    [system |-> {"pan-hostname", "pan-timezone", "pan-login-banner", "pan-permitted-ip",
                 "pan-disable-telnet", "pan-disable-http", "pan-ntp", "pan-ntp-auth",
                 "pan-update-verify"},
     setting |-> {"pan-idle-timeout", "pan-lockout", "pan-log-high-dp"},
     pwd_complexity |-> {"pan-pwd-complexity", "pan-pwd-minlen", "pan-pwd-uppercase",
                         "pan-pwd-lowercase", "pan-pwd-numeric", "pan-pwd-special",
                         "pan-pwd-expiry", "pan-pwd-differs", "pan-pwd-history"},
     users |-> {"pan-superuser", "pan-admin-default"}, snmp |-> {"pan-snmp-v2c"},
     log_settings |-> {"pan-log-forward"}, pwd_profiles |-> {"pan-pwd-profiles"}]

-----------------------------------------------------------------------------
(* f5.py *)

\* `half` of f5-ssh-algos: an include without Ciphers.
F5Management ==
    LET banner == Wanted ++ Soft
        algos == [good |-> "pass", bad |-> "fail", absent |-> "warn"] ++ Half
    IN  Rows("global_settings", banner, {"f5-gui-banner"})
        \cup Rows("global_settings", Number, {"f5-console-timeout"})
        \cup Rows("sshd", banner, {"f5-sshd-banner"})
        \cup Rows("sshd", Number, {"f5-sshd-timeout"})
        \cup Rows("sshd", Wanted, {"f5-sshd-allow"})
        \cup Rows("sshd", algos, {"f5-ssh-algos"})
        \cup Rows("httpd", Wanted, {"f5-httpd-allow"})
        \cup Rows("httpd", Number, {"f5-gui-timeout"})
        \cup Rows("httpd", Flag ++ Odd, {"f5-tls-version"})
        \cup Rows("cli", Number, {"f5-tmsh-timeout"})

F5Passwords ==
    Rows("global_settings", Present, {"f5-hostname"})
    \cup Rows("ntp", Listed ++ Soft, {"f5-ntp"}) \cup Rows("ntp", Present, {"f5-timezone"})
    \cup Rows("pwd_policy", Wanted, {"f5-pwd-policy"})
    \cup Rows("pwd_policy", Number, {"f5-pwd-minlen", "f5-pwd-complexity", "f5-login-failures",
                                     "f5-pwd-maxage", "f5-pwd-memory", "f5-pwd-warning"})
    \cup Rows("users", Account, {"f5-admin-default"})

\* `unused`: users are authenticated locally, which auth_source tells.
F5Remote ==
    LET remote == Flag ++ Unused
    IN  Pairs("remote_user", "auth_source", remote, Always("manual", remote), NoVerdict,
              {"f5-remote-role", "f5-remote-partition", "f5-remote-console"})
        \cup Rows("snmp", Flag ++ Soft, {"f5-snmp-v1v2c"})
        \cup Rows("syslog", [good |-> "pass", empty |-> "warn"], {"f5-syslog-remote"})

\* Items that say themselves what they are when their endpoint failed.
OwnBranch == {"f5-hostname"}

F5Groups ==
    [global_settings |-> {"f5-gui-banner", "f5-console-timeout"},
     sshd |-> {"f5-sshd-banner", "f5-sshd-timeout", "f5-sshd-allow", "f5-ssh-algos"},
     httpd |-> {"f5-httpd-allow", "f5-gui-timeout", "f5-tls-version"},
     ntp |-> {"f5-ntp", "f5-timezone"},
     pwd_policy |-> {"f5-pwd-policy", "f5-pwd-minlen", "f5-pwd-complexity", "f5-login-failures",
                     "f5-pwd-maxage", "f5-pwd-memory", "f5-pwd-warning"},
     users |-> {"f5-admin-default"}, syslog |-> {"f5-syslog-remote"},
     cli |-> {"f5-tmsh-timeout"},
     remote_user |-> {"f5-remote-role", "f5-remote-partition", "f5-remote-console"}]

-----------------------------------------------------------------------------
(* netscaler.py, vcenter.py, netapp.py, aruba.py: items are missed one by one *)

NetscalerRows ==
    Rows("nsip", Unlisted ++ [empty |-> "manual"],
         {"ns-nsip-telnet", "ns-nsip-ftp", "ns-nsip-gui", "ns-nsip-restrict"})
    \cup Rows("systemparameter", Number, {"ns-timeout", "ns-min-password"})
    \cup Rows("systemparameter", Flag ++ Odd, {"ns-strong-password"})
    \cup Rows("sslparameter", [good |-> "pass", bad |-> "warn", absent |-> "warn"] ++ Odd,
              {"ns-ssl-reneg"})
    \cup Rows("ntpserver", Listed, {"ns-ntp"})
    \cup Rows("snmpcommunity", [good |-> "pass", bad |-> "fail"], {"ns-snmp-community"})
    \cup Rows("auditsyslogaction", [good |-> "pass", empty |-> "warn"], {"ns-syslog"})
    \cup Rows("systemuser", [good |-> "pass", bad |-> "manual", empty |-> "manual"],
              {"ns-default-nsroot"})

VcenterRows ==
    LET list == Listed ++ [odd |-> "fail"]
    IN  Rows("ntp", list, {"vc-ntp"}) \cup Rows("timesync", Wanted, {"vc-timesync"})
        \cup Rows("ssh", Unlisted, {"vc-ssh"}) \cup Rows("shell", Unlisted, {"vc-shell"})
        \cup Rows("dcui", [good |-> "manual", bad |-> "manual"], {"vc-dcui"})
        \cup Rows("syslog", list, {"vc-syslog"})
        \cup Rows("global_policy", Number, {"vc-pwd-maxage"})
        \cup Rows("root", Number, {"vc-root-expiry"})

\* Whether SNMP is on, then who its users are. `odd`: users without the field that tells.
NetappUsers == [odd |-> "manual", empty |-> "pass", off |-> "pass"]
NetappSnmpFieldOptional ==
    LET snmp == [absent |-> "pass"] ++ Flag ++ NetappUsers
    IN  Pairs("snmp", "snmp_users", snmp, [off |-> "pass", absent |-> "pass"] ++ Always("manual", snmp),
              NoVerdict, {"netapp-snmp-v1v2c"})
NetappSnmp ==
    LET snmp == Flag ++ NetappUsers
    IN  Pairs("snmp", "snmp_users", snmp, [off |-> "pass"] ++ Always("manual", snmp),
              NoVerdict, {"netapp-snmp-v1v2c"})

NetappRows ==
    Rows("ntp", Listed, {"netapp-ntp"}) \cup Rows("cluster", Present, {"netapp-timezone"})
    \cup Rows("ssh", Unlisted, {"netapp-ssh-ciphers", "netapp-ssh-macs"})
    \cup Rows("audit", Wanted, {"netapp-audit"})
    \cup Rows("audit_dest", [good |-> "pass", empty |-> "warn"], {"netapp-audit-dest"})
    \cup Rows("login_msg", Listed, {"netapp-banner"})
    \cup Rows("accounts", Account, {"netapp-admin-default"})

\* `absent`: the command succeeds with no output that can be read.
ArubaRows ==
    LET text == Listed ++ [absent |-> "manual"]
    IN  Rows("telnet", Flag, {"aruba-telnet"})
        \cup Rows("ssh", Flag ++ Odd, {"aruba-ssh-dsa"})
        \cup Rows("ssh", Flag ++ [odd |-> "manual"], {"aruba-ssh-ciphers"})
        \cup Rows("snmp_community", Flag ++ Odd, {"aruba-snmp-v1v2c", "aruba-snmp-default"})
        \cup Rows("ntp_servers", text, {"aruba-ntp"})
        \cup Rows("banner", text, {"aruba-banner"})
        \cup Rows("password_policy", Flag, {"aruba-pwd-policy"})
        \cup Rows("password_policy", Number, {"aruba-pwd-minlen"})
        \cup Rows("mgmt_user", [good |-> "pass", bad |-> "manual", empty |-> "manual"],
                  {"aruba-admin-default"})

-----------------------------------------------------------------------------
(* cisco.py, fortiauth.py: parse_config *)

\* `half`: a MAC or an encryption line only; a username with neither password nor secret.
CiscoAccess ==
    Lines("web", Unlisted, {"cisco-web-mgmt"})
    \cup Lines("line", Flag ++ Soft, {"cisco-vty-ssh"}) \cup Lines("line", Flag, {"cisco-vty-acl"})
    \cup Lines("ssh", Flag ++ Half, {"cisco-ssh-algo"})
    \cup Lines("ssh", [good |-> "pass", absent |-> "warn"], {"cisco-ssh-ver"})
    \cup Lines("passwords", Present, {"cisco-pwd-encryption"})
    \cup Lines("passwords", [good |-> "pass", bad |-> "fail", absent |-> "warn"],
               {"cisco-enable-secret"})
    \cup Lines("passwords", [good |-> "pass", bad |-> "fail", absent |-> "na"] ++ Half,
               {"cisco-user-secret"})

CiscoServices ==
    Lines("snmp", Unlisted, {"cisco-snmp-community"})
    \cup Lines("ntp", Present ++ Soft, {"cisco-ntp"})
    \cup Lines("ntp", [good |-> "pass", bad |-> "fail", absent |-> "na"], {"cisco-ntp-auth"})
    \cup Lines("logging", Present, {"cisco-logging"})
    \cup Lines("logging", Wanted, {"cisco-login-log"})
    \cup Lines("logging", Present ++ Soft, {"cisco-timestamps"})
    \cup Lines("aaa", Present, {"cisco-aaa", "cisco-aaa-auth-login", "cisco-banner"})
    \cup Lines("line", Unlisted, {"cisco-exec-timeout"})

FortiauthRows ==
    Lines("interface", Flag, {"fac-mgmt-access"})
    \cup Lines("global", Present ++ Odd, {"fac-allowed-hosts"})
    \cup Lines("global", Present, {"fac-timezone"})
    \cup Lines("global", Flag ++ Odd, {"fac-admin-maintainer"})
    \cup Lines("dns", Present ++ Odd, {"fac-dns"})
=============================================================================
