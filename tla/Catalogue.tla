------------------------------ MODULE Catalogue ------------------------------
(***************************************************************************)
(* The check items of the device families (app/check_items.py): the ids    *)
(* that items_for(family) returns. Categories, titles and references are   *)
(* left out.                                                               *)
(***************************************************************************)

FortigateItems ==
    {"fgt-dns", "fgt-wan-mgmt", "fgt-prelogin-banner", "fgt-postlogin-banner", "fgt-timezone",
     "fgt-ntp", "fgt-hostname", "fgt-tls-version", "fgt-pwd-policy", "fgt-lockout",
     "fgt-admin-default", "fgt-trusthost", "fgt-idle-timeout", "fgt-encrypted-mgmt",
     "fgt-admin-telnet", "fgt-admin-ports", "fgt-strong-crypto", "fgt-ssl-static-keys",
     "fgt-gui-hostname", "fgt-cpu-log", "fgt-snmp-v1v2c", "fgt-syslog", "fgt-event-logging",
     "fgt-faz-encryption", "fgt-usb-autoinstall"}

PaloaltoItems ==
    {"pan-hostname", "pan-timezone", "pan-login-banner", "pan-permitted-ip", "pan-disable-telnet",
     "pan-disable-http", "pan-ntp", "pan-ntp-auth", "pan-update-verify", "pan-idle-timeout",
     "pan-log-high-dp", "pan-lockout", "pan-pwd-complexity", "pan-pwd-minlen",
     "pan-pwd-uppercase", "pan-pwd-lowercase", "pan-pwd-numeric", "pan-pwd-special",
     "pan-pwd-expiry", "pan-pwd-differs", "pan-pwd-history", "pan-pwd-profiles", "pan-superuser",
     "pan-admin-default", "pan-snmp-v2c", "pan-log-forward"}

F5Items ==
    {"f5-gui-banner", "f5-console-timeout", "f5-sshd-banner", "f5-sshd-timeout", "f5-ssh-algos",
     "f5-tmsh-timeout", "f5-sshd-allow", "f5-httpd-allow", "f5-gui-timeout", "f5-tls-version",
     "f5-hostname", "f5-ntp", "f5-timezone", "f5-pwd-policy", "f5-pwd-minlen", "f5-pwd-maxage",
     "f5-pwd-memory", "f5-pwd-warning", "f5-pwd-complexity", "f5-login-failures",
     "f5-admin-default", "f5-remote-role", "f5-remote-partition", "f5-remote-console",
     "f5-snmp-v1v2c", "f5-syslog-remote"}

NetscalerItems ==
    {"ns-nsip-telnet", "ns-nsip-ftp", "ns-nsip-gui", "ns-nsip-restrict", "ns-timeout",
     "ns-strong-password", "ns-min-password", "ns-ssl-reneg", "ns-ntp", "ns-snmp-community",
     "ns-syslog", "ns-default-nsroot"}

VcenterItems ==
    {"vc-ntp", "vc-timesync", "vc-ssh", "vc-shell", "vc-dcui", "vc-syslog", "vc-pwd-maxage",
     "vc-root-expiry"}

CiscoItems ==
    {"cisco-web-mgmt", "cisco-vty-ssh", "cisco-vty-acl", "cisco-ssh-algo", "cisco-ssh-ver",
     "cisco-pwd-encryption", "cisco-enable-secret", "cisco-user-secret", "cisco-snmp-community",
     "cisco-ntp", "cisco-ntp-auth", "cisco-logging", "cisco-timestamps", "cisco-login-log",
     "cisco-aaa", "cisco-aaa-auth-login", "cisco-banner", "cisco-exec-timeout"}

NetappItems ==
    {"netapp-ntp", "netapp-timezone", "netapp-ssh-ciphers", "netapp-ssh-macs",
     "netapp-snmp-v1v2c", "netapp-audit", "netapp-audit-dest", "netapp-banner",
     "netapp-admin-default"}

ArubaItems ==
    {"aruba-telnet", "aruba-ssh-dsa", "aruba-ssh-ciphers", "aruba-snmp-v1v2c",
     "aruba-snmp-default", "aruba-ntp", "aruba-banner", "aruba-pwd-policy", "aruba-pwd-minlen",
     "aruba-admin-default"}

FortiauthItems ==
    {"fac-mgmt-access", "fac-allowed-hosts", "fac-admin-maintainer", "fac-dns", "fac-timezone"}
=============================================================================
