---------------------------- MODULE HostingPages ----------------------------
(***************************************************************************)
(* The pages of domains, DNS, web server, PHP, certificates, databases,    *)
(* cron jobs, FTP accounts, SSH keys, subdomains and redirects, as         *)
(* components in the form of PanelComponents.                              *)
(***************************************************************************)
EXTENDS PanelComponents

-----------------------------------------------------------------------------
(* Domains: domains/page.tsx and domains/[id]/page.tsx.                    *)

DomainsPage ==
  Route("domains" :> domainsApi.list,
        "delete" :> Row(domainsApi.delete, {"domains"}))

AddDomainModal ==
  Dialog("DomainsPage", "create" :> Submit(domainsApi.create, {"domains"}))

\* Deleting the domain goes back to the list, wherever the user is by then.
DomainDetailPage ==
  Route("domain" :> domainsApi.get,
        "delete" :> Leaving(Row(domainsApi.delete, {"domains"}), "DomainsPage")
          @@ "suspend" :> Row(domainsApi.suspend, {"domain"}))

DNSTab == Tab("DomainDetailPage", "dns-zones" :> dnsApi.listZones, NoActs)

SSLTab ==
  Tab("DomainDetailPage", "ssl-certs" :> sslApi.list,
      "renew" :> Row(sslApi.renew, {"ssl-certs"}))

-----------------------------------------------------------------------------
(* DNS: dns/page.tsx, dns/[zoneId]/page.tsx and components/dns.            *)

DNSPage ==
  Route("dns-zones" :> dnsApi.listZones,
        "delete" :> Guarded(Row(dnsApi.deleteZone, {"dns-zones"})))

\* The button is disabled while a zone is being created; the Enter key is not.
NewZoneForm ==
  Form("DNSPage", "create" :> Unguarded(Submit(dnsApi.createZone, {"dns-zones"})))

DNSZonePage == Route("dns-zone" :> dnsApi.getZone, NoActs)

\* Mounted once the zone has arrived.
DNSRecordTable ==
  Tab("DNSZonePage", NoReads, "delete" :> Row(dnsApi.deleteRecord, {"dns-zone"}))

DNSRecordForm ==
  Dialog("DNSRecordTable",
         "create" :> Submit(dnsApi.createRecord, {"dns-zone"})
           @@ "update" :> Submit(dnsApi.updateRecord, {"dns-zone"}))

-----------------------------------------------------------------------------
(* Web server, PHP and certificates: webserver, php and ssl/page.tsx.      *)

WebServerPage ==
  Refetching(Route("vhosts" :> webserverApi.listVhosts,
                   "delete" :> Row(webserverApi.deleteVhost, {"vhosts"})), {"vhosts"})

AddVhostModal ==
  Dialog("WebServerPage", "create" :> Submit(webserverApi.createVhost, {"vhosts"}))

EditVhostModal ==
  Dialog("WebServerPage", "update" :> Submit(webserverApi.updateVhost, {"vhosts"}))

PHPPage ==
  Refetching(Route("vhosts" :> webserverApi.listVhosts,
                   "updatePHP" :> Row(webserverApi.updatePHP, {"vhosts"})), {"vhosts"})

SSLPage ==
  Polling(Refetching(Route("ssl-certs" :> webserverApi.listSSL,
                           "delete" :> Row(webserverApi.deleteSSL, {"ssl-certs"})),
                     {"ssl-certs"}), {"ssl-certs"})

IssueCertModal ==
  Dialog("SSLPage", "issue" :> Submit(webserverApi.issueSSL, {"ssl-certs"}))

-----------------------------------------------------------------------------
(* Databases: databases/page.tsx and databases/remote/page.tsx.            *)

DatabasesPage == Route(NoReads, NoActs)

DatabasesTab ==
  Refetching(Tab("DatabasesPage", "databases" :> databasesApi.list,
                 "delete" :> Row(databasesApi.delete, {"databases"})), {"databases"})

UsersTab ==
  Refetching(Tab("DatabasesPage", "db-users" :> databasesApi.listUsers,
                 "delete" :> Row(databasesApi.deleteUser, {"db-users"})), {"db-users"})

CreateDBModal ==
  Dialog("DatabasesTab", "create" :> Submit(databasesApi.create, {"databases"}))

AddDBUserModal ==
  Dialog("UsersTab", "create" :> Submit(databasesApi.createUser, {"db-users"}))

MySQLRemotePage ==
  Route("mysql-remote" :> mysqlRemoteApi.list,
        "delete" :> Row(mysqlRemoteApi.delete, {"mysql-remote"}))

AddRemoteForm ==
  Form("MySQLRemotePage", "add" :> Submit(mysqlRemoteApi.add, {"mysql-remote"}))

-----------------------------------------------------------------------------
(* Cron jobs, FTP accounts, SSH keys, subdomains and redirects.  Their     *)
(* forms are part of the page: a submission in flight keeps the button     *)
(* disabled when the form is cancelled and opened again.                   *)

CronPage ==
  Route("cron-jobs" :> cronApi.list,
        "delete" :> Row(cronApi.delete, {"cron-jobs"})
          @@ "toggle" :> Row(cronApi.toggle, {"cron-jobs"}))

AddCronForm == Form("CronPage", "create" :> Submit(cronApi.create, {"cron-jobs"}))

FTPPage ==
  Route("ftp-accounts" :> ftpApi.list,
        "delete" :> Row(ftpApi.delete, {"ftp-accounts"})
          @@ "toggle" :> Row(ftpApi.toggle, {"ftp-accounts"}))

AddFTPForm == Form("FTPPage", "create" :> Submit(ftpApi.create, {"ftp-accounts"}))

\* One password editor for all rows: an answer closes whichever row is open.
FTPPasswordForm ==
  Form("FTPPage", "changePw" :> Unguarded(Submit(ftpApi.updatePassword, {})))

SSHKeysPage ==
  Route("ssh-keys" :> sshKeyApi.list, "delete" :> Row(sshKeyApi.delete, {"ssh-keys"}))

AddKeyForm == Form("SSHKeysPage", "add" :> Submit(sshKeyApi.add, {"ssh-keys"}))

SubdomainsPage ==
  Route("subdomains" :> subdomainApi.list,
        "delete" :> Row(subdomainApi.delete, {"subdomains"}))

AddSubdomainForm ==
  Form("SubdomainsPage", "create" :> Submit(subdomainApi.create, {"subdomains"}))

RedirectsPage ==
  Route("redirects" :> redirectApi.list,
        "delete" :> Row(redirectApi.delete, {"redirects"}))

AddRedirectForm ==
  Form("RedirectsPage", "create" :> Submit(redirectApi.create, {"redirects"}))

-----------------------------------------------------------------------------
HostingComponents ==
  [ DomainsPage |-> DomainsPage, AddDomainModal |-> AddDomainModal,
    DomainDetailPage |-> DomainDetailPage, DNSTab |-> DNSTab, SSLTab |-> SSLTab,
    DNSPage |-> DNSPage, NewZoneForm |-> NewZoneForm, DNSZonePage |-> DNSZonePage,
    DNSRecordTable |-> DNSRecordTable, DNSRecordForm |-> DNSRecordForm,
    WebServerPage |-> WebServerPage, AddVhostModal |-> AddVhostModal,
    EditVhostModal |-> EditVhostModal, PHPPage |-> PHPPage, SSLPage |-> SSLPage,
    IssueCertModal |-> IssueCertModal, DatabasesPage |-> DatabasesPage,
    DatabasesTab |-> DatabasesTab, UsersTab |-> UsersTab,
    CreateDBModal |-> CreateDBModal, AddDBUserModal |-> AddDBUserModal,
    MySQLRemotePage |-> MySQLRemotePage, AddRemoteForm |-> AddRemoteForm,
    CronPage |-> CronPage, AddCronForm |-> AddCronForm, FTPPage |-> FTPPage,
    AddFTPForm |-> AddFTPForm, FTPPasswordForm |-> FTPPasswordForm,
    SSHKeysPage |-> SSHKeysPage, AddKeyForm |-> AddKeyForm,
    SubdomainsPage |-> SubdomainsPage, AddSubdomainForm |-> AddSubdomainForm,
    RedirectsPage |-> RedirectsPage, AddRedirectForm |-> AddRedirectForm ]
=============================================================================
