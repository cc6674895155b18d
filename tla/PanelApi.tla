------------------------------ MODULE PanelApi ------------------------------
(***************************************************************************)
(* The calls the web front end makes (src/apps/web/src/lib/api): for each  *)
(* method, the collections of the server it reads or changes.  A           *)
(* collection stands for rows of the server; the methods that change it    *)
(* and the methods that read it are found by the URL they use and what the *)
(* service does there, never by the pages that call them.  "domain" and    *)
(* "pipeline" are the columns of one row that its own page shows; "usage"  *)
(* the numbers of an organization's domains, mailboxes and databases.       *)
(***************************************************************************)

domainsApi ==
  [ list |-> {"domains", "domain"}, get |-> {"domain"}, create |-> {"domains", "usage"},
    delete |-> {"domains", "domain", "usage"}, suspend |-> {"domain"},
    unsuspend |-> {"domain"} ]

\* The calls of domains.api.ts and of webserver.api.ts meet on the same URLs.
sslApi ==
  [ list |-> {"certs"}, issue |-> {"certs"}, renew |-> {"certs"},
    delete |-> {"certs"} ]

\* A PHP version is a column of the virtual host.
webserverApi ==
  [ listVhosts |-> {"vhosts"}, getVhost |-> {"vhosts"}, createVhost |-> {"vhosts"},
    updateVhost |-> {"vhosts"}, deleteVhost |-> {"vhosts"}, updatePHP |-> {"vhosts"},
    listSSL |-> {"certs"}, getSSL |-> {"certs"}, issueSSL |-> {"certs"},
    renewSSL |-> {"certs"}, deleteSSL |-> {"certs"}, toggleAutoRenew |-> {"certs"} ]

\* The records of a zone are read with the zone.
dnsApi ==
  [ listZones |-> {"zones"}, createZone |-> {"zones"},
    deleteZone |-> {"zones", "records"}, getZone |-> {"records"},
    listRecords |-> {"records"}, createRecord |-> {"records"},
    updateRecord |-> {"records"}, deleteRecord |-> {"records"} ]

\* The users of a database go with it.
databasesApi ==
  [ list |-> {"databases"}, create |-> {"databases", "usage"},
    delete |-> {"databases", "dbUsers", "usage"},
    listUsers |-> {"dbUsers"}, createUser |-> {"dbUsers"}, deleteUser |-> {"dbUsers"} ]

cronApi ==
  [ list |-> {"cronJobs"}, create |-> {"cronJobs"}, update |-> {"cronJobs"},
    delete |-> {"cronJobs"}, toggle |-> {"cronJobs"} ]

dockerApi ==
  [ listContainers |-> {"containers"}, createContainer |-> {"containers"},
    containerAction |-> {"containers"}, deleteContainer |-> {"containers"},
    listImages |-> {"images"}, pullImage |-> {"images"}, removeImage |-> {"images"},
    listComposeProjects |-> {"compose"}, createComposeProject |-> {"compose"},
    composeAction |-> {"compose"}, deleteComposeProject |-> {"compose"} ]

backupApi ==
  [ listBackups |-> {"backups"}, createBackup |-> {"backups"},
    deleteBackup |-> {"backups"}, restoreBackup |-> {"backups"},
    listSchedules |-> {"schedules"}, createSchedule |-> {"schedules"},
    deleteSchedule |-> {"schedules"}, listDestinations |-> {"destinations"},
    createDestination |-> {"destinations"}, deleteDestination |-> {"destinations"} ]

\* Suspension is a column of the mailbox; its password is shown by no query.
mailApi ==
  [ listMailboxes |-> {"mailboxes"}, createMailbox |-> {"mailboxes", "usage"},
    updateMailbox |-> {"mailboxes"}, suspendMailbox |-> {"mailboxes"},
    unsuspendMailbox |-> {"mailboxes"}, deleteMailbox |-> {"mailboxes", "usage"},
    changePassword |-> {"mailboxPasswords"}, listForwarders |-> {"forwarders"},
    createForwarder |-> {"forwarders"}, deleteForwarder |-> {"forwarders"},
    listDKIM |-> {"dkim"}, getDKIM |-> {"dkim"}, generateDKIM |-> {"dkim"},
    deleteDKIM |-> {"dkim"} ]

autoresponderApi ==
  [ list |-> {"autoresponders"}, create |-> {"autoresponders"},
    update |-> {"autoresponders"}, delete |-> {"autoresponders"} ]

emailFilterApi ==
  [ list |-> {"filters"}, create |-> {"filters"}, update |-> {"filters"},
    delete |-> {"filters"} ]

mailQueueApi ==
  [ list |-> {"mailQueue"}, flush |-> {"mailQueue"}, deleteEntry |-> {"mailQueue"},
    deleteAll |-> {"mailQueue"} ]

ftpApi ==
  [ list |-> {"ftp"}, create |-> {"ftp"}, delete |-> {"ftp"}, toggle |-> {"ftp"},
    updatePassword |-> {"ftpPasswords"} ]

subdomainApi ==
  [ list |-> {"subdomains"}, create |-> {"subdomains"}, delete |-> {"subdomains"} ]

redirectApi ==
  [ list |-> {"redirects"}, create |-> {"redirects"}, delete |-> {"redirects"} ]

sshKeyApi ==
  [ list |-> {"sshKeys"}, add |-> {"sshKeys"}, delete |-> {"sshKeys"} ]

mysqlRemoteApi ==
  [ list |-> {"mysqlRemote"}, add |-> {"mysqlRemote"}, delete |-> {"mysqlRemote"} ]

\* The score is computed by the server from its own checks.
securityApi ==
  [ getScore |-> {"score"}, listFirewallRules |-> {"firewall"},
    createFirewallRule |-> {"firewall"}, deleteFirewallRule |-> {"firewall"},
    listEvents |-> {"securityEvents"}, listBlocklist |-> {"blocklist"},
    blockIP |-> {"blocklist"}, unblockIP |-> {"blocklist"},
    listGeoIPBlocks |-> {"geoip"}, addGeoIPBlock |-> {"geoip"},
    removeGeoIPBlock |-> {"geoip"} ]

modsecApi ==
  [ getStatus |-> {"modsecMode"}, setMode |-> {"modsecMode"},
    listRules |-> {"modsecRules"}, toggleRule |-> {"modsecRules"} ]

\* The incidents of a rule that is deleted stay, without their rule.
monitoringApi ==
  [ getCurrentMetrics |-> {"metrics"}, listServers |-> {"servers"},
    registerServer |-> {"servers"}, deleteServer |-> {"servers"},
    listAlertRules |-> {"alertRules"}, createAlertRule |-> {"alertRules"},
    deleteAlertRule |-> {"alertRules", "incidents"}, listIncidents |-> {"incidents"},
    acknowledgeIncident |-> {"incidents"}, resolveIncident |-> {"incidents"} ]

\* A trigger creates a run and marks its pipeline running before it answers.
\* The runs of a pipeline go with it.
devopsApi ==
  [ listPipelines |-> {"pipelines", "pipeline"}, getPipeline |-> {"pipeline"},
    createPipeline |-> {"pipelines"}, updatePipeline |-> {"pipeline"},
    deletePipeline |-> {"pipelines", "pipeline", "runs"}, triggerRun |-> {"pipeline", "runs"},
    listRuns |-> {"runs"}, listDeployments |-> {"deployments"} ]

\* An app counts its installations, and goes on counting the removed ones.
marketplaceApi ==
  [ listApps |-> {"apps"}, installApp |-> {"installations", "apps"},
    listInstallations |-> {"installations"}, uninstallApp |-> {"installations"} ]

\* The limits among the usage are those of the plan subscribed to.
billingApi ==
  [ listPlans |-> {"plans"}, getSubscription |-> {"subscription"},
    createSubscription |-> {"subscription", "limits"}, cancelSubscription |-> {"subscription"},
    listInvoices |-> {"invoices"}, getUsage |-> {"limits", "usage"} ]

notificationsApi ==
  [ list |-> {"notifications"}, markRead |-> {"notifications"},
    markAllRead |-> {"notifications"}, delete |-> {"notifications"},
    deleteAll |-> {"notifications"}, getUnreadCount |-> {"notifications"} ]

passkeyApi ==
  [ list |-> {"passkeys"}, delete |-> {"passkeys"},
    finishRegistration |-> {"passkeys"} ]
=============================================================================
