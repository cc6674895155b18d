--------------------------- MODULE OperationsPages ---------------------------
(***************************************************************************)
(* The pages of Docker, backups, pipelines, monitoring, the marketplace    *)
(* and security, as components in the form of PanelComponents.             *)
(***************************************************************************)
EXTENDS PanelComponents

-----------------------------------------------------------------------------
(* docker/page.tsx and docker/compose/page.tsx: the compose projects are   *)
(* cached under two keys, one for each page.                               *)

\* An image is removed by a plain call, with no mutation around it.
DockerPage ==
  Polling(
    Route("docker-containers" :> dockerApi.listContainers
            @@ "docker-images" :> dockerApi.listImages
            @@ "docker-compose" :> dockerApi.listComposeProjects,
          "action" :> Row(dockerApi.containerAction, {"docker-containers"})
            @@ "delete" :> Row(dockerApi.deleteContainer, {"docker-containers"})
            @@ "composeAction" :> Row(dockerApi.composeAction, {"docker-compose"})
            @@ "deleteCompose" :> Row(dockerApi.deleteComposeProject, {"docker-compose"})
            @@ "removeImage" :> Row(dockerApi.removeImage, {})),
    {"docker-containers"})

CreateContainerModal ==
  Dialog("DockerPage", "create" :> Submit(dockerApi.createContainer, {"docker-containers"}))

CreateComposeModal ==
  Dialog("DockerPage", "create" :> Submit(dockerApi.createComposeProject, {"docker-compose"}))

\* One slot says which project is busy: an action on a second project, or its
\* end, enables the buttons of the first again.
ComposePage ==
  Polling(
    Route("compose-projects" :> dockerApi.listComposeProjects,
          "action" :> Row(dockerApi.composeAction, {"compose-projects"})
            @@ "delete" :> Row(dockerApi.deleteComposeProject, {"compose-projects"})),
    {"compose-projects"})

NewProjectModal ==
  Dialog("ComposePage",
         "create" :> Submit(dockerApi.createComposeProject, {"compose-projects"}))

-----------------------------------------------------------------------------
(* backups/page.tsx.                                                       *)

BackupsPage ==
  Polling(Route("backups" :> backupApi.listBackups
                  @@ "backup-schedules" :> backupApi.listSchedules,
                "delete" :> Row(backupApi.deleteBackup, {"backups"})
                  @@ "deleteSchedule" :> Row(backupApi.deleteSchedule, {"backup-schedules"})),
          {"backups"})

RunBackupModal ==
  Dialog("BackupsPage", "create" :> Submit(backupApi.createBackup, {"backups"}))

CreateScheduleModal ==
  Dialog("BackupsPage", "create" :> Submit(backupApi.createSchedule, {"backup-schedules"}))

-----------------------------------------------------------------------------
(* devops/page.tsx and devops/pipelines/[id]/page.tsx.  The trigger is     *)
(* also disabled while the pipeline shown is running.                      *)

DevOpsPage ==
  Route("pipelines" :> devopsApi.listPipelines @@ "deployments" :> devopsApi.listDeployments,
        "trigger" :> Row(devopsApi.triggerRun, {"pipelines"})
          @@ "delete" :> Row(devopsApi.deletePipeline, {"pipelines"}))

CreatePipelineModal ==
  Dialog("DevOpsPage", "create" :> Submit(devopsApi.createPipeline, {"pipelines"}))

PipelineDetailPage ==
  Polling(Route("pipeline" :> devopsApi.getPipeline @@ "pipeline-runs" :> devopsApi.listRuns,
                "trigger" :> Guarded(Row(devopsApi.triggerRun, {"pipeline-runs", "pipeline"}))),
          {"pipeline-runs"})

-----------------------------------------------------------------------------
(* monitoring/page.tsx, monitoring/servers and monitoring/alerts/page.tsx. *)

\* The metrics of the socket are left out.
MonitoringPage ==
  Polling(Route("monitored-servers" :> monitoringApi.listServers
                  @@ "metrics-current" :> monitoringApi.getCurrentMetrics
                  @@ "incidents" :> monitoringApi.listIncidents, NoActs),
          {"metrics-current"})

ServersPage ==
  Polling(Route("monitored-servers" :> monitoringApi.listServers,
                "delete" :> Row(monitoringApi.deleteServer, {"monitored-servers"})),
          {"monitored-servers"})

AddServerForm ==
  Form("ServersPage", "register" :> Submit(monitoringApi.registerServer, {"monitored-servers"}))

AlertsPage ==
  Route("alert-rules" :> monitoringApi.listAlertRules
          @@ "incidents" :> monitoringApi.listIncidents,
        "delete" :> Row(monitoringApi.deleteAlertRule, {"alert-rules"}))

AddAlertRuleModal ==
  Dialog("AlertsPage", "create" :> Submit(monitoringApi.createAlertRule, {"alert-rules"}))

-----------------------------------------------------------------------------
(* marketplace/page.tsx.                                                   *)

MarketplacePage ==
  Route("marketplace-apps" :> marketplaceApi.listApps
          @@ "marketplace-installations" :> marketplaceApi.listInstallations,
        "uninstall" :> Row(marketplaceApi.uninstallApp, {"marketplace-installations"}))

InstallModal ==
  Dialog("MarketplacePage",
         "install" :> Submit(marketplaceApi.installApp, {"marketplace-installations"}))

-----------------------------------------------------------------------------
(* security/page.tsx, security/firewall, waf, geoip and events/page.tsx.   *)

SecurityPage ==
  Route("security-score" :> securityApi.getScore
          @@ "security-events" :> securityApi.listEvents, NoActs)

FirewallPage ==
  Route("firewall-rules" :> securityApi.listFirewallRules
          @@ "ip-blocklist" :> securityApi.listBlocklist,
        "delete" :> Row(securityApi.deleteFirewallRule, {"firewall-rules"})
          @@ "unblock" :> Row(securityApi.unblockIP, {"ip-blocklist"}))

AddRuleModal ==
  Dialog("FirewallPage", "create" :> Submit(securityApi.createFirewallRule, {"firewall-rules"}))

BlockIPModal ==
  Dialog("FirewallPage", "block" :> Submit(securityApi.blockIP, {"ip-blocklist"}))

WAFPage ==
  Route("modsec-status" :> modsecApi.getStatus @@ "modsec-rules" :> modsecApi.listRules,
        "setMode" :> Row(modsecApi.setMode, {"modsec-status"})
          @@ "toggleRule" :> Row(modsecApi.toggleRule, {"modsec-rules"}))

GeoIPBlockingPage ==
  Route("geoip-blocks" :> securityApi.listGeoIPBlocks,
        "add" :> Row(securityApi.addGeoIPBlock, {"geoip-blocks"})
          @@ "remove" :> Row(securityApi.removeGeoIPBlock, {"geoip-blocks"}))

\* The blocklist belongs to another page and is not refreshed.
SecurityEventsPage ==
  Polling(Route("security-events" :> securityApi.listEvents,
                "blockIP" :> Row(securityApi.blockIP, {})),
          {"security-events"})

-----------------------------------------------------------------------------
OperationsComponents ==
  [ DockerPage |-> DockerPage, CreateContainerModal |-> CreateContainerModal,
    CreateComposeModal |-> CreateComposeModal, ComposePage |-> ComposePage,
    NewProjectModal |-> NewProjectModal, BackupsPage |-> BackupsPage,
    RunBackupModal |-> RunBackupModal, CreateScheduleModal |-> CreateScheduleModal,
    DevOpsPage |-> DevOpsPage, CreatePipelineModal |-> CreatePipelineModal,
    PipelineDetailPage |-> PipelineDetailPage, MonitoringPage |-> MonitoringPage,
    ServersPage |-> ServersPage, AddServerForm |-> AddServerForm,
    AlertsPage |-> AlertsPage, AddAlertRuleModal |-> AddAlertRuleModal,
    MarketplacePage |-> MarketplacePage, InstallModal |-> InstallModal,
    SecurityPage |-> SecurityPage, FirewallPage |-> FirewallPage,
    AddRuleModal |-> AddRuleModal, BlockIPModal |-> BlockIPModal, WAFPage |-> WAFPage,
    GeoIPBlockingPage |-> GeoIPBlockingPage, SecurityEventsPage |-> SecurityEventsPage ]
=============================================================================
