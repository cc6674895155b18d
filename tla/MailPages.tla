------------------------------ MODULE MailPages ------------------------------
(***************************************************************************)
(* The pages of mailboxes, forwarders, DKIM keys, autoresponders, filters  *)
(* and the mail queue, as components in the form of PanelComponents.       *)
(***************************************************************************)
EXTENDS PanelComponents

-----------------------------------------------------------------------------
(* email/page.tsx: a page of tabs, each with its dialogs.                  *)

EmailPage == Route(NoReads, NoActs)

MailboxTab ==
  Refetching(Tab("EmailPage", "mailboxes" :> mailApi.listMailboxes,
                 "delete" :> Row(mailApi.deleteMailbox, {"mailboxes"})
                   @@ "suspend" :> Row(mailApi.suspendMailbox, {"mailboxes"})
                   @@ "unsuspend" :> Row(mailApi.unsuspendMailbox, {"mailboxes"})),
             {"mailboxes"})

AddMailboxModal ==
  Dialog("MailboxTab", "create" :> Submit(mailApi.createMailbox, {"mailboxes"}))

\* Two tabs with a form each; the success of either closes the dialog.
MailboxSettingsModal ==
  Dialog("MailboxTab", "update" :> Submit(mailApi.updateMailbox, {"mailboxes"})
                         @@ "changePassword" :> Submit(mailApi.changePassword, {}))

ForwardersTab ==
  Tab("EmailPage", "forwarders" :> mailApi.listForwarders,
      "delete" :> Row(mailApi.deleteForwarder, {"forwarders"}))

AddForwarderDialog ==
  Dialog("ForwardersTab", "create" :> Submit(mailApi.createForwarder, {"forwarders"}))

DKIMTab ==
  Tab("EmailPage", "dkim" :> mailApi.listDKIM,
      "delete" :> Row(mailApi.deleteDKIM, {"dkim"}))

GenerateDKIMDialog ==
  Dialog("DKIMTab", "generate" :> Submit(mailApi.generateDKIM, {"dkim"}))

-----------------------------------------------------------------------------
(* email/forwarders, dkim, autoresponders, filters and queue/page.tsx.     *)

ForwardersPage ==
  Route("forwarders" :> mailApi.listForwarders,
        "delete" :> Row(mailApi.deleteForwarder, {"forwarders"}))

AddForwarderModal ==
  Dialog("ForwardersPage", "create" :> Submit(mailApi.createForwarder, {"forwarders"}))

DKIMPage ==
  Route("dkim" :> mailApi.listDKIM,
        "delete" :> Row(mailApi.deleteDKIM, {"dkim"})
          @@ "regenerate" :> Row(mailApi.generateDKIM, {"dkim"}))

GenerateDKIMModal ==
  Dialog("DKIMPage", "generate" :> Submit(mailApi.generateDKIM, {"dkim"}))

AutorespondersPage ==
  Route("autoresponders" :> autoresponderApi.list,
        "delete" :> Row(autoresponderApi.delete, {"autoresponders"})
          @@ "toggle" :> Row(autoresponderApi.update, {"autoresponders"}))

AddAutoresponderForm ==
  Form("AutorespondersPage",
       "create" :> Submit(autoresponderApi.create, {"autoresponders"}))

\* The query is enabled, and the form offered, once a mailbox is named.
EmailFiltersPage ==
  Route("email-filters" :> emailFilterApi.list,
        "delete" :> Row(emailFilterApi.delete, {"email-filters"})
          @@ "toggle" :> Row(emailFilterApi.update, {"email-filters"}))

AddFilterForm ==
  Form("EmailFiltersPage", "create" :> Submit(emailFilterApi.create, {"email-filters"}))

MailQueuePage ==
  Polling(Refetching(
      Route("mail-queue" :> mailQueueApi.list,
            "flush" :> Guarded(Row(mailQueueApi.flush, {"mail-queue"}))
              @@ "delete" :> Row(mailQueueApi.deleteEntry, {"mail-queue"})
              @@ "deleteAll" :> Guarded(Row(mailQueueApi.deleteAll, {"mail-queue"}))),
      {"mail-queue"}), {"mail-queue"})

-----------------------------------------------------------------------------
MailComponents ==
  [ EmailPage |-> EmailPage, MailboxTab |-> MailboxTab,
    AddMailboxModal |-> AddMailboxModal, MailboxSettingsModal |-> MailboxSettingsModal,
    ForwardersTab |-> ForwardersTab, AddForwarderDialog |-> AddForwarderDialog,
    DKIMTab |-> DKIMTab, GenerateDKIMDialog |-> GenerateDKIMDialog,
    ForwardersPage |-> ForwardersPage, AddForwarderModal |-> AddForwarderModal,
    DKIMPage |-> DKIMPage, GenerateDKIMModal |-> GenerateDKIMModal,
    AutorespondersPage |-> AutorespondersPage,
    AddAutoresponderForm |-> AddAutoresponderForm,
    EmailFiltersPage |-> EmailFiltersPage, AddFilterForm |-> AddFilterForm,
    MailQueuePage |-> MailQueuePage ]
=============================================================================
