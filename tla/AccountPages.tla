---------------------------- MODULE AccountPages ----------------------------
(***************************************************************************)
(* The pages of notifications, billing and passkeys, as components in the  *)
(* form of PanelComponents.                                                *)
(***************************************************************************)
EXTENDS PanelComponents

\* notifications/page.tsx: one key for each filter, all invalidated together.
NotificationsPage ==
  Polling(Route("notifications" :> notificationsApi.list,
                "markRead" :> Row(notificationsApi.markRead, {"notifications"})
                  @@ "markAll" :> Guarded(Row(notificationsApi.markAllRead, {"notifications"}))
                  @@ "delete" :> Row(notificationsApi.delete, {"notifications"})),
          {"notifications"})

\* billing/page.tsx: a new plan comes with new limits, which are not refreshed.
BillingPage ==
  Route("billing-plans" :> billingApi.listPlans
          @@ "subscription" :> billingApi.getSubscription
          @@ "billing-usage" :> billingApi.getUsage,
        "subscribe" :> Guarded(Row(billingApi.createSubscription, {"subscription"}))
          @@ "cancel" :> Guarded(Row(billingApi.cancelSubscription, {"subscription"})))

InvoicesPage == Route("invoices" :> billingApi.listInvoices, NoActs)

\* settings/passkeys/page.tsx: the browser's dialog stands between the calls.
PasskeysPage ==
  Route("passkeys" :> passkeyApi.list,
        "delete" :> Row(passkeyApi.delete, {"passkeys"})
          @@ "register" :> Guarded(Row(passkeyApi.finishRegistration, {"passkeys"})))

AccountComponents ==
  [ NotificationsPage |-> NotificationsPage, BillingPage |-> BillingPage,
    InvoicesPage |-> InvoicesPage, PasskeysPage |-> PasskeysPage ]
=============================================================================
