------------------------------ MODULE Services ------------------------------
(***************************************************************************)
(* Services that share no state, side by side: what they promise together. *)
(* The specification of any of them together is the conjunction of theirs. *)
(***************************************************************************)
EXTENDS OneTimeCodes, BrowserSignIn, RoleAssignments, Signup, PackSamples,
        Exports, ReportSchedules, Notifications

\* A refresh token is exchanged once, and a one-time code signs in once, whatever
\* requests race for it (auth.service.ts, otp.service.ts).
CredentialsWorkOnce == OneTokenChain /\ CodeWorksOnce

\* A signup makes all of a tenant or nothing, and so do the samples of a pack, when
\* no answer is lost (tenants.service.ts, packs.service.ts).
AllOrNothing == SignupAllOrNothing /\ SamplesAllOrNothing

\* An export runs once and is not forgotten, a scheduled report is sent once per slot,
\* and a notification reaches a person once on each channel (exports.service.ts,
\* schedules.service.ts, user-notify.ts).
OutputsGoOutOnce ==
    ExportedOnce /\ NoExportForgotten /\ SentAsScheduled /\ DeliveredOnce
=============================================================================
