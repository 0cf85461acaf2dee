--------------------------------- MODULE Site ---------------------------------
(***************************************************************************)
(* The components around the account of a user, at work together.  They     *)
(* share no variable: each module has its own view of what it reads of the  *)
(* User row, and an erasure is an action of every one that it concerns.     *)
(***************************************************************************)
EXTENDS TwoFactor, Registration, PasswordReset, Notifications, FeatureFlags, Profile, Throttling

siteVars == <<tfVars, rgVars, prVars, nfVars, ffVars, pfVars, thVars>>

SiteInit == TFInit /\ RgInit /\ PrInit /\ NfInit /\ FfInit /\ PfInit /\ ThInit

TwoFactorActs == TwoFactorNext /\ UNCHANGED <<rgVars, prVars, nfVars, ffVars, pfVars, thVars>>
RegistrationActs == RegistrationNext /\ UNCHANGED <<tfVars, prVars, nfVars, ffVars, pfVars, thVars>>
PasswordResetActs == PasswordResetNext /\ UNCHANGED <<tfVars, rgVars, nfVars, ffVars, pfVars, thVars>>
NotificationsActs == NotificationsNext /\ UNCHANGED <<tfVars, rgVars, prVars, ffVars, pfVars, thVars>>
FeatureFlagsActs == FeatureFlagsNext /\ UNCHANGED <<tfVars, rgVars, prVars, nfVars, pfVars, thVars>>
ProfileActs == ProfileNext /\ UNCHANGED <<tfVars, rgVars, prVars, nfVars, ffVars, thVars>>
ThrottlingActs == ThrottlingNext /\ UNCHANGED <<tfVars, rgVars, prVars, nfVars, ffVars, pfVars>>

SiteNext ==
    \/ TwoFactorActs \/ RegistrationActs \/ PasswordResetActs \/ NotificationsActs
    \/ FeatureFlagsActs \/ ProfileActs \/ ThrottlingActs

SiteSpec == SiteInit /\ [][SiteNext]_siteVars

\* The variables of every component keep their types, whatever their requests
\* read before others wrote.
SiteTypeOK ==
    /\ TwoFactorTypeOK /\ RegistrationTypeOK /\ PasswordResetTypeOK /\ NotificationsTypeOK
    /\ FeatureFlagsTypeOK /\ ProfileTypeOK /\ ThrottlingTypeOK
=============================================================================
