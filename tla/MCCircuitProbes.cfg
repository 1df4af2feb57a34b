CONSTANTS
  c1 = c1
  c2 = c2
  Calls = {c1, c2}
  Providers = {"postal", "resend", "apns", "fcm"}
  Routes <- MCRoutes
  Configured = {"resend", "fcm"}
  Threshold = 2
  ResetAfter = 2
SPECIFICATION Spec
PROPERTY HalfOpenTriesOne
