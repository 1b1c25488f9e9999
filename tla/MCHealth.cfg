\* A day of three passes: two for a confirmation, one for the nag.
SPECIFICATION Spec
CONSTANT RealertAfter = 3
PROPERTIES NeverOnOneReading ChangesAreTold
