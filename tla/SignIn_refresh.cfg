CONSTANTS
    MaxFaults = 2
SPECIFICATION Spec

PROPERTIES RefreshChecksOrganization
